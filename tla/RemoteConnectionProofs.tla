----------------------- MODULE RemoteConnectionProofs -----------------------
(***************************************************************************)
(* Theorems on RemoteConnection, for every value of its constants.         *)
(*                                                                         *)
(* The inductive invariant says of Impl's record: every outstanding        *)
(* operation was started in the present generation or an earlier one; of   *)
(* the present generation there is at most one operation in each direction *)
(* of the stream, and none without a stream; a write is outstanding only   *)
(* while writeInProgress_ is set, and then writeQueue_ has a front.        *)
(***************************************************************************)
EXTENDS RemoteConnection, TLAPS

-----------------------------------------------------------------------------
(* The building blocks of the member functions map ImplType to ImplType. *)

\* Starting an operation keeps the record's type.
LEMMA StartType ==
    ASSUME NEW s \in ImplType, NEW kind \in OpKinds
    PROVE  Start(s, kind) \in ImplType
<1> DEFINE op == [kind |-> kind, gen |-> s.generation]
<1>1. op \in Ops
  BY DEF Ops, ImplType
<1>2. [op |-> op, result |-> "error"] \in Completions
  BY <1>1 DEF Completions, Results
<1>3. Misused(s, kind) \in BOOLEAN
  BY DEF Misused
<1> DEFINE t == [s EXCEPT !.misuse = @ \/ Misused(s, kind)]
<1>4. t \in ImplType
  BY <1>3 DEF ImplType
<1> HIDE DEF t, op
<1>5. [t EXCEPT !.ready = Append(@, [op |-> op, result |-> "error"])] \in ImplType
  <2>1. Append(t.ready, [op |-> op, result |-> "error"]) \in CompletionSeqs
    <3>1. t.ready \in CompletionSeqs
      BY <1>4 DEF ImplType
    <3>2. QED
      BY <3>1, <1>2 DEF CompletionSeqs
  <2>2. QED
    BY <2>1, <1>4 DEF ImplType
<1>6. [t EXCEPT !.pending = @ \cup {op}] \in ImplType
  BY <1>1, <1>4 DEF ImplType
<1>7. QED
  BY <1>5, <1>6 DEF Start, t, op

\* Cancelling a timer keeps the record's type.
LEMMA CancelTimerType ==
    ASSUME NEW s \in ImplType, NEW timer
    PROVE  CancelTimer(s, timer) \in ImplType
<1> DEFINE R == [i \in DOMAIN s.ready |->
                    IF s.ready[i].op.kind = timer
                    THEN [s.ready[i] EXCEPT !.result = "late"] ELSE s.ready[i]]
           P == {o \in s.pending : o.kind # timer}
<1>1. s.ready \in Seq(Completions) /\ s.pending \in SUBSET Ops
  BY DEF ImplType, CompletionSeqs
<1>2. ASSUME NEW c \in Completions
      PROVE  [c EXCEPT !.result = "late"] \in Completions
  BY DEF Completions, Results
<1>3. R \in Seq(Completions)
  BY <1>1, <1>2
<1>4. P \in SUBSET Ops
  BY <1>1
<1>5. CancelTimer(s, timer) = [s EXCEPT !.pending = P, !.ready = R]
  BY DEF CancelTimer, ImplType
<1> HIDE DEF R, P
<1>6. QED
  <2>1. R \in CompletionSeqs
    BY <1>3 DEF CompletionSeqs
  <2>2. QED
    BY <2>1, <1>4, <1>5 DEF ImplType

\* Setting a timer keeps the record's type.
LEMMA SetTimerType ==
    ASSUME NEW s \in ImplType, NEW timer \in TimerKinds
    PROVE  SetTimer(s, timer) \in ImplType
BY StartType, CancelTimerType DEF SetTimer, OpKinds

\* closeStream keeps the record's type.
LEMMA CloseStreamType ==
    ASSUME NEW s \in ImplType
    PROVE  CloseStream(s) \in ImplType
<1>1. InvalidateHandlers(s) \in ImplType
  BY DEF InvalidateHandlers, ImplType
<1>2. ASSUME NEW t \in ImplType PROVE ForgetVoice(t) \in ImplType
  BY DEF ForgetVoice, ImplType, Sessions
<1>3. ASSUME NEW t \in ImplType PROVE ForgetWrites(t) \in ImplType
  <2>1. <<>> \in MessageSeqs
    BY DEF MessageSeqs
  <2>2. QED
    BY <2>1 DEF ForgetWrites, ImplType
<1>4. ASSUME NEW t \in ImplType PROVE [t EXCEPT !.readShift = 0, !.stream = "null"] \in ImplType
  BY DEF ImplType
<1>5. QED
  BY <1>1, <1>2, <1>3, <1>4 DEF CloseStream

\* emitAvailability keeps the record's type.
LEMMA EmitAvailabilityType ==
    ASSUME NEW s \in ImplType, NEW available \in BOOLEAN
    PROVE  EmitAvailability(s, available) \in ImplType
BY DEF EmitAvailability, ImplType

\* What the message builders return.
LEMMA MessageType ==
    ASSUME NEW kind \in MessageKinds, NEW word \in Words
    PROVE  /\ Message(kind, word) \in Messages
           /\ \A f \in SUBSET Features : [Message(kind, word) EXCEPT !.features = f] \in Messages
BY DEF Message, Messages

\* Remembering a report of the television keeps the record's type.
LEMMA MirrorType ==
    ASSUME NEW s \in ImplType, NEW field \in MirrorFields, NEW word \in Words
    PROVE  Mirror(s, field, word) \in ImplType
<1>1. s.mirror \in Mirrors
  BY DEF ImplType
<1>2. [s.mirror EXCEPT ![field] = word] \in Mirrors
  BY <1>1 DEF Mirrors
<1>3. QED
  BY <1>2 DEF Mirror, ImplType

\* A message the television may send.
TvMessageType == [kind: TvKinds, word: Words, features: SUBSET Features]

-----------------------------------------------------------------------------
(* The invariant, as predicates of one record. *)

\* Operation o is of the present stream and competes with operations of `kind'.
Occupies(s, o, kind) == o.gen = s.generation /\ Compete(o.kind, kind)

\* Nothing competes with an operation of `kind' on the present stream.
Free(s, kind) ==
    /\ \A o \in s.pending : ~Occupies(s, o, kind)
    /\ \A i \in DOMAIN s.ready : ~Occupies(s, s.ready[i].op, kind)

Bounded(s) ==
    /\ \A o \in s.pending : o.gen <= s.generation
    /\ \A i \in DOMAIN s.ready : s.ready[i].op.gen <= s.generation

Rivals(s, o, p) ==
    o.gen = s.generation /\ p.gen = s.generation /\ Compete(o.kind, p.kind)

\* No two places of pending and ready hold rivals.
Unique(s) ==
    /\ \A o, p \in s.pending : Rivals(s, o, p) => o = p
    /\ \A o \in s.pending : \A i \in DOMAIN s.ready : ~Rivals(s, o, s.ready[i].op)
    /\ \A i, j \in DOMAIN s.ready : Rivals(s, s.ready[i].op, s.ready[j].op) => i = j

IoInv(s) ==
    /\ Bounded(s)
    /\ Unique(s)
    /\ s.stream = "null" => \A kind \in OpKinds : Free(s, kind)
    /\ ~s.misuse

WriterInv(s) ==
    /\ s.writeInProgress \/ Free(s, "write")
    /\ s.writeInProgress => s.writeQueue # <<>>

\* DisconnectedStaysDown, of a record.
StateInv(s) ==
    ~s.shuttingDown =>
        /\ s.userDisconnect => s.state = "Disconnected"
        /\ s.state = "Disconnected" => s.stream = "null"
        /\ s.state \in {"Connecting", "Connected"} => s.stream # "null"

RecordInv(s) == s \in ImplType /\ IoInv(s) /\ WriterInv(s) /\ StateInv(s)

Inv ==
    /\ TypeOK
    /\ RecordInv(impl)
    /\ destructor # "none" /\ overtaken = "no" => impl.shuttingDown
    /\ destructor \in {"none", "cleaned", "joined"} => overtaken = "no"

\* t has the connection of s: the fields that say which stream there is and
\* what is known of it.
SameConnection(s, t) ==
    /\ t.generation = s.generation
    /\ t.stream = s.stream
    /\ t.state = s.state
    /\ t.userDisconnect = s.userDisconnect
    /\ t.shuttingDown = s.shuttingDown

SameOps(s, t) == t.pending = s.pending /\ t.ready = s.ready /\ t.misuse = s.misuse

SameQueue(s, t) ==
    t.writeQueue = s.writeQueue /\ t.writeInProgress = s.writeInProgress

-----------------------------------------------------------------------------
(* What the building blocks do to these predicates. *)

\* The predicates depend on the connection, the operations and the queue only.
LEMMA FrameLemma ==
    ASSUME NEW s \in ImplType, NEW t \in ImplType, SameConnection(s, t), SameOps(s, t)
    PROVE  /\ IoInv(s) => IoInv(t)
           /\ \A kind \in OpKinds : Free(s, kind) => Free(t, kind)
           /\ WriterInv(s) /\ SameQueue(s, t) => WriterInv(t)
           /\ StateInv(s) => StateInv(t)
<1>1. \A kind \in OpKinds : Free(s, kind) <=> Free(t, kind)
  BY DEF SameConnection, SameOps, Free, Occupies
<1>2. IoInv(s) => IoInv(t)
  BY <1>1 DEF SameConnection, SameOps, IoInv, Bounded, Unique, Rivals
<1>3. WriterInv(s) /\ SameQueue(s, t) => WriterInv(t)
  BY <1>1 DEF WriterInv, SameQueue, OpKinds
<1>4. StateInv(s) => StateInv(t)
  BY DEF StateInv, SameConnection
<1>5. QED
  BY <1>1, <1>2, <1>3, <1>4

\* Competing is symmetric, and timers and reads never compete with writes.
LEMMA CompeteLemma ==
    ASSUME NEW k \in OpKinds, NEW l \in OpKinds
    PROVE  /\ Compete(k, l) => Compete(l, k)
           /\ Compete(k, l) => k \notin TimerKinds /\ l \notin TimerKinds
           /\ k \in ChainKinds => ~Compete(k, "write") /\ ~Compete("write", k)
BY DEF Compete, OpKinds, ChainKinds, TimerKinds

\* What Start changes.
LEMMA StartFields ==
    ASSUME NEW s \in ImplType, NEW kind \in OpKinds
    PROVE  LET t  == Start(s, kind)
               op == [kind |-> kind, gen |-> s.generation]
           IN  /\ SameConnection(s, t) /\ SameQueue(s, t)
               /\ t.misuse = (s.misuse \/ Misused(s, kind))
               /\ \/ t.pending = s.pending \cup {op} /\ t.ready = s.ready
                  \/ /\ t.pending = s.pending
                     /\ t.ready = Append(s.ready, [op |-> op, result |-> "error"])
BY DEF Start, ImplType, SameConnection, SameQueue

\* Two sequences of ready handlers: one appended to, one beheaded.
LEMMA ReadyLemma ==
    ASSUME NEW q \in CompletionSeqs, NEW c \in Completions
    PROVE  /\ Append(q, c) \in CompletionSeqs
           /\ DOMAIN Append(q, c) = DOMAIN q \cup {Len(q) + 1}
           /\ Len(q) + 1 \notin DOMAIN q
           /\ Append(q, c)[Len(q) + 1] = c
           /\ \A i \in DOMAIN q : Append(q, c)[i] = q[i]
BY DEF CompletionSeqs

\* The types of the fields that the io_context's bookkeeping uses.
LEMMA FieldTypes ==
    ASSUME NEW s \in ImplType
    PROVE  /\ s.pending \subseteq Ops
           /\ s.ready \in CompletionSeqs
           /\ s.generation \in Nat
           /\ \A o \in s.pending : o.kind \in OpKinds /\ o.gen \in Nat
           /\ \A i \in DOMAIN s.ready :
                 /\ s.ready[i] \in Completions
                 /\ s.ready[i].op.kind \in OpKinds /\ s.ready[i].op.gen \in Nat
<1>1. s.pending \subseteq Ops /\ s.ready \in CompletionSeqs /\ s.generation \in Nat
  BY DEF ImplType
<1>2. \A i \in DOMAIN s.ready : s.ready[i] \in Completions
  BY <1>1 DEF CompletionSeqs
<1>3. QED
  BY <1>1, <1>2 DEF Ops, Completions

\* An operation started in a free lane of a stream is not a misuse.
LEMMA StartIo ==
    ASSUME NEW s \in ImplType, NEW kind \in OpKinds, IoInv(s), Free(s, kind),
           kind \in TimerKinds \/ s.stream # "null"
    PROVE  /\ IoInv(Start(s, kind))
           /\ \A k \in OpKinds : Free(s, k) /\ ~Compete(kind, k) => Free(Start(s, kind), k)
<1> DEFINE t == Start(s, kind)
           op == [kind |-> kind, gen |-> s.generation]
           c == [op |-> op, result |-> "error"]
<1>1. /\ SameConnection(s, t)
      /\ t.misuse = (s.misuse \/ Misused(s, kind))
      /\ \/ t.pending = s.pending \cup {op} /\ t.ready = s.ready
         \/ t.pending = s.pending /\ t.ready = Append(s.ready, c)
  BY StartFields
<1>2. ~Misused(s, kind)
  BY DEF Misused, Free, Occupies, Outstanding
<1>3. op.kind = kind /\ op.gen = s.generation /\ s.generation \in Nat /\ c.op = op
  BY FieldTypes
<1>4. c \in Completions
  BY <1>3 DEF Completions, Results, Ops
<1>5. s.ready \in CompletionSeqs
  BY FieldTypes
<1>a. \A k \in OpKinds : /\ Compete(k, kind) <=> Compete(kind, k)
                         /\ kind \in TimerKinds => ~Compete(k, kind)
  BY CompeteLemma
<1> HIDE DEF t, op, c
<1>6. CASE t.pending = s.pending \cup {op} /\ t.ready = s.ready
  <2>1. Bounded(t)
    BY <1>1, <1>3, <1>6 DEF IoInv, Bounded, SameConnection
  <2>2. Unique(t)
    BY <1>1, <1>3, <1>6, <1>a, FieldTypes
    DEF IoInv, Unique, Rivals, Free, Occupies, SameConnection
  <2>3. \A k \in OpKinds : Free(s, k) /\ ~Compete(kind, k) => Free(t, k)
    BY <1>1, <1>3, <1>6 DEF Free, Occupies, SameConnection
  <2>4. t.stream = "null" => \A k \in OpKinds : Free(t, k)
    BY <1>1, <1>a, <2>3 DEF IoInv, SameConnection
  <2>5. QED
    BY <1>1, <1>2, <2>1, <2>2, <2>3, <2>4 DEF IoInv, t
<1>7. CASE t.pending = s.pending /\ t.ready = Append(s.ready, c)
  <2> DEFINE n == Len(s.ready) + 1
  <2>a. /\ DOMAIN t.ready = DOMAIN s.ready \cup {n} /\ n \notin DOMAIN s.ready
        /\ t.ready[n].op = op
        /\ \A i \in DOMAIN s.ready : t.ready[i] = s.ready[i]
    BY <1>3, <1>4, <1>5, <1>7, ReadyLemma
  <2> HIDE DEF n
  <2>1. Bounded(t)
    BY <1>1, <1>3, <1>7, <2>a DEF IoInv, Bounded, SameConnection
  <2>2. Unique(t)
    BY <1>1, <1>3, <1>7, <2>a, <1>a, FieldTypes
    DEF IoInv, Unique, Rivals, Free, Occupies, SameConnection
  <2>3. \A k \in OpKinds : Free(s, k) /\ ~Compete(kind, k) => Free(t, k)
    BY <1>1, <1>3, <1>7, <2>a DEF Free, Occupies, SameConnection
  <2>4. t.stream = "null" => \A k \in OpKinds : Free(t, k)
    BY <1>1, <1>a, <2>3 DEF IoInv, SameConnection
  <2>5. QED
    BY <1>1, <1>2, <2>1, <2>2, <2>3, <2>4 DEF IoInv, t
<1>8. QED
  BY <1>1, <1>6, <1>7

\* Operations that go away, or whose result changes, disturb nothing.
LEMMA FewerOps ==
    ASSUME NEW s \in ImplType, NEW t \in ImplType,
           SameConnection(s, t), t.misuse = s.misuse, t.pending \subseteq s.pending,
           DOMAIN t.ready = DOMAIN s.ready,
           \A i \in DOMAIN s.ready : t.ready[i].op = s.ready[i].op
    PROVE  /\ IoInv(s) => IoInv(t)
           /\ \A k \in OpKinds : Free(s, k) => Free(t, k)
<1>1. \A k \in OpKinds : Free(s, k) => Free(t, k)
  BY DEF Free, Occupies, SameConnection
<1>2. Bounded(s) => Bounded(t)
  BY DEF Bounded, SameConnection
<1>3. Unique(s) => Unique(t)
  BY DEF Unique, Rivals, SameConnection
<1>4. QED
  BY <1>1, <1>2, <1>3 DEF IoInv, SameConnection

\* Cancelling a timer disturbs no operation of a stream.
LEMMA CancelTimerIo ==
    ASSUME NEW s \in ImplType, NEW timer
    PROVE  LET t == CancelTimer(s, timer)
           IN  /\ SameConnection(s, t) /\ SameQueue(s, t)
               /\ IoInv(s) => IoInv(t)
               /\ \A k \in OpKinds : Free(s, k) => Free(t, k)
               /\ RecordInv(s) => RecordInv(t)
<1> DEFINE t == CancelTimer(s, timer)
<1>1. t \in ImplType
  BY CancelTimerType
<1>2. SameConnection(s, t) /\ SameQueue(s, t) /\ t.misuse = s.misuse
  BY DEF CancelTimer, ImplType, SameConnection, SameQueue
<1>3. /\ t.pending = {o \in s.pending : o.kind # timer}
      /\ t.ready = [i \in DOMAIN s.ready |-> IF s.ready[i].op.kind = timer
                                             THEN [s.ready[i] EXCEPT !.result = "late"]
                                             ELSE s.ready[i]]
  BY DEF CancelTimer, ImplType
<1>4. \A c \in Completions : [c EXCEPT !.result = "late"].op = c.op
  BY DEF Completions
<1>5. \A i \in DOMAIN s.ready : s.ready[i] \in Completions
  BY FieldTypes
<1> HIDE DEF t
<1>6. DOMAIN t.ready = DOMAIN s.ready /\ \A i \in DOMAIN s.ready : t.ready[i].op = s.ready[i].op
  BY <1>3, <1>4, <1>5
<1>7. t.pending \subseteq s.pending
  BY <1>3
<1>8. (IoInv(s) => IoInv(t)) /\ \A k \in OpKinds : Free(s, k) => Free(t, k)
  BY <1>1, <1>2, <1>6, <1>7, FewerOps
<1>9. RecordInv(s) => RecordInv(t)
  BY <1>1, <1>2, <1>8
  DEF RecordInv, WriterInv, StateInv, SameConnection, SameQueue, OpKinds
<1>10. QED
  BY <1>2, <1>8, <1>9 DEF t

\* Setting a timer disturbs no operation of a stream.
LEMMA SetTimerIo ==
    ASSUME NEW s \in ImplType, NEW timer \in TimerKinds
    PROVE  LET t == SetTimer(s, timer)
           IN  /\ SameConnection(s, t) /\ SameQueue(s, t)
               /\ IoInv(s) => IoInv(t)
               /\ IoInv(s) => \A k \in OpKinds : Free(s, k) => Free(t, k)
               /\ RecordInv(s) => RecordInv(t)
<1> DEFINE c == CancelTimer(s, timer)
           t == Start(c, timer)
<1>1. c \in ImplType /\ timer \in OpKinds
  BY CancelTimerType DEF OpKinds
<1>2. t \in ImplType
  BY <1>1, StartType
<1>3. /\ SameConnection(s, c) /\ SameQueue(s, c)
      /\ IoInv(s) => IoInv(c)
      /\ \A k \in OpKinds : Free(s, k) => Free(c, k)
  BY CancelTimerIo
<1> HIDE DEF c
<1>4. SameConnection(c, t) /\ SameQueue(c, t)
  BY <1>1, StartFields
<1>5. Free(c, timer) /\ \A k \in OpKinds : ~Compete(timer, k)
  BY <1>1, CompeteLemma, FieldTypes DEF Free, Occupies
<1>6. IoInv(c) => IoInv(t) /\ \A k \in OpKinds : Free(c, k) => Free(t, k)
  BY <1>1, <1>5, StartIo
<1> HIDE DEF t
<1>7. SameConnection(s, t) /\ SameQueue(s, t)
  BY <1>3, <1>4 DEF SameConnection, SameQueue
<1>8. RecordInv(s) => RecordInv(t)
  BY <1>2, <1>3, <1>6, <1>7
  DEF RecordInv, WriterInv, StateInv, SameConnection, SameQueue, OpKinds
<1>9. QED
  BY <1>3, <1>6, <1>7, <1>8 DEF SetTimer, t, c

\* closeStream leaves no operation of the present generation.
LEMMA CloseStreamIo ==
    ASSUME NEW s \in ImplType, Bounded(s), ~s.misuse
    PROVE  LET t == CloseStream(s)
           IN  /\ IoInv(t) /\ WriterInv(t)
               /\ \A k \in OpKinds : Free(t, k)
               /\ t.stream = "null" /\ t.state = s.state
               /\ t.userDisconnect = s.userDisconnect /\ t.shuttingDown = s.shuttingDown
<1> DEFINE t == CloseStream(s)
<1>1. /\ t.generation = s.generation + 1 /\ t.pending = s.pending /\ t.ready = s.ready
      /\ t.misuse = s.misuse /\ t.writeInProgress = FALSE
      /\ t.stream = "null" /\ t.state = s.state
      /\ t.userDisconnect = s.userDisconnect /\ t.shuttingDown = s.shuttingDown
  BY DEF CloseStream, ForgetWrites, ForgetVoice, InvalidateHandlers, ImplType
<1> HIDE DEF t
<1>2. /\ \A o \in s.pending : o.gen < t.generation
      /\ \A i \in DOMAIN s.ready : s.ready[i].op.gen < t.generation
  BY <1>1, FieldTypes DEF Bounded
<1>3. t.generation \in Nat
  BY <1>1, FieldTypes
<1>4. \A k \in OpKinds : Free(t, k)
  BY <1>1, <1>2, <1>3, FieldTypes DEF Free, Occupies
<1>5. Bounded(t) /\ Unique(t)
  BY <1>1, <1>2, <1>3, FieldTypes DEF Bounded, Unique, Rivals
<1>6. QED
  BY <1>1, <1>4, <1>5 DEF IoInv, WriterInv, OpKinds, t

\* beginConnect leaves a good record: no attempt, or a fresh stream with one
\* resolution under way.
LEMMA BeginConnectInv ==
    ASSUME NEW s \in ImplType, Bounded(s), ~s.misuse, NEW reconnecting \in BOOLEAN,
           NEW loadable \in BOOLEAN, RecordInv(s) \/ MayConnect(s)
    PROVE  /\ RecordInv(BeginConnect(s, reconnecting, loadable))
           /\ BeginConnect(s, reconnecting, loadable).shuttingDown = s.shuttingDown
<1> DEFINE u == CloseStream(s)
           c == EnsureSslContext(u, loadable)
           d == SetState(c, "Disconnected")
           state == IF reconnecting THEN "Reconnecting" ELSE "Connecting"
           o == [SetState(c, state) EXCEPT !.stream = "opened"]
           t == Start(o, "resolve")
<1>0. CASE ~MayConnect(s)
  BY <1>0 DEF BeginConnect
<1>1. CASE MayConnect(s)
  <2>1. u \in ImplType
    BY CloseStreamType
  <2>2. /\ IoInv(u) /\ WriterInv(u) /\ \A k \in OpKinds : Free(u, k)
        /\ u.stream = "null"
        /\ u.userDisconnect = s.userDisconnect /\ u.shuttingDown = s.shuttingDown
    BY CloseStreamIo
  <2> HIDE DEF u
  <2>3. c \in ImplType /\ SameConnection(u, c) /\ SameOps(u, c) /\ SameQueue(u, c)
    BY <2>1 DEF EnsureSslContext, ImplType, SameConnection, SameOps, SameQueue
  <2> HIDE DEF c
  <2>4. IoInv(c) /\ WriterInv(c) /\ \A k \in OpKinds : Free(c, k)
    BY <2>1, <2>2, <2>3, FrameLemma
  <2>5. d \in ImplType /\ SameOps(c, d) /\ SameQueue(c, d) /\ d.generation = c.generation
        /\ d.stream = c.stream /\ d.state = "Disconnected"
        /\ d.userDisconnect = c.userDisconnect /\ d.shuttingDown = c.shuttingDown
    BY <2>3 DEF SetState, ImplType, States, SameOps, SameQueue
  <2>6. state \in States /\ state # "Disconnected"
    BY DEF States
  <2> HIDE DEF state
  <2>7. o \in ImplType /\ SameOps(c, o) /\ SameQueue(c, o) /\ o.generation = c.generation
        /\ o.stream = "opened" /\ o.state = state
        /\ o.userDisconnect = c.userDisconnect /\ o.shuttingDown = c.shuttingDown
    BY <2>3, <2>6 DEF SetState, ImplType, SameOps, SameQueue
  <2> HIDE DEF d, o
  <2>8. RecordInv(d) /\ d.shuttingDown = s.shuttingDown
    <3>1. IoInv(d) /\ WriterInv(d)
      BY <2>4, <2>5, <2>3, <2>2
      DEF IoInv, WriterInv, Bounded, Unique, Rivals, Free, Occupies, SameOps, SameQueue,
          SameConnection
    <3>2. QED
      BY <3>1, <2>2, <2>3, <2>5, <1>1 DEF RecordInv, StateInv, SameConnection, MayConnect
  <2>9. IoInv(o) /\ WriterInv(o) /\ \A k \in OpKinds : Free(o, k)
    BY <2>4, <2>7 DEF IoInv, WriterInv, Bounded, Unique, Rivals, Free, Occupies, SameOps, SameQueue
  <2>10. RecordInv(t) /\ t.shuttingDown = s.shuttingDown
    <3>1. "resolve" \in OpKinds /\ ~Compete("resolve", "write") /\ "write" \in OpKinds
      BY DEF OpKinds, ChainKinds, Compete
    <3>2. t \in ImplType /\ SameConnection(o, t) /\ SameQueue(o, t)
      BY <2>7, <3>1, StartType, StartFields
    <3>3. IoInv(t) /\ Free(t, "write")
      BY <2>7, <2>9, <3>1, StartIo
    <3> HIDE DEF t
    <3>4. WriterInv(t)
      BY <2>9, <3>2, <3>3 DEF WriterInv, SameQueue
    <3>5. StateInv(t)
      BY <1>1, <2>2, <2>3, <2>6, <2>7, <3>2 DEF StateInv, SameConnection, MayConnect
    <3>6. QED
      BY <2>2, <2>3, <2>7, <3>2, <3>3, <3>4, <3>5 DEF RecordInv, SameConnection
  <2>11. QED
    BY <1>1, <2>8, <2>10 DEF BeginConnect, u, c, d, o, t, state
<1>2. QED
  BY <1>0, <1>1

\* A record that differs from s only in fields the invariant does not mention.
LEMMA UnseenFields ==
    ASSUME NEW s, NEW t \in ImplType, RecordInv(s),
           SameConnection(s, t), SameOps(s, t), SameQueue(s, t)
    PROVE  RecordInv(t)
BY FrameLemma DEF RecordInv

\* After closeStream, any state but Connecting and Connected will do.
LEMMA ClosedInv ==
    ASSUME NEW s \in ImplType, NEW t \in ImplType, IoInv(s), WriterInv(s), s.stream = "null",
           SameOps(s, t), SameQueue(s, t), t.generation = s.generation, t.stream = s.stream,
           t.state \in {"Disconnected", "Reconnecting"},
           t.userDisconnect => t.state = "Disconnected"
    PROVE  RecordInv(t)
<1>1. IoInv(t) /\ WriterInv(t)
  BY DEF IoInv, WriterInv, Bounded, Unique, Rivals, Free, Occupies, SameOps, SameQueue
<1>2. QED
  BY <1>1 DEF RecordInv, StateInv

\* Reporting availability touches nothing the invariant speaks of.
LEMMA EmitAvailabilityInv ==
    ASSUME NEW s \in ImplType, NEW b \in BOOLEAN
    PROVE  LET t == EmitAvailability(s, b)
           IN  t \in ImplType /\ SameConnection(s, t) /\ SameOps(s, t) /\ SameQueue(s, t)
<1>1. EmitAvailability(s, b) \in ImplType
  BY EmitAvailabilityType
<1>2. SameConnection(s, EmitAvailability(s, b))
  BY DEF EmitAvailability, ImplType, SameConnection
<1>3. SameOps(s, EmitAvailability(s, b)) /\ SameQueue(s, EmitAvailability(s, b))
  BY DEF EmitAvailability, ImplType, SameOps, SameQueue
<1>4. QED
  BY <1>1, <1>2, <1>3

\* handleConnectionLoss keeps the invariant, with or without a retry.
LEMMA HandleConnectionLossInv ==
    ASSUME NEW s, RecordInv(s), NEW gen
    PROVE  /\ RecordInv(HandleConnectionLoss(s, gen))
           /\ HandleConnectionLoss(s, gen).shuttingDown = s.shuttingDown
<1> DEFINE u == CloseStream(s)
           c == AnnounceLoss(u)
           d == SetState(c, "Disconnected")
           r == SetState(c, "Reconnecting")
           w == SetTimer(r, "reconnectTimer")
           t == ScheduleReconnect(r)
<1>1. s \in ImplType /\ u \in ImplType
  BY CloseStreamType DEF RecordInv
<1>2. /\ IoInv(u) /\ WriterInv(u)
      /\ u.stream = "null" /\ u.userDisconnect = s.userDisconnect
      /\ u.shuttingDown = s.shuttingDown
  BY <1>1, CloseStreamIo DEF RecordInv, IoInv
<1> HIDE DEF u
<1>3. c \in ImplType /\ SameConnection(u, c) /\ SameOps(u, c) /\ SameQueue(u, c)
  <2>1. SameConnection(u, u) /\ SameOps(u, u) /\ SameQueue(u, u)
    BY DEF SameConnection, SameOps, SameQueue
  <2>2. QED
    BY <1>1, <2>1, EmitAvailabilityInv DEF AnnounceLoss
<1> HIDE DEF c
<1>4. /\ d \in ImplType /\ SameOps(c, d) /\ SameQueue(c, d) /\ d.generation = c.generation
      /\ d.stream = c.stream /\ d.state = "Disconnected" /\ d.shuttingDown = c.shuttingDown
  BY <1>3 DEF SetState, ImplType, States, SameOps, SameQueue
<1>5. /\ r \in ImplType /\ SameOps(c, r) /\ SameQueue(c, r) /\ r.generation = c.generation
      /\ r.stream = c.stream /\ r.state = "Reconnecting"
      /\ r.userDisconnect = c.userDisconnect /\ r.shuttingDown = c.shuttingDown
  BY <1>3 DEF SetState, ImplType, States, SameOps, SameQueue
<1> HIDE DEF d, r
<1>6. IoInv(c) /\ WriterInv(c) /\ c.stream = "null"
  BY <1>1, <1>2, <1>3, FrameLemma DEF SameConnection
<1>7. RecordInv(d) /\ d.shuttingDown = s.shuttingDown
  <2>1. RecordInv(d)
    BY <1>3, <1>4, <1>6, ClosedInv
  <2>2. QED
    BY <2>1, <1>2, <1>3, <1>4 DEF SameConnection
<1>8. ASSUME MayConnect(s) PROVE RecordInv(t) /\ t.shuttingDown = s.shuttingDown
  <2>1. ~r.userDisconnect /\ r.shuttingDown = s.shuttingDown
    BY <1>2, <1>3, <1>5, <1>8 DEF MayConnect, SameConnection
  <2>2. RecordInv(r)
    BY <1>3, <1>5, <1>6, <2>1, ClosedInv
  <2>3. "reconnectTimer" \in TimerKinds
    BY DEF TimerKinds
  <2>4. w \in ImplType /\ RecordInv(w) /\ SameConnection(r, w)
    BY <1>5, <2>2, <2>3, SetTimerIo, SetTimerType
  <2>5. t \in ImplType
    <3> DEFINE x == IF 2 * w.reconnectDelay <= MaxDelay THEN 2 * w.reconnectDelay ELSE MaxDelay
    <3>1. w.reconnectDelay \in Delays
      BY <2>4 DEF ImplType
    <3>2. x \in Delays
      BY <3>1, LimitAssumption DEF Delays
    <3>3. t = [w EXCEPT !.reconnectDelay = x]
      BY <2>4 DEF ScheduleReconnect, ImplType
    <3> HIDE DEF w, x, t
    <3>4. QED
      BY <2>4, <3>2, <3>3 DEF ImplType
  <2>6. SameConnection(w, t) /\ SameOps(w, t) /\ SameQueue(w, t)
    <3> HIDE DEF w
    <3>1. QED
      BY <2>4 DEF ScheduleReconnect, ImplType, SameConnection, SameOps, SameQueue, w
  <2> HIDE DEF w, t
  <2>7. RecordInv(t)
    BY <2>4, <2>5, <2>6, UnseenFields
  <2>8. QED
    BY <2>1, <2>4, <2>6, <2>7 DEF SameConnection
<1>9. QED
  BY <1>7, <1>8 DEF HandleConnectionLoss, u, c, d, r, t

\* connectionFailed keeps the invariant.
LEMMA ConnectionFailedInv ==
    ASSUME NEW s, RecordInv(s), NEW gen
    PROVE  /\ RecordInv(ConnectionFailed(s, gen))
           /\ ConnectionFailed(s, gen).shuttingDown = s.shuttingDown
BY HandleConnectionLossInv DEF ConnectionFailed

\* A refused handshake keeps the invariant.
LEMMA AuthenticationFailedInv ==
    ASSUME NEW s, RecordInv(s), NEW gen
    PROVE  /\ RecordInv(AuthenticationFailed(s, gen))
           /\ AuthenticationFailed(s, gen).shuttingDown = s.shuttingDown
<1> DEFINE u == CloseStream(s)
           c == SetState(u, "Disconnected")
           e == EmitAvailability(c, FALSE)
<1>1. s \in ImplType /\ u \in ImplType
  BY CloseStreamType DEF RecordInv
<1>2. IoInv(u) /\ WriterInv(u) /\ u.stream = "null" /\ u.shuttingDown = s.shuttingDown
  BY <1>1, CloseStreamIo DEF RecordInv, IoInv
<1> HIDE DEF u
<1>3. /\ c \in ImplType /\ SameOps(u, c) /\ SameQueue(u, c) /\ c.generation = u.generation
      /\ c.stream = u.stream /\ c.state = "Disconnected" /\ c.shuttingDown = u.shuttingDown
  BY <1>1 DEF SetState, ImplType, States, SameOps, SameQueue
<1> HIDE DEF c
<1>4. RecordInv(c)
  BY <1>1, <1>2, <1>3, ClosedInv
<1>5. e \in ImplType /\ SameConnection(c, e) /\ SameOps(c, e) /\ SameQueue(c, e)
  BY <1>3, EmitAvailabilityInv
<1>6. RecordInv(e) /\ e.shuttingDown = c.shuttingDown
  BY <1>4, <1>5, UnseenFields DEF SameConnection
<1> HIDE DEF e
<1>7. QED
  BY <1>2, <1>3, <1>4, <1>6 DEF AuthenticationFailed, u, c, e

-----------------------------------------------------------------------------
(* Reading and writing. *)

\* The next operation of the chain, started when the chain has none.
LEMMA ChainStartInv ==
    ASSUME NEW s, RecordInv(s), NEW kind \in ChainKinds, Free(s, kind), s.stream # "null"
    PROVE  RecordInv(Start(s, kind)) /\ Start(s, kind).shuttingDown = s.shuttingDown
<1> DEFINE t == Start(s, kind)
<1>1. s \in ImplType /\ kind \in OpKinds /\ "write" \in OpKinds /\ ~Compete(kind, "write")
  BY CompeteLemma DEF RecordInv, OpKinds
<1>2. t \in ImplType /\ SameConnection(s, t) /\ SameQueue(s, t)
  BY <1>1, StartType, StartFields
<1>3. IoInv(t) /\ (Free(s, "write") => Free(t, "write"))
  BY <1>1, StartIo DEF RecordInv
<1> HIDE DEF t
<1>4. QED
  BY <1>2, <1>3 DEF RecordInv, WriterInv, StateInv, SameConnection, SameQueue, t

\* The next read, started when the chain has nothing outstanding.
LEMMA ReadInv ==
    ASSUME NEW s, RecordInv(s), NEW gen, gen = s.generation => Free(s, "readLength")
    PROVE  /\ RecordInv(ReadOneLengthByte(s, gen))
           /\ ReadOneLengthByte(s, gen).shuttingDown = s.shuttingDown
           /\ RecordInv(BeginReadLength(s, gen))
           /\ BeginReadLength(s, gen).shuttingDown = s.shuttingDown
<1> DEFINE z == [s EXCEPT !.readShift = 0]
<1>1. ASSUME NEW t, RecordInv(t), gen = t.generation => Free(t, "readLength")
      PROVE  /\ RecordInv(ReadOneLengthByte(t, gen))
             /\ ReadOneLengthByte(t, gen).shuttingDown = t.shuttingDown
  BY <1>1, ChainStartInv DEF ReadOneLengthByte, ChainKinds
<1>2. z \in ImplType /\ SameConnection(s, z) /\ SameOps(s, z) /\ SameQueue(s, z)
  BY DEF RecordInv, ImplType, SameConnection, SameOps, SameQueue
<1> HIDE DEF z
<1>3. RecordInv(z)
  BY <1>2, UnseenFields
<1>4. gen = z.generation => Free(z, "readLength")
  BY <1>2 DEF SameConnection, SameOps, Free, Occupies
<1>5. QED
  BY <1>1, <1>2, <1>3, <1>4 DEF BeginReadLength, SameConnection, z

\* beginWrite, called when no write of the present stream is outstanding;
\* writeQueue_ may have just run empty.
LEMMA BeginWriteInv ==
    ASSUME NEW s \in ImplType, IoInv(s), StateInv(s), Free(s, "write")
    PROVE  LET t == BeginWrite(s)
           IN  /\ RecordInv(t) /\ SameConnection(s, t)
               /\ \A k \in ChainKinds : Free(s, k) => Free(t, k)
<1> DEFINE f == [s EXCEPT !.writeInProgress = FALSE]
           b == [s EXCEPT !.writeInProgress = TRUE, !.sent = Append(@, Head(s.writeQueue))]
           t == Start(b, "write")
<1>1. /\ f \in ImplType /\ SameConnection(s, f) /\ SameOps(s, f) /\ f.writeInProgress = FALSE
      /\ f.writeQueue = s.writeQueue
  BY DEF ImplType, SameConnection, SameOps
<1>2. RecordInv(f) /\ \A k \in OpKinds : Free(s, k) => Free(f, k)
  <2> HIDE DEF f
  <2>1. IoInv(f) /\ StateInv(f) /\ \A k \in OpKinds : Free(s, k) => Free(f, k)
    BY <1>1, FrameLemma
  <2>2. QED
    BY <1>1, <2>1 DEF RecordInv, WriterInv, OpKinds
<1>3. CASE s.stream # "null" /\ s.writeQueue # <<>>
  <2>1. b \in ImplType
    <3> DEFINE q == Append(s.sent, Head(s.writeQueue))
    <3>1. s.sent \in MessageSeqs /\ s.writeQueue \in MessageSeqs
      BY DEF ImplType
    <3>2. q \in MessageSeqs
      BY <3>1, <1>3 DEF MessageSeqs
    <3>3. b = [s EXCEPT !.writeInProgress = TRUE, !.sent = q]
      BY DEF ImplType
    <3> HIDE DEF q, b
    <3>4. QED
      BY <3>2, <3>3 DEF ImplType
  <2>2. /\ SameConnection(s, b) /\ SameOps(s, b) /\ b.writeInProgress = TRUE
        /\ b.writeQueue = s.writeQueue
    BY DEF ImplType, SameConnection, SameOps
  <2> HIDE DEF b
  <2>3. IoInv(b) /\ StateInv(b) /\ \A k \in OpKinds : Free(s, k) => Free(b, k)
    BY <2>1, <2>2, FrameLemma
  <2>4. "write" \in OpKinds /\ \A k \in ChainKinds : k \in OpKinds /\ ~Compete("write", k)
    BY DEF OpKinds, ChainKinds, Compete
  <2>5. t \in ImplType /\ SameConnection(b, t) /\ SameQueue(b, t)
    BY <2>1, <2>4, StartType, StartFields
  <2>6. IoInv(t) /\ \A k \in ChainKinds : Free(b, k) => Free(t, k)
    BY <1>3, <2>1, <2>2, <2>3, <2>4, StartIo DEF SameConnection
  <2> HIDE DEF t
  <2>7. RecordInv(t) /\ SameConnection(s, t)
    BY <1>3, <2>2, <2>3, <2>5, <2>6
    DEF RecordInv, WriterInv, StateInv, SameConnection, SameQueue
  <2>8. QED
    BY <1>3, <2>3, <2>4, <2>6, <2>7 DEF BeginWrite, b, t
<1>4. CASE ~(s.stream # "null" /\ s.writeQueue # <<>>)
  BY <1>1, <1>2, <1>4 DEF BeginWrite, OpKinds
<1>5. QED
  BY <1>3, <1>4

\* From s to t, the stream goes on: nothing was started in its chain.
Continues(s, t) ==
    /\ RecordInv(t)
    /\ t.generation = s.generation /\ t.shuttingDown = s.shuttingDown
    /\ \A k \in ChainKinds : Free(s, k) => Free(t, k)

\* One continuation after another.
LEMMA ContinuesTransitive ==
    ASSUME NEW s, NEW t, NEW u, Continues(s, t), Continues(t, u)
    PROVE  Continues(s, u)
BY DEF Continues

\* A change of fields that the invariant does not mention.
LEMMA UnseenContinues ==
    ASSUME NEW s, NEW t \in ImplType, RecordInv(s),
           SameConnection(s, t), SameOps(s, t), SameQueue(s, t)
    PROVE  Continues(s, t)
<1>1. RecordInv(t) /\ \A k \in OpKinds : Free(s, k) => Free(t, k)
  BY UnseenFields, FrameLemma DEF RecordInv
<1>2. QED
  BY <1>1 DEF Continues, SameConnection, OpKinds

\* Setting or cancelling a timer continues the stream.
LEMMA TimersContinue ==
    ASSUME NEW s, RecordInv(s), NEW timer \in TimerKinds
    PROVE  /\ Continues(s, SetTimer(s, timer))
           /\ Continues(s, CancelTimer(s, timer))
<1>1. s \in ImplType /\ IoInv(s)
  BY DEF RecordInv
<1>2. Continues(s, SetTimer(s, timer))
  BY <1>1, SetTimerIo DEF Continues, SameConnection, OpKinds
<1>3. Continues(s, CancelTimer(s, timer))
  BY <1>1, CancelTimerIo DEF Continues, SameConnection, OpKinds
<1>4. QED
  BY <1>2, <1>3

\* Queueing messages keeps the invariant and starts at most one write.
LEMMA QueueMessagesInv ==
    ASSUME NEW s, RecordInv(s), NEW ms \in MessageSeqs
    PROVE  Continues(s, QueueMessages(s, ms))
<1> DEFINE r == ResetIdleTimer(s)
           q == [r EXCEPT !.writeQueue = @ \o ms, !.accepted = @ \o ms]
<1>1. Continues(s, r) /\ Continues(s, s)
  BY TimersContinue DEF ResetIdleTimer, TimerKinds, Continues
<1>2. r \in ImplType /\ RecordInv(r)
  BY <1>1 DEF Continues, RecordInv
<1> HIDE DEF r
<1>3. r.writeQueue \in MessageSeqs /\ r.accepted \in MessageSeqs
  BY <1>2 DEF ImplType
<1>4. /\ r.writeQueue \o ms \in MessageSeqs /\ r.accepted \o ms \in MessageSeqs
      /\ r.writeQueue # <<>> => r.writeQueue \o ms # <<>>
  BY <1>3 DEF MessageSeqs
<1>5. q \in ImplType
  BY <1>2, <1>4 DEF ImplType
<1>6. /\ SameConnection(r, q) /\ SameOps(r, q) /\ q.writeInProgress = r.writeInProgress
      /\ q.writeQueue = r.writeQueue \o ms
  BY <1>2 DEF ImplType, SameConnection, SameOps
<1> HIDE DEF q
<1>7. IoInv(q) /\ StateInv(q) /\ \A k \in OpKinds : Free(r, k) => Free(q, k)
  BY <1>2, <1>5, <1>6, FrameLemma DEF RecordInv
<1>8. CASE q.writeInProgress
  <2>1. RecordInv(q)
    BY <1>2, <1>4, <1>5, <1>6, <1>7, <1>8 DEF RecordInv, WriterInv
  <2>2. Continues(r, q)
    BY <1>6, <1>7, <2>1 DEF Continues, SameConnection, OpKinds
  <2>3. QED
    BY <1>1, <1>8, <2>2, ContinuesTransitive DEF QueueMessages, q, r
<1>9. CASE ~q.writeInProgress
  <2>1. Free(q, "write")
    BY <1>2, <1>6, <1>7, <1>9 DEF RecordInv, WriterInv, OpKinds
  <2>2. Continues(r, BeginWrite(q))
    BY <1>5, <1>6, <1>7, <2>1, BeginWriteInv DEF Continues, SameConnection, OpKinds
  <2>3. QED
    BY <1>1, <1>9, <2>2, ContinuesTransitive DEF QueueMessages, q, r
<1>10. QED
  BY <1>8, <1>9

\* queueMessage keeps the invariant.
LEMMA QueueMessageInv ==
    ASSUME NEW s, RecordInv(s), NEW m \in Messages
    PROVE  Continues(s, QueueMessage(s, m))
<1>1. <<m>> \in MessageSeqs
  BY DEF MessageSeqs
<1>2. QED
  BY <1>1, QueueMessagesInv DEF QueueMessage

\* Handling a message of a live stream.
LEMMA HandleMessageInv ==
    ASSUME NEW s, RecordInv(s), NEW m \in TvMessageType, s.stream # "null"
    PROVE  Continues(s, HandleMessage(s, m))
<1>1. /\ s \in ImplType
      /\ m.kind \in TvKinds /\ m.word \in Words /\ m.features \in SUBSET Features
  BY DEF TvMessageType, RecordInv
<1>2. Continues(s, s)
  BY DEF Continues
<1>3. ASSUME NEW f \in MirrorFields
      PROVE  LET t == Mirror(s, f, m.word)
             IN  /\ t \in ImplType /\ Continues(s, t) /\ SameConnection(s, t)
                 /\ SameOps(s, t) /\ SameQueue(s, t)
  <2>1. Mirror(s, f, m.word) \in ImplType
    BY <1>1, MirrorType
  <2>2. /\ SameConnection(s, Mirror(s, f, m.word))
        /\ SameOps(s, Mirror(s, f, m.word)) /\ SameQueue(s, Mirror(s, f, m.word))
    BY <1>1 DEF Mirror, ImplType, SameConnection, SameOps, SameQueue
  <2>3. QED
    BY <2>1, <2>2, UnseenContinues
<1>4. Continues(s, Configure(s, m))
  <2> DEFINE active == s.activeFeatures \cap m.features
             r == Mirror(s, "device", m.word)
             v == "voice" \in active
             u == [r EXCEPT !.activeFeatures = active]
             t == [r EXCEPT !.activeFeatures = active, !.voiceEnabled = v]
             a == [Message("ConfigureResponse", 0) EXCEPT !.features = active]
  <2>1. active \in SUBSET Features /\ v \in BOOLEAN
    BY <1>1
  <2>2. r \in ImplType /\ Continues(s, r)
    BY <1>3 DEF MirrorFields
  <2>3. a \in Messages
    BY <2>1, MessageType, DataAssumption DEF MessageKinds
  <2> HIDE DEF active, r, v
  <2>4. u \in ImplType
    BY <2>1, <2>2 DEF ImplType
  <2>5. t = [u EXCEPT !.voiceEnabled = v]
    BY <2>2 DEF ImplType
  <2>6. SameConnection(r, t) /\ SameOps(r, t) /\ SameQueue(r, t)
    BY <2>2 DEF ImplType, SameConnection, SameOps, SameQueue
  <2> HIDE DEF u
  <2>7. [u EXCEPT !.voiceEnabled = v] \in ImplType
    BY <2>1, <2>4 DEF ImplType
  <2> HIDE DEF t, a
  <2>8. Continues(r, t) /\ RecordInv(t)
    BY <2>2, <2>5, <2>6, <2>7, UnseenContinues DEF Continues
  <2>9. Continues(t, QueueMessage(t, a))
    BY <2>3, <2>8, QueueMessageInv
  <2>10. QED
    BY <2>2, <2>8, <2>9, ContinuesTransitive DEF Configure, active, r, v, t, a
<1>5. Continues(s, VoiceBegun(s, m.word))
  <2> DEFINE r == CancelTimer(s, "voiceTimer")
             t == [r EXCEPT !.voiceStarting = FALSE, !.voiceSessionId = m.word]
  <2>1. Continues(s, r)
    BY TimersContinue DEF TimerKinds
  <2>2. r \in ImplType /\ RecordInv(r) /\ m.word \in Sessions
    BY <1>1, <2>1 DEF Continues, RecordInv, Sessions
  <2> HIDE DEF r
  <2>3. t \in ImplType
    BY <2>2 DEF ImplType
  <2>4. SameConnection(r, t) /\ SameOps(r, t) /\ SameQueue(r, t)
    BY <2>2 DEF ImplType, SameConnection, SameOps, SameQueue
  <2>5. Message("VoiceBegin", m.word) \in Messages
    BY <1>1, MessageType DEF MessageKinds
  <2> HIDE DEF t
  <2>6. Continues(r, t) /\ RecordInv(t)
    BY <2>2, <2>3, <2>4, UnseenContinues DEF Continues
  <2>7. Continues(t, QueueMessage(t, Message("VoiceBegin", m.word)))
    BY <2>5, <2>6, QueueMessageInv
  <2>8. QED
    BY <1>2, <2>1, <2>6, <2>7, ContinuesTransitive DEF VoiceBegun, r, t
<1>6. Continues(s, QueueMessage(s, [Message("SetActiveResponse", 0)
                                    EXCEPT !.features = s.activeFeatures]))
  <2>1. s.activeFeatures \in SUBSET Features
    BY <1>1 DEF ImplType
  <2>2. [Message("SetActiveResponse", 0) EXCEPT !.features = s.activeFeatures] \in Messages
    BY <2>1, MessageType, DataAssumption DEF MessageKinds
  <2>3. QED
    BY <2>2, QueueMessageInv
<1>7. Continues(s, QueueMessage(s, Message("PingResponse", m.word)))
  BY <1>1, MessageType, QueueMessageInv DEF MessageKinds
<1>8. Continues(s, EmitAvailability(SetState(Mirror(s, "power", m.word), "Connected"), TRUE))
  <2> DEFINE r == Mirror(s, "power", m.word)
             c == SetState(r, "Connected")
             e == EmitAvailability(c, TRUE)
  <2>1. r \in ImplType /\ Continues(s, r) /\ SameConnection(s, r)
    BY <1>3 DEF MirrorFields
  <2> HIDE DEF r
  <2>2. /\ c \in ImplType /\ SameOps(r, c) /\ SameQueue(r, c) /\ c.state = "Connected"
        /\ c.generation = r.generation /\ c.stream = r.stream
        /\ c.userDisconnect = r.userDisconnect /\ c.shuttingDown = r.shuttingDown
    BY <2>1 DEF SetState, ImplType, States, SameOps, SameQueue
  <2> HIDE DEF c
  <2>3. IoInv(c) /\ WriterInv(c) /\ \A k \in ChainKinds : Free(r, k) => Free(c, k)
    BY <2>1, <2>2 DEF Continues, RecordInv, IoInv, WriterInv, Bounded, Unique, Rivals,
                      Free, Occupies, SameOps, SameQueue
  <2>4. StateInv(c)
    BY <2>1, <2>2 DEF RecordInv, StateInv, SameConnection
  <2>5. Continues(r, c) /\ RecordInv(c)
    BY <2>2, <2>3, <2>4 DEF Continues, RecordInv
  <2>6. Continues(c, e)
    BY <2>2, <2>5, EmitAvailabilityInv, UnseenContinues
  <2>7. QED
    BY <2>1, <2>5, <2>6, ContinuesTransitive DEF r, c, e
<1>9. QED
  BY <1>1, <1>2, <1>3, <1>4, <1>5, <1>6, <1>7, <1>8 DEF HandleMessage, TvKinds, MirrorFields

-----------------------------------------------------------------------------
(* The completion handlers. *)

\* t is a record that a handler or a lambda may leave behind.
Good(s, t) == RecordInv(t) /\ t.shuttingDown = s.shuttingDown

\* c has just been taken out of the queue: if it is of the present stream, then
\* that stream exists and has no other operation in that direction.
Served(s, c) ==
    c.op.gen = s.generation /\ c.op.kind \notin TimerKinds =>
        /\ s.stream # "null"
        /\ \A k \in OpKinds : Compete(c.op.kind, k) => Free(s, k)
        /\ c.op.kind = "write" => s.writeInProgress

\* Taking the first handler out of the queue frees its direction of the stream.
LEMMA TakenInv ==
    ASSUME NEW s, RecordInv(s), s.ready # <<>>
    PROVE  LET t == [s EXCEPT !.ready = Tail(@)]
               c == Head(s.ready)
           IN  Good(s, t) /\ c \in Completions /\ Served(t, c)
<1> DEFINE q == Tail(s.ready)
           t == [s EXCEPT !.ready = Tail(@)]
           c == Head(s.ready)
<1>1. s \in ImplType /\ IoInv(s) /\ WriterInv(s) /\ StateInv(s)
  BY DEF RecordInv
<1>2. s.ready \in CompletionSeqs
  BY <1>1, FieldTypes
<1>3. /\ q \in CompletionSeqs /\ c \in Completions
      /\ 1 \in DOMAIN s.ready /\ c = s.ready[1]
      /\ \A i \in DOMAIN q : i + 1 \in DOMAIN s.ready /\ i + 1 # 1 /\ q[i] = s.ready[i + 1]
      /\ DOMAIN q \subseteq Nat
  BY <1>2 DEF CompletionSeqs
<1>4. t = [s EXCEPT !.ready = q]
  BY <1>1 DEF ImplType
<1> HIDE DEF q, c, t
<1>5. t \in ImplType
  BY <1>1, <1>3, <1>4 DEF ImplType
<1>6. /\ SameConnection(s, t) /\ SameQueue(s, t) /\ t.misuse = s.misuse
      /\ t.pending = s.pending /\ t.ready = q
  BY <1>1, <1>4 DEF ImplType, SameConnection, SameQueue
<1>7. \A k \in OpKinds : Free(s, k) => Free(t, k)
  BY <1>3, <1>6 DEF Free, Occupies, SameConnection
<1>8. IoInv(t)
  <2>1. Bounded(t)
    BY <1>1, <1>3, <1>6 DEF IoInv, Bounded, SameConnection
  <2>2. Unique(t)
    <3>1. \A i, j \in DOMAIN q : i + 1 = j + 1 => i = j
      BY <1>3
    <3>2. QED
      BY <1>1, <1>3, <1>6, <3>1 DEF IoInv, Unique, Rivals, SameConnection
  <2>3. QED
    BY <1>1, <1>6, <1>7, <2>1, <2>2 DEF IoInv, SameConnection
<1>9. Good(s, t)
  BY <1>1, <1>5, <1>6, <1>7, <1>8
  DEF Good, RecordInv, WriterInv, StateInv, SameConnection, SameQueue, OpKinds
<1>10. ASSUME c.op.gen = t.generation, c.op.kind \notin TimerKinds
       PROVE  /\ t.stream # "null"
              /\ \A k \in OpKinds : Compete(c.op.kind, k) => Free(t, k)
              /\ c.op.kind = "write" => t.writeInProgress
  <2>1. c.op.gen = s.generation /\ c.op.kind \in OpKinds
    BY <1>1, <1>3, <1>6, <1>10, FieldTypes DEF SameConnection
  <2>2. ASSUME NEW k \in OpKinds, Compete(c.op.kind, k)
        PROVE  Free(t, k)
    <3>1. ASSUME NEW o, o.kind \in OpKinds, Compete(o.kind, k)
          PROVE  Compete(c.op.kind, o.kind) /\ Compete(o.kind, c.op.kind)
      BY <2>1, <2>2, <3>1 DEF Compete, ChainKinds
    <3>2. \A o \in t.pending : ~Occupies(t, o, k)
      <4>1. SUFFICES ASSUME NEW o \in t.pending, Occupies(t, o, k) PROVE FALSE
        OBVIOUS
      <4>2. o \in s.pending /\ o.kind \in OpKinds /\ o.gen = s.generation /\ Compete(o.kind, k)
        BY <1>1, <1>6, <4>1, FieldTypes DEF Occupies, SameConnection
      <4>3. Rivals(s, o, s.ready[1].op)
        BY <1>3, <2>1, <3>1, <4>2 DEF Rivals
      <4>4. QED
        BY <1>1, <1>3, <4>2, <4>3 DEF IoInv, Unique
    <3>3. \A i \in DOMAIN t.ready : ~Occupies(t, t.ready[i].op, k)
      <4>1. SUFFICES ASSUME NEW i \in DOMAIN q, Occupies(t, q[i].op, k) PROVE FALSE
        BY <1>6
      <4>2. /\ i + 1 \in DOMAIN s.ready /\ q[i] = s.ready[i + 1]
            /\ q[i].op.kind \in OpKinds /\ q[i].op.gen = s.generation
            /\ Compete(q[i].op.kind, k)
        BY <1>1, <1>3, <1>6, <4>1, FieldTypes DEF Occupies, SameConnection
      <4>3. Rivals(s, s.ready[i + 1].op, s.ready[1].op)
        BY <1>3, <2>1, <3>1, <4>2 DEF Rivals
      <4>4. i + 1 # 1
        BY <1>3
      <4>5. QED
        BY <1>1, <1>3, <4>2, <4>3, <4>4 DEF IoInv, Unique
    <3>4. QED
      BY <3>2, <3>3 DEF Free
  <2>3. Compete(c.op.kind, c.op.kind)
    BY <1>10, <2>1 DEF Compete, OpKinds
  <2>4. ~Free(s, c.op.kind)
    BY <1>3, <2>1, <2>3 DEF Free, Occupies
  <2>5. t.stream # "null"
    BY <1>1, <1>6, <2>1, <2>4 DEF IoInv, SameConnection
  <2>6. c.op.kind = "write" => t.writeInProgress
    BY <1>1, <1>6, <2>4 DEF WriterInv, SameQueue
  <2>7. QED
    BY <2>2, <2>5, <2>6
<1>11. QED
  BY <1>3, <1>9, <1>10 DEF Served, c, t

\* The handlers of one attempt, up to the first read.
LEMMA AttemptHandlersInv ==
    ASSUME NEW s, RecordInv(s), NEW c \in Completions, Served(s, c)
    PROVE  /\ c.op.kind = "resolve"   => Good(s, ResolveDone(s, c))
           /\ c.op.kind = "connect"   => Good(s, ConnectDone(s, c))
           /\ c.op.kind = "handshake" => Good(s, HandshakeDone(s, c))
<1>1. s \in ImplType /\ Good(s, s)
  BY DEF RecordInv, Good
<1>2. /\ Good(s, ConnectionFailed(s, c.op.gen))
      /\ Good(s, AuthenticationFailed(s, c.op.gen))
  BY ConnectionFailedInv, AuthenticationFailedInv DEF Good
<1>3. ASSUME c.op.kind \in ChainKinds, c.op.gen = s.generation
      PROVE  s.stream # "null" /\ \A k \in ChainKinds : Free(s, k)
  BY <1>3 DEF Served, Compete, ChainKinds, TimerKinds, OpKinds
<1>4. ASSUME c.op.kind = "resolve" PROVE Good(s, ResolveDone(s, c))
  BY <1>1, <1>2, <1>3, <1>4, ChainStartInv DEF ResolveDone, Good, ChainKinds
<1>5. ASSUME c.op.kind = "connect" PROVE Good(s, ConnectDone(s, c))
  <2> DEFINE t == [s EXCEPT !.stream = "handshaking"]
  <2>1. CASE c.op.gen = s.generation
    <3>1. /\ t \in ImplType /\ SameOps(s, t) /\ SameQueue(s, t) /\ t.stream = "handshaking"
          /\ t.generation = s.generation /\ t.state = s.state
          /\ t.userDisconnect = s.userDisconnect /\ t.shuttingDown = s.shuttingDown
      BY <1>1 DEF ImplType, SameOps, SameQueue
    <3> HIDE DEF t
    <3>2. s.stream # "null" /\ Free(s, "handshake")
      BY <1>3, <1>5, <2>1 DEF ChainKinds
    <3>3. IoInv(t) /\ WriterInv(t) /\ Free(t, "handshake")
      BY <3>1, <3>2 DEF RecordInv, IoInv, WriterInv, Bounded, Unique, Rivals, Free, Occupies,
                        SameOps, SameQueue
    <3>4. RecordInv(t)
      BY <3>1, <3>2, <3>3 DEF RecordInv, StateInv
    <3>5. Good(s, Start(t, "handshake"))
      BY <3>1, <3>3, <3>4, ChainStartInv DEF ChainKinds, Good
    <3>6. QED
      BY <1>2, <2>1, <3>5 DEF ConnectDone, t
  <2>2. QED
    BY <1>1, <2>1 DEF ConnectDone
<1>6. ASSUME c.op.kind = "handshake" PROVE Good(s, HandshakeDone(s, c))
  <2> DEFINE t == [s EXCEPT !.stream = "secure", !.reconnectDelay = MinDelay]
             r == BeginReadLength(t, c.op.gen)
  <2>1. CASE c.op.gen = s.generation
    <3>1. MinDelay \in Delays
      BY LimitAssumption DEF Delays
    <3>2. /\ t \in ImplType /\ SameOps(s, t) /\ SameQueue(s, t) /\ t.stream = "secure"
          /\ t.generation = s.generation /\ t.state = s.state
          /\ t.userDisconnect = s.userDisconnect /\ t.shuttingDown = s.shuttingDown
      BY <1>1, <3>1 DEF ImplType, SameOps, SameQueue
    <3> HIDE DEF t
    <3>3. s.stream # "null" /\ Free(s, "readLength")
      BY <1>3, <1>6, <2>1 DEF ChainKinds
    <3>4. IoInv(t) /\ WriterInv(t) /\ Free(t, "readLength")
      BY <3>2, <3>3 DEF RecordInv, IoInv, WriterInv, Bounded, Unique, Rivals, Free, Occupies,
                        SameOps, SameQueue
    <3>5. RecordInv(t)
      BY <3>2, <3>3, <3>4 DEF RecordInv, StateInv
    <3>6. Good(s, r)
      BY <3>2, <3>4, <3>5, ReadInv DEF Good
    <3> HIDE DEF r
    <3>7. Good(s, ResetIdleTimer(r))
      BY <3>6, TimersContinue DEF ResetIdleTimer, Continues, Good, TimerKinds
    <3>8. QED
      BY <1>2, <2>1, <3>7 DEF HandshakeDone, r, t
  <2>2. QED
    BY <1>1, <2>1 DEF HandshakeDone
<1>7. QED
  BY <1>4, <1>5, <1>6

\* The two handlers of a frame.
LEMMA ReadHandlersInv ==
    ASSUME NEW s, RecordInv(s), NEW c \in Completions, Served(s, c)
    PROVE  /\ c.op.kind = "readLength" =>
                 \A byte \in LengthBytes : Good(s, LengthByteDone(s, c, byte))
           /\ c.op.kind = "readBody" =>
                 \A m \in TvMessageType : Good(s, BodyDone(s, c, m))
<1>1. s \in ImplType /\ Good(s, s)
  BY DEF RecordInv, Good
<1>2. /\ Good(s, ConnectionFailed(s, c.op.gen))
      /\ Good(s, HandleConnectionLoss(s, c.op.gen))
  BY ConnectionFailedInv, HandleConnectionLossInv DEF Good
<1>3. ASSUME c.op.kind \in ChainKinds, c.op.gen = s.generation
      PROVE  s.stream # "null" /\ \A k \in ChainKinds : Free(s, k)
  BY <1>3 DEF Served, Compete, ChainKinds, TimerKinds, OpKinds
<1>4. ASSUME NEW t, Continues(s, t), Free(s, "readLength")
      PROVE  Good(s, BeginReadLength(t, c.op.gen))
  <2>1. RecordInv(t) /\ Free(t, "readLength") /\ t.shuttingDown = s.shuttingDown
    BY <1>4 DEF Continues, ChainKinds
  <2>2. QED
    BY <2>1, ReadInv DEF Good
<1>5. ASSUME c.op.kind = "readLength", NEW byte \in LengthBytes
      PROVE  Good(s, LengthByteDone(s, c, byte))
  <2> DEFINE t == [s EXCEPT !.readShift = @ + 7]
  <2>1. CASE c.op.gen = s.generation
    <3>1. s.stream # "null" /\ Free(s, "readLength") /\ Free(s, "readBody")
      BY <1>3, <1>5, <2>1 DEF ChainKinds
    <3>2. t \in ImplType /\ SameConnection(s, t) /\ SameOps(s, t) /\ SameQueue(s, t)
      BY <1>1 DEF ImplType, SameConnection, SameOps, SameQueue
    <3> HIDE DEF t
    <3>3. RecordInv(t) /\ Free(t, "readLength") /\ t.shuttingDown = s.shuttingDown
      BY <3>1, <3>2, UnseenContinues DEF Continues, ChainKinds
    <3>4. Good(s, HandleConnectionLoss(t, c.op.gen)) /\ Good(s, ReadOneLengthByte(t, c.op.gen))
      BY <3>3, HandleConnectionLossInv, ReadInv DEF Good
    <3>5. Good(s, EmptyFrameDone(s, c.op.gen))
      <4>1. EmptyFrame \in TvMessageType
        BY DataAssumption DEF EmptyFrame, TvMessageType, TvKinds
      <4>2. QED
        BY <1>4, <3>1, <4>1, HandleMessageInv DEF EmptyFrameDone
    <3>6. Good(s, Start(s, "readBody"))
      BY <3>1, ChainStartInv DEF ChainKinds, Good
    <3>7. QED
      BY <1>2, <2>1, <3>4, <3>5, <3>6 DEF LengthByteDone, LengthBytes, t
  <2>2. QED
    BY <1>1, <2>1 DEF LengthByteDone
<1>6. ASSUME c.op.kind = "readBody", NEW m \in TvMessageType
      PROVE  Good(s, BodyDone(s, c, m))
  <2> DEFINE r == ResetIdleTimer(s)
             h == HandleMessage(r, m)
  <2>1. CASE c.op.gen = s.generation
    <3>1. s.stream # "null" /\ Free(s, "readLength")
      BY <1>3, <1>6, <2>1 DEF ChainKinds
    <3>2. Continues(s, r) /\ r.stream = s.stream
      BY <1>1, TimersContinue, SetTimerIo DEF ResetIdleTimer, TimerKinds, SameConnection
    <3> HIDE DEF r
    <3>3. Continues(r, h)
      BY <3>1, <3>2, HandleMessageInv DEF Continues
    <3> HIDE DEF h
    <3>4. Good(s, BeginReadLength(h, c.op.gen))
      BY <1>4, <3>1, <3>2, <3>3, ContinuesTransitive
    <3>5. QED
      BY <1>2, <2>1, <3>4 DEF BodyDone, r, h
  <2>2. QED
    BY <1>1, <2>1 DEF BodyDone
<1>7. QED
  BY <1>5, <1>6

\* The write handler pops a queue that has a front and starts the next write
\* only then.
LEMMA WriteHandlerInv ==
    ASSUME NEW s, RecordInv(s), NEW c \in Completions, Served(s, c), c.op.kind = "write"
    PROVE  Good(s, WriteDone(s, c))
<1>1. s \in ImplType /\ Good(s, s)
  BY DEF RecordInv, Good
<1>2. CASE c.op.gen = s.generation
  <2> DEFINE f == [s EXCEPT !.writeInProgress = FALSE]
             q == Tail(s.writeQueue)
             t == [s EXCEPT !.writeQueue = q]
  <2>1. Free(s, "write") /\ s.writeInProgress
    BY <1>2 DEF Served, Compete, OpKinds, TimerKinds
  <2>2. /\ f \in ImplType /\ SameConnection(s, f) /\ SameOps(s, f) /\ f.writeInProgress = FALSE
    BY <1>1 DEF ImplType, SameConnection, SameOps
  <2> HIDE DEF f
  <2>3. RecordInv(f)
    <3>1. IoInv(f) /\ StateInv(f) /\ Free(f, "write")
      BY <1>1, <2>1, <2>2, FrameLemma DEF RecordInv, OpKinds
    <3>2. QED
      BY <2>2, <3>1 DEF RecordInv, WriterInv
  <2>4. Good(s, ConnectionFailed(f, c.op.gen))
    BY <2>2, <2>3, ConnectionFailedInv DEF Good, SameConnection
  <2>5. s.writeQueue \in MessageSeqs /\ s.writeQueue # <<>>
    BY <1>1, <2>1 DEF ImplType, RecordInv, WriterInv
  <2>6. q \in MessageSeqs
    BY <2>5 DEF MessageSeqs
  <2> HIDE DEF q
  <2>7. t \in ImplType /\ SameConnection(s, t) /\ SameOps(s, t)
    BY <1>1, <2>6 DEF ImplType, SameConnection, SameOps
  <2> HIDE DEF t
  <2>8. IoInv(t) /\ StateInv(t) /\ Free(t, "write")
    BY <1>1, <2>1, <2>7, FrameLemma DEF RecordInv, OpKinds
  <2>9. Good(s, BeginWrite(t))
    BY <2>7, <2>8, BeginWriteInv DEF Good, SameConnection
  <2>10. t = [s EXCEPT !.writeQueue = Tail(@)]
    BY <1>1 DEF ImplType, t, q
  <2>11. QED
    BY <1>2, <2>4, <2>9, <2>10 DEF WriteDone, f
<1>3. QED
  BY <1>1, <1>2 DEF WriteDone

\* The timers' handlers keep the invariant whenever they run.
LEMMA TimerHandlersInv ==
    ASSUME NEW s, RecordInv(s), NEW c \in Completions
    PROVE  /\ \A loadable \in BOOLEAN : Good(s, ReconnectTimerDone(s, loadable))
           /\ Good(s, IdleTimerDone(s, c))
           /\ Good(s, VoiceTimerDone(s))
<1>1. s \in ImplType /\ Good(s, s) /\ Bounded(s) /\ ~s.misuse
  BY DEF RecordInv, Good, IoInv
<1>2. \A loadable \in BOOLEAN : Good(s, ReconnectTimerDone(s, loadable))
  BY <1>1, BeginConnectInv DEF ReconnectTimerDone, Good
<1>3. Good(s, IdleTimerDone(s, c))
  BY <1>1, HandleConnectionLossInv DEF IdleTimerDone, Good
<1>4. Good(s, VoiceTimerDone(s))
  <2> DEFINE t == VoiceTimerDone(s)
  <2>1. t \in ImplType /\ SameConnection(s, t) /\ SameOps(s, t) /\ SameQueue(s, t)
    BY <1>1 DEF VoiceTimerDone, ImplType, SameConnection, SameOps, SameQueue
  <2> HIDE DEF t
  <2>2. Good(s, t)
    BY <2>1, UnseenFields DEF Good, SameConnection
  <2>3. QED
    BY <2>2 DEF t
<1>5. QED
  BY <1>2, <1>3, <1>4

-----------------------------------------------------------------------------
(* The environment and the lambdas of the application. *)

\* An operation completes: it moves from pending to the end of the queue.
LEMMA CompletesInv ==
    ASSUME NEW s, RecordInv(s), NEW op \in s.pending, NEW result \in Results
    PROVE  Good(s, [s EXCEPT !.pending = @ \ {op},
                             !.ready = Append(@, [op |-> op, result |-> result])])
<1> DEFINE c == [op |-> op, result |-> result]
           q == Append(s.ready, c)
           P == s.pending \ {op}
           n == Len(s.ready) + 1
           t == [s EXCEPT !.pending = P, !.ready = q]
<1>1. s \in ImplType /\ IoInv(s) /\ WriterInv(s) /\ StateInv(s)
  BY DEF RecordInv
<1>2. s.ready \in CompletionSeqs /\ s.pending \subseteq Ops
  BY <1>1, FieldTypes
<1>3. c \in Completions /\ c.op = op
  BY <1>2 DEF Completions
<1> HIDE DEF c
<1>4. /\ q \in CompletionSeqs
      /\ DOMAIN q = DOMAIN s.ready \cup {n} /\ n \notin DOMAIN s.ready /\ q[n].op = op
      /\ \A i \in DOMAIN s.ready : q[i] = s.ready[i]
  BY <1>2, <1>3, ReadyLemma
<1>5. P \in SUBSET Ops
  BY <1>2
<1> HIDE DEF q, n, P
<1>6. t \in ImplType
  BY <1>1, <1>4, <1>5 DEF ImplType
<1>7. /\ SameConnection(s, t) /\ SameQueue(s, t) /\ t.misuse = s.misuse
      /\ t.pending = P /\ t.ready = q
  BY <1>1 DEF ImplType, SameConnection, SameQueue
<1> HIDE DEF t
<1>8. \A k \in OpKinds : Free(s, k) => Free(t, k)
  BY <1>4, <1>7 DEF Free, Occupies, SameConnection, P
<1>9. Bounded(t)
  BY <1>1, <1>4, <1>7 DEF IoInv, Bounded, SameConnection, P
<1>10. Unique(t)
  <2>1. \A o \in P : o \in s.pending /\ o # op
    BY DEF P
  <2>2. \A o \in P : ~Rivals(s, o, op)
    BY <1>1, <2>1 DEF IoInv, Unique
  <2>3. \A i \in DOMAIN s.ready : ~Rivals(s, op, s.ready[i].op) /\ ~Rivals(s, s.ready[i].op, op)
    BY <1>1, <1>2, FieldTypes, CompeteLemma DEF IoInv, Unique, Rivals
  <2>4. QED
    BY <1>1, <1>4, <1>7, <2>1, <2>2, <2>3 DEF IoInv, Unique, Rivals, SameConnection
<1>11. Good(s, t)
  BY <1>1, <1>6, <1>7, <1>8, <1>9, <1>10
  DEF Good, RecordInv, IoInv, WriterInv, StateInv, SameConnection, SameQueue, OpKinds
<1>12. [s EXCEPT !.pending = @ \ {op}, !.ready = Append(@, [op |-> op, result |-> result])] = t
  BY <1>1 DEF ImplType, t, P, q, c
<1>13. QED
  BY <1>11, <1>12

\* Cancelling all three timers keeps the invariant.
LEMMA CancelTimersInv ==
    ASSUME NEW s \in ImplType, IoInv(s)
    PROVE  /\ CancelTimers(s) \in ImplType /\ IoInv(CancelTimers(s))
           /\ SameConnection(s, CancelTimers(s)) /\ SameQueue(s, CancelTimers(s))
           /\ RecordInv(s) => RecordInv(CancelTimers(s))
<1> DEFINE a == CancelTimer(s, "reconnectTimer")
           b == CancelTimer(a, "idleTimer")
           d == CancelTimer(b, "voiceTimer")
<1>1. /\ a \in ImplType /\ IoInv(a) /\ SameConnection(s, a) /\ SameQueue(s, a)
      /\ RecordInv(s) => RecordInv(a)
  BY CancelTimerIo, CancelTimerType
<1> HIDE DEF a
<1>2. /\ b \in ImplType /\ IoInv(b) /\ SameConnection(a, b) /\ SameQueue(a, b)
      /\ RecordInv(a) => RecordInv(b)
  BY <1>1, CancelTimerIo, CancelTimerType
<1> HIDE DEF b
<1>3. /\ d \in ImplType /\ IoInv(d) /\ SameConnection(b, d) /\ SameQueue(b, d)
      /\ RecordInv(b) => RecordInv(d)
  BY <1>2, CancelTimerIo, CancelTimerType
<1> HIDE DEF d
<1>4. CancelTimers(s) = d
  BY DEF CancelTimers, a, b, d
<1>5. QED
  BY <1>1, <1>2, <1>3, <1>4 DEF SameConnection, SameQueue

\* connect keeps the invariant.
LEMMA ConnectPostedInv ==
    ASSUME NEW s, RecordInv(s), NEW loadable \in BOOLEAN
    PROVE  Good(s, ConnectPosted(s, loadable))
<1> DEFINE r == CancelTimer(s, "reconnectTimer")
           t == [r EXCEPT !.userDisconnect = FALSE, !.reconnectDelay = MinDelay]
<1>1. s \in ImplType /\ r \in ImplType
  BY CancelTimerType DEF RecordInv
<1>2. RecordInv(r) /\ r.shuttingDown = s.shuttingDown
  BY <1>1, CancelTimerIo DEF SameConnection
<1> HIDE DEF r
<1>3. MinDelay \in Delays
  BY LimitAssumption DEF Delays
<1>4. /\ t \in ImplType /\ SameOps(r, t) /\ SameQueue(r, t) /\ t.generation = r.generation
      /\ t.stream = r.stream /\ t.state = r.state /\ t.shuttingDown = r.shuttingDown
      /\ t.userDisconnect = FALSE
  BY <1>1, <1>3 DEF ImplType, SameOps, SameQueue
<1> HIDE DEF t
<1>5. IoInv(t) /\ WriterInv(t)
  BY <1>2, <1>4 DEF RecordInv, IoInv, WriterInv, Bounded, Unique, Rivals, Free, Occupies,
                    SameOps, SameQueue
<1>6. RecordInv(t)
  BY <1>2, <1>4, <1>5 DEF RecordInv, StateInv
<1>7. Good(s, BeginConnect(t, FALSE, loadable))
  BY <1>2, <1>4, <1>6, BeginConnectInv DEF Good, RecordInv, IoInv
<1>8. QED
  BY <1>7 DEF ConnectPosted, r, t

\* disconnect and startPairing keep the invariant.
LEMMA DropInv ==
    ASSUME NEW s, RecordInv(s)
    PROVE  Good(s, Drop(s)) /\ Good(s, EmitAvailability(Drop(s), FALSE))
<1> DEFINE u == [s EXCEPT !.userDisconnect = TRUE]
           r == CancelTimers(u)
           c == CloseStream(r)
           d == SetState(c, "Disconnected")
<1>1. s \in ImplType /\ IoInv(s)
  BY DEF RecordInv
<1>2. /\ u \in ImplType /\ SameOps(s, u) /\ u.generation = s.generation
      /\ u.stream = s.stream /\ u.shuttingDown = s.shuttingDown
  BY <1>1 DEF ImplType, SameOps
<1> HIDE DEF u
<1>3. IoInv(u)
  BY <1>1, <1>2 DEF IoInv, Bounded, Unique, Rivals, Free, Occupies, SameOps
<1>4. r \in ImplType /\ IoInv(r) /\ SameConnection(u, r)
  BY <1>2, <1>3, CancelTimersInv
<1> HIDE DEF r
<1>5. c \in ImplType /\ IoInv(c) /\ WriterInv(c) /\ c.stream = "null"
      /\ c.shuttingDown = r.shuttingDown
  BY <1>4, CloseStreamType, CloseStreamIo DEF IoInv
<1> HIDE DEF c
<1>6. /\ d \in ImplType /\ SameOps(c, d) /\ SameQueue(c, d) /\ d.generation = c.generation
      /\ d.stream = c.stream /\ d.state = "Disconnected" /\ d.shuttingDown = c.shuttingDown
  BY <1>5 DEF SetState, ImplType, States, SameOps, SameQueue
<1> HIDE DEF d
<1>7. RecordInv(d)
  BY <1>5, <1>6, ClosedInv
<1>8. Good(s, d)
  BY <1>2, <1>4, <1>5, <1>6, <1>7 DEF Good, SameConnection
<1>9. Good(s, EmitAvailability(d, FALSE))
  BY <1>6, <1>8, EmitAvailabilityInv, UnseenContinues DEF Good, Continues
<1>10. QED
  BY <1>8, <1>9 DEF Drop, u, r, c, d

\* The functions that queue messages keep the invariant.
LEMMA QueueingCallsInv ==
    ASSUME NEW s, RecordInv(s)
    PROVE  /\ Good(s, QueueMessage(s, Message("Key", 0)))
           /\ Good(s, QueueMessage(s, Message("Text", s.mirror["ime"])))
           /\ Good(s, StartVoicePosted(s))
           /\ \A chunks \in Nat : Good(s, SendVoiceDataPosted(s, chunks))
           /\ Good(s, StopVoicePosted(s))
<1>1. s \in ImplType /\ Good(s, s)
  BY DEF RecordInv, Good
<1>2. Message("Key", 0) \in Messages
  BY MessageType, DataAssumption DEF MessageKinds
<1>3. Good(s, QueueMessage(s, Message("Key", 0)))
  BY <1>2, QueueMessageInv DEF Good, Continues
<1>4. Good(s, QueueMessage(s, Message("Text", s.mirror["ime"])))
  <2>1. s.mirror \in Mirrors
    BY <1>1 DEF ImplType
  <2>2. s.mirror["ime"] \in Words
    BY <2>1 DEF Mirrors, MirrorFields
  <2>3. Message("Text", s.mirror["ime"]) \in Messages
    BY <2>2, MessageType DEF MessageKinds
  <2>4. QED
    BY <2>3, QueueMessageInv DEF Good, Continues
<1>5. Good(s, StartVoicePosted(s))
  <2> DEFINE t == [s EXCEPT !.voiceStarting = TRUE]
             q == QueueMessage(t, Message("Key", 0))
  <2>1. t \in ImplType /\ SameConnection(s, t) /\ SameOps(s, t) /\ SameQueue(s, t)
    BY <1>1 DEF ImplType, SameConnection, SameOps, SameQueue
  <2> HIDE DEF t
  <2>2. Continues(s, t) /\ RecordInv(t)
    BY <2>1, UnseenContinues DEF Continues
  <2>3. Continues(t, q) /\ RecordInv(q)
    BY <1>2, <2>2, QueueMessageInv DEF Continues
  <2> HIDE DEF q
  <2>4. Good(s, SetTimer(q, "voiceTimer"))
    BY <2>2, <2>3, TimersContinue DEF Continues, Good, TimerKinds
  <2>5. QED
    BY <1>1, <2>4 DEF StartVoicePosted, t, q
<1>6. ASSUME NEW chunks \in Nat PROVE Good(s, SendVoiceDataPosted(s, chunks))
  <2>1. CASE s.voiceSessionId # NoSession
    <3> DEFINE m == Message("VoicePayload", s.voiceSessionId)
    <3>1. s.voiceSessionId \in Sessions
      BY <1>1 DEF ImplType
    <3>2. m \in Messages
      BY <3>1, <2>1, MessageType DEF Sessions, MessageKinds
    <3> HIDE DEF m
    <3>3. [i \in 1..chunks |-> m] \in MessageSeqs
      BY <3>2 DEF MessageSeqs
    <3>4. Good(s, QueueMessages(s, [i \in 1..chunks |-> m]))
      BY <3>3, QueueMessagesInv DEF Good, Continues
    <3>5. QED
      BY <3>4, <2>1 DEF SendVoiceDataPosted, m
  <2>2. QED
    BY <1>1, <2>1 DEF SendVoiceDataPosted
<1>7. Good(s, StopVoicePosted(s))
  <2> DEFINE r == CancelTimer(s, "voiceTimer")
             t == [r EXCEPT !.voiceStarting = FALSE]
             q == QueueMessage(t, Message("VoiceEnd", t.voiceSessionId))
             e == [q EXCEPT !.voiceSessionId = NoSession]
  <2>1. r \in ImplType /\ Continues(s, r) /\ RecordInv(r)
    BY <1>1, TimersContinue, CancelTimerType DEF Continues, TimerKinds
  <2> HIDE DEF r
  <2>2. t \in ImplType /\ SameConnection(r, t) /\ SameOps(r, t) /\ SameQueue(r, t)
    BY <2>1 DEF ImplType, SameConnection, SameOps, SameQueue
  <2> HIDE DEF t
  <2>3. Continues(s, t) /\ RecordInv(t)
    BY <2>1, <2>2, UnseenContinues, ContinuesTransitive DEF Continues
  <2>4. ASSUME t.voiceSessionId # NoSession PROVE Good(s, EndSession(t))
    <3>1. t.voiceSessionId \in Sessions /\ NoSession \in Sessions
      BY <2>2 DEF ImplType, Sessions
    <3>2. Message("VoiceEnd", t.voiceSessionId) \in Messages
      BY <3>1, <2>4, MessageType DEF Sessions, MessageKinds
    <3>3. Continues(t, q) /\ RecordInv(q) /\ q \in ImplType
      BY <2>3, <3>2, QueueMessageInv DEF Continues, RecordInv
    <3> HIDE DEF q
    <3>4. e \in ImplType /\ SameConnection(q, e) /\ SameOps(q, e) /\ SameQueue(q, e)
      BY <3>1, <3>3 DEF ImplType, SameConnection, SameOps, SameQueue
    <3> HIDE DEF e
    <3>5. Continues(q, e)
      BY <3>3, <3>4, UnseenContinues
    <3>6. Good(s, e)
      BY <2>3, <3>3, <3>5 DEF Good, Continues
    <3>7. QED
      BY <3>6 DEF EndSession, e, q
  <2>5. QED
    BY <2>3, <2>4 DEF StopVoicePosted, Good, Continues, t, r
<1>8. QED
  BY <1>3, <1>4, <1>5, <1>6, <1>7

-----------------------------------------------------------------------------
(* The theorems. *)

\* The constructor establishes the invariant.
LEMMA InitInv == Init => Inv
<1> SUFFICES ASSUME Init PROVE Inv
  OBVIOUS
<1>1. impl = InitialImpl
  BY DEF Init
<1>2. InitialImpl \in ImplType
  <2>1. /\ <<>> \in MessageSeqs /\ <<>> \in CompletionSeqs
        /\ MinDelay \in Delays /\ NoSession \in Sessions
    BY LimitAssumption DEF MessageSeqs, CompletionSeqs, Delays, Sessions
  <2>2. [f \in MirrorFields |-> 0] \in Mirrors
    BY DataAssumption DEF Mirrors
  <2>3. OptionFeatures \in SUBSET Features /\ "Disconnected" \in States
    BY OptionsAssumption DEF States
  <2>4. QED
    BY <2>1, <2>2, <2>3 DEF InitialImpl, ImplType
<1>3. /\ InitialImpl.pending = {} /\ InitialImpl.ready = <<>> /\ InitialImpl.misuse = FALSE
      /\ InitialImpl.stream = "null" /\ InitialImpl.state = "Disconnected"
      /\ InitialImpl.writeInProgress = FALSE
  BY DEF InitialImpl
<1>4. IoInv(InitialImpl) /\ WriterInv(InitialImpl)
  BY <1>3 DEF IoInv, WriterInv, Bounded, Unique, Free, OpKinds
<1>5. StateInv(InitialImpl)
  BY <1>3 DEF StateInv
<1>6. budget \in BudgetType
  BY BoundAssumption DEF Init, BudgetType
<1>7. QED
  BY <1>1, <1>2, <1>4, <1>5, <1>6 DEF Inv, RecordInv, TypeOK, Init

\* A handler takes its turn, which may be that of the handler overtaken.
TurnTaken ==
    overtaken' = overtaken \/ (overtaken = "running" /\ overtaken' = "returned")

\* A step that leaves a good record and counts down the budget keeps Inv.
LEMMA GoodStep ==
    ASSUME Inv, Good(impl, impl'), certificate' \in BOOLEAN, destructor' = destructor,
           TurnTaken, budget' \in BudgetType
    PROVE  Inv'
BY DEF Inv, TypeOK, Good, RecordInv, TurnTaken

DestructorSteps == {"flagged", "posted", "cleaned", "stopped", "joined"}

\* So does a step after which the I/O thread knows of the destruction.
LEMMA FlaggedStep ==
    ASSUME Inv, RecordInv(impl'), impl'.shuttingDown, UNCHANGED <<certificate, budget>>,
           destructor' \in DestructorSteps, overtaken' \in {"no", "running", "returned"},
           destructor' \in {"cleaned", "joined"} => overtaken' = "no"
    PROVE  Inv'
BY DEF Inv, TypeOK, RecordInv, DestructorSteps

\* Setting shuttingDown_ keeps the invariant.
LEMMA FlaggedInv ==
    ASSUME NEW s, RecordInv(s)
    PROVE  RecordInv(Flagged(s)) /\ Flagged(s).shuttingDown
<1> DEFINE t == Flagged(s)
<1>1. /\ t \in ImplType /\ SameOps(s, t) /\ SameQueue(s, t) /\ t.shuttingDown = TRUE
      /\ t.generation = s.generation /\ t.stream = s.stream
  BY DEF RecordInv, Flagged, ImplType, SameOps, SameQueue
<1> HIDE DEF t
<1>2. IoInv(t) /\ WriterInv(t)
  BY <1>1 DEF RecordInv, IoInv, WriterInv, Bounded, Unique, Rivals, Free, Occupies,
              SameOps, SameQueue
<1>3. RecordInv(t)
  BY <1>1, <1>2 DEF RecordInv, StateInv
<1>4. QED
  BY <1>1, <1>3 DEF t

\* A call counts down its bound.
LEMMA CallBudget ==
    ASSUME budget \in BudgetType, NEW name, Call(name)
    PROVE  budget' \in BudgetType
BY BoundAssumption DEF BudgetType, Call

\* Every step keeps the invariant.
LEMMA NextInv == Inv /\ [Next]_vars => Inv'
<1> SUFFICES ASSUME Inv, [Next]_vars PROVE Inv'
  OBVIOUS
<1>1. /\ RecordInv(impl) /\ impl \in ImplType /\ IoInv(impl) /\ Good(impl, impl)
      /\ certificate \in BOOLEAN /\ budget \in BudgetType
  BY DEF Inv, TypeOK, RecordInv, Good
<1>2. CASE RunHandler
  <2>1. ASSUME NEW kind, Handler(kind)
        PROVE  /\ Good(impl, Taken) /\ First \in Completions /\ Served(Taken, First)
               /\ RecordInv(Taken) /\ First.op.kind = kind
               /\ UNCHANGED <<certificate, destructor, budget>> /\ TurnTaken
    BY <1>1, <2>1, TakenInv DEF Handler, Runs, TurnTaken, Taken, First, Good
  <2>2. ASSUME NEW t, Good(Taken, t), Good(impl, Taken) PROVE Good(impl, t)
    BY <2>2 DEF Good
  <2>3. CASE OnResolve \/ OnConnect \/ OnHandshake
    <3>1. Good(impl, impl') /\ UNCHANGED <<certificate, destructor, budget>> /\ TurnTaken
      BY <2>1, <2>2, <2>3, AttemptHandlersInv DEF OnResolve, OnConnect, OnHandshake
    <3>2. QED
      BY <1>1, <3>1, GoodStep
  <2>4. CASE OnLengthByte \/ OnBody
    <3>1. TvBytes \subseteq LengthBytes /\ TvMessages \subseteq TvMessageType
      BY DataAssumption DEF TvMessageType
    <3>2. Good(impl, impl') /\ UNCHANGED <<certificate, destructor, budget>> /\ TurnTaken
      BY <2>1, <2>2, <2>4, <3>1, ReadHandlersInv DEF OnLengthByte, OnBody
    <3>3. QED
      BY <1>1, <3>2, GoodStep
  <2>5. CASE OnWrite
    <3>1. Good(impl, impl') /\ UNCHANGED <<certificate, destructor, budget>> /\ TurnTaken
      BY <2>1, <2>2, <2>5, WriteHandlerInv DEF OnWrite
    <3>2. QED
      BY <1>1, <3>1, GoodStep
  <2>6. CASE OnReconnectTimer \/ OnIdleTimer \/ OnVoiceTimer
    <3>1. Good(impl, impl') /\ UNCHANGED <<certificate, destructor, budget>> /\ TurnTaken
      BY <1>1, <2>1, <2>2, <2>6, TimerHandlersInv
      DEF OnReconnectTimer, OnIdleTimer, OnVoiceTimer
    <3>2. QED
      BY <1>1, <3>1, GoodStep
  <2>7. CASE OnFailureFlagged
    <3>1. PICK kind : Handler(kind)
      BY <2>7 DEF OnFailureFlagged
    <3>2. RecordInv(Flagged(Taken)) /\ Flagged(Taken).shuttingDown
      BY <2>1, <3>1, FlaggedInv
    <3>3. RecordInv(impl') /\ impl'.shuttingDown
      BY <2>7, <3>2, HandleConnectionLossInv DEF OnFailureFlagged
    <3>4. UNCHANGED <<certificate, destructor, budget>> /\ overtaken' = "returned"
      BY <2>7, <3>1 DEF OnFailureFlagged, Handler, Runs
    <3>5. destructor \in DestructorSteps /\ destructor \notin {"cleaned", "joined"}
      BY <2>7 DEF OnFailureFlagged, DestructorSteps, Inv, TypeOK
    <3>6. QED
      BY <3>3, <3>4, <3>5, FlaggedStep
  <2>8. QED
    BY <1>2, <2>3, <2>4, <2>5, <2>6, <2>7 DEF RunHandler
<1>3. CASE Application
  <2>1. \A name : Call(name) => budget' \in BudgetType
    BY <1>1, CallBudget
  <2>2. CASE Connect \/ Disconnect \/ StartPairing
    <3>1. /\ Good(impl, impl') /\ UNCHANGED <<certificate, destructor>> /\ TurnTaken
          /\ budget' \in BudgetType
      BY <1>1, <2>1, <2>2, ConnectPostedInv, DropInv
      DEF Connect, Disconnect, StartPairing, Posted, Runs, TurnTaken
    <3>2. QED
      BY <1>1, <3>1, GoodStep
  <2>3. CASE SendKey \/ SendText \/ StartVoice \/ StopVoice
    <3>1. /\ Good(impl, impl') /\ UNCHANGED <<certificate, destructor>> /\ TurnTaken
          /\ budget' \in BudgetType
      BY <1>1, <2>1, <2>3, QueueingCallsInv
      DEF SendKey, SendText, StartVoice, StopVoice, Posted, Runs, TurnTaken
    <3>2. QED
      BY <1>1, <3>1, GoodStep
  <2>4. CASE SendVoiceData
    <3>1. \A chunks \in 1..MaxChunks : chunks \in Nat
      BY LimitAssumption
    <3>2. /\ Good(impl, impl') /\ UNCHANGED <<certificate, destructor>> /\ TurnTaken
          /\ budget' \in BudgetType
      BY <1>1, <2>1, <2>4, <3>1, QueueingCallsInv DEF SendVoiceData, Posted, Runs, TurnTaken
    <3>3. QED
      BY <1>1, <3>2, GoodStep
  <2>5. CASE GenerateCertificate
    BY <1>1, <2>1, <2>5, GoodStep DEF GenerateCertificate, TurnTaken
  <2>6. QED
    BY <1>3, <2>2, <2>3, <2>4, <2>5 DEF Application
<1>4. CASE Environment
  <2> DEFINE Moved(op, result) ==
                 [impl EXCEPT !.pending = @ \ {op},
                              !.ready = Append(@, [op |-> op, result |-> result])]
  <2>1. \A op \in impl.pending : \A result \in {"ok", "error"} : Good(impl, Moved(op, result))
    BY <1>1, CompletesInv DEF Results
  <2>2. CASE OpSucceeds
    <3>1. Good(impl, impl')
      <4>1. \E op \in impl.pending : impl' = Moved(op, "ok")
        BY <2>2 DEF OpSucceeds
      <4> HIDE DEF Moved
      <4>2. QED
        BY <2>1, <4>1
    <3>2. budget' \in BudgetType
      BY <1>1, <2>2, BoundAssumption DEF OpSucceeds, BudgetType
    <3>3. QED
      BY <1>1, <2>2, <3>1, <3>2, GoodStep DEF OpSucceeds, TurnTaken
  <2>3. CASE OpFails
    <3>1. Good(impl, impl')
      <4>1. \E op \in impl.pending : impl' = Moved(op, "error")
        BY <2>3 DEF OpFails
      <4> HIDE DEF Moved
      <4>2. QED
        BY <2>1, <4>1
    <3>2. budget' \in BudgetType
      BY <1>1, <2>3, BoundAssumption DEF OpFails, BudgetType
    <3>3. QED
      BY <1>1, <2>3, <3>1, <3>2, GoodStep DEF OpFails, TurnTaken
  <2>4. CASE StaleOpEnds
    <3>1. Good(impl, impl')
      <4>1. \E op \in impl.pending : \E result \in {"ok", "error"} : impl' = Moved(op, result)
        BY <2>4 DEF StaleOpEnds
      <4> HIDE DEF Moved
      <4>2. QED
        BY <2>1, <4>1
    <3>2. QED
      BY <1>1, <2>4, <3>1, GoodStep DEF StaleOpEnds, TurnTaken
  <2>5. CASE \E timer \in TimerKinds : TimerExpires(timer)
    <3>1. Good(impl, impl')
      <4>1. \E op \in impl.pending : impl' = Moved(op, "ok")
        BY <2>5 DEF TimerExpires
      <4> HIDE DEF Moved
      <4>2. QED
        BY <2>1, <4>1
    <3>2. QED
      BY <1>1, <2>5, <3>1, GoodStep DEF TimerExpires, TurnTaken
  <2>6. QED
    BY <1>4, <2>2, <2>3, <2>4, <2>5 DEF Environment
<1>5. CASE Destructor
  <2>1. RecordInv(Flagged(impl)) /\ Flagged(impl).shuttingDown
    BY <1>1, FlaggedInv
  <2>2. CASE DestroyBegins
    <3>1. CASE overtaken' = "no" /\ impl' = Flagged(impl)
      BY <2>1, <2>2, <3>1, FlaggedStep DEF DestroyBegins, DestructorSteps
    <3>2. CASE overtaken' = "running" /\ UNCHANGED impl
      BY <1>1, <2>2, <3>2 DEF DestroyBegins, Inv, TypeOK, RecordInv
    <3>3. QED
      BY <2>2, <3>1, <3>2 DEF DestroyBegins
  <2>3. CASE CleanUp
    <3> DEFINE u == [impl EXCEPT !.userDisconnect = TRUE]
               c == CloseStream(u)
               t == CancelTimers(c)
    <3>1. impl.shuttingDown
      BY <2>3 DEF CleanUp, Inv
    <3>2. /\ u \in ImplType /\ SameOps(impl, u) /\ u.generation = impl.generation
          /\ u.shuttingDown = impl.shuttingDown
      BY <1>1 DEF ImplType, SameOps
    <3> HIDE DEF u
    <3>3. Bounded(u) /\ ~u.misuse
      BY <1>1, <3>2 DEF IoInv, Bounded, SameOps
    <3>4. c \in ImplType /\ IoInv(c) /\ WriterInv(c) /\ c.shuttingDown = u.shuttingDown
      BY <3>2, <3>3, CloseStreamType, CloseStreamIo
    <3> HIDE DEF c
    <3>5. RecordInv(c)
      BY <3>1, <3>2, <3>4 DEF RecordInv, StateInv
    <3>6. RecordInv(t) /\ t.shuttingDown = c.shuttingDown
      BY <3>4, <3>5, CancelTimersInv DEF SameConnection
    <3> HIDE DEF t
    <3>7. QED
      BY <2>3, <3>1, <3>2, <3>4, <3>6, FlaggedStep DEF CleanUp, DestructorSteps, t, c, u
  <2>4. CASE HandlerReturns
    <3>1. destructor # "none" /\ destructor \in DestructorSteps
      BY <2>4 DEF HandlerReturns, Inv, TypeOK, DestructorSteps
    <3>2. QED
      BY <2>1, <2>4, <3>1, FlaggedStep DEF HandlerReturns
  <2>5. CASE DestroyPosts \/ StopIo \/ Join
    BY <1>1, <2>5 DEF DestroyPosts, StopIo, Join, Inv, TypeOK, RecordInv
  <2>6. QED
    BY <1>5, <2>2, <2>3, <2>4, <2>5 DEF Destructor
<1>6. CASE UNCHANGED vars
  BY <1>1, <1>6, GoodStep DEF vars, TurnTaken
<1>7. QED
  BY <1>2, <1>3, <1>4, <1>5, <1>6 DEF Next

\* The invariant holds in every reachable state.
LEMMA Invariance == Spec => []Inv
BY InitInv, NextInv, PTL DEF Spec

\* In every behaviour of the connection every variable keeps its type; in
\* particular scheduleReconnect's delay stays between its first value and its
\* cap, and beginWrite's handler never pops an empty writeQueue_.
THEOREM TypeCorrect == Spec => []TypeOK
<1>1. Inv => TypeOK
  BY DEF Inv
<1>2. QED
  BY <1>1, Invariance, PTL

\* For any number of calls, faults, stale completions and reconnects, no
\* handler starts an operation on a null stream_, and no two reads or two
\* writes of one stream are outstanding at once.
THEOREM NoMisuse == Spec => []StreamsAreNotMisused
<1>1. Inv => StreamsAreNotMisused
  BY DEF Inv, RecordInv, IoInv, StreamsAreNotMisused
<1>2. QED
  BY <1>1, Invariance, PTL

\* After disconnect() or startPairing(), and until the next connect(), no
\* handler or timer that was under way brings a stream or another state back.
THEOREM DisconnectHolds == Spec => []DisconnectedStaysDown
<1>1. Inv => DisconnectedStaysDown
  BY DEF Inv, RecordInv, StateInv, DisconnectedStaysDown
<1>2. QED
  BY <1>1, Invariance, PTL

=============================================================================
