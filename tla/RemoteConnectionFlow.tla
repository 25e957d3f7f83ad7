------------------------ MODULE RemoteConnectionFlow ------------------------
(***************************************************************************)
(* Theorems on what RemoteConnection keeps going: the chain of reads, the  *)
(* writer, the retry, the idle watch and the voice session, for every      *)
(* value of its constants.                                                 *)
(*                                                                         *)
(* RemoteConnectionProofs shows that there is at most one operation in     *)
(* each direction of the stream; here it is shown that there is one where  *)
(* there has to be one.  The invariant looks at pending and ready only     *)
(* through a few predicates, the views; one lemma per primitive of the     *)
(* io_context says what it does to them, and all else follows from those.  *)
(***************************************************************************)
EXTENDS RemoteConnectionProofs, SequenceTheorems

-----------------------------------------------------------------------------
(* Views of the outstanding operations. *)

RT == "reconnectTimer"

\* An operation of this kind was started for the present generation.
Has(s, k) ==
    \/ \E o \in s.pending : o.gen = s.generation /\ o.kind = k
    \/ \E i \in DOMAIN s.ready : s.ready[i].op.gen = s.generation /\ s.ready[i].op.kind = k

InPending(s, k) == \E o \in s.pending : o.kind = k
InReady(s, k)   == \E i \in DOMAIN s.ready : s.ready[i].op.kind = k

\* A reconnect timer that was not cancelled will call its handler.
Alarm(s) ==
    \/ InPending(s, RT)
    \/ \E i \in DOMAIN s.ready : s.ready[i].op.kind = RT /\ s.ready[i].result = "ok"

\* In the queue no reconnect timer is behind another operation of the present
\* generation.
Ordered(s) ==
    \A i, j \in DOMAIN s.ready :
        /\ i < j
        /\ s.ready[i].op.gen = s.generation
        /\ s.ready[j].op.kind = RT
        => s.ready[i].op.kind = RT

OneRetry(s) == \A o, p \in s.pending : o.kind = RT /\ p.kind = RT => o = p

SameLog(s, t)   == t.accepted = s.accepted /\ t.sent = s.sent
SameVoice(s, t) == t.voiceStarting = s.voiceStarting /\ t.voiceSessionId = s.voiceSessionId

\* t differs from s in the operations at most, or in what nothing here is about.
SameFields(s, t) ==
    /\ SameConnection(s, t) /\ SameQueue(s, t) /\ SameLog(s, t) /\ SameVoice(s, t)
    /\ t.available = s.available

SameViews(s, t) ==
    /\ \A k \in OpKinds : /\ Has(t, k) <=> Has(s, k)
                          /\ InPending(t, k) <=> InPending(s, k)
                          /\ InReady(t, k) <=> InReady(s, k)
    /\ Alarm(t) <=> Alarm(s)
    /\ Ordered(t) <=> Ordered(s)
    /\ OneRetry(t) <=> OneRetry(s)

\* The views depend on the operations and the generation only.
LEMMA ViewsFrame ==
    ASSUME NEW s, NEW t, t.pending = s.pending, t.ready = s.ready,
           t.generation = s.generation
    PROVE  SameViews(s, t)
BY DEF SameViews, Has, InPending, InReady, Alarm, Ordered, OneRetry

\* Starting an operation adds its kind to the views.
LEMMA StartViews ==
    ASSUME NEW s \in ImplType, NEW kind \in OpKinds
    PROVE  LET t == Start(s, kind)
           IN  /\ t \in ImplType /\ SameFields(s, t)
               /\ \A k \in OpKinds :
                    /\ Has(t, k) <=> Has(s, k) \/ k = kind
                    /\ k # kind => (InPending(t, k) <=> InPending(s, k))
                    /\ k # kind => (InReady(t, k) <=> InReady(s, k))
               /\ kind # "write" => /\ InPending(t, kind)
                                    /\ InReady(t, kind) <=> InReady(s, kind)
               /\ IF kind = RT THEN Alarm(t) ELSE Alarm(t) <=> Alarm(s)
               /\ Ordered(t) <=> Ordered(s)
               /\ kind # RT => (OneRetry(t) <=> OneRetry(s))
               /\ kind = RT /\ ~InPending(s, RT) => OneRetry(t)
<1> DEFINE t == Start(s, kind)
           op == [kind |-> kind, gen |-> s.generation]
           c == [op |-> op, result |-> "error"]
<1>1. t \in ImplType
  BY StartType
<1>2. SameFields(s, t)
  BY DEF Start, ImplType, SameFields, SameConnection, SameQueue, SameLog, SameVoice
<1>3. \/ t.pending = s.pending \cup {op} /\ t.ready = s.ready
      \/ t.pending = s.pending /\ t.ready = Append(s.ready, c) /\ kind = "write"
  BY DEF Start, ImplType
<1>4. /\ op.kind = kind /\ op.gen = s.generation /\ c.op = op /\ c.result = "error"
      /\ s.ready \in CompletionSeqs
  BY FieldTypes
<1>5. c \in Completions
  BY FieldTypes DEF Completions, Results, Ops
<1>6. t.generation = s.generation
  BY <1>2 DEF SameFields, SameConnection
<1> HIDE DEF t, op, c
<1>7. CASE t.pending = s.pending \cup {op} /\ t.ready = s.ready
  <2>1. \A k \in OpKinds :
            /\ Has(t, k) <=> Has(s, k) \/ k = kind
            /\ InPending(t, k) <=> InPending(s, k) \/ k = kind
            /\ InReady(t, k) <=> InReady(s, k)
    BY <1>4, <1>6, <1>7 DEF Has, InPending, InReady
  <2>2. IF kind = RT THEN Alarm(t) ELSE Alarm(t) <=> Alarm(s)
    BY <1>4, <1>7 DEF Alarm, InPending
  <2>3. Ordered(t) <=> Ordered(s)
    BY <1>6, <1>7 DEF Ordered
  <2>4. /\ kind # RT => (OneRetry(t) <=> OneRetry(s))
        /\ kind = RT /\ ~InPending(s, RT) => OneRetry(t)
    BY <1>4, <1>7 DEF OneRetry, InPending
  <2>5. QED
    BY <1>1, <1>2, <2>1, <2>2, <2>3, <2>4 DEF t
<1>8. CASE t.pending = s.pending /\ t.ready = Append(s.ready, c) /\ kind = "write"
  <2> DEFINE n == Len(s.ready) + 1
  <2>a. /\ DOMAIN t.ready = DOMAIN s.ready \cup {n} /\ n \notin DOMAIN s.ready
        /\ t.ready[n] = c
        /\ \A i \in DOMAIN s.ready : t.ready[i] = s.ready[i] /\ ~(n < i)
    BY <1>4, <1>5, <1>8 DEF CompletionSeqs
  <2> HIDE DEF n
  <2>1. \A k \in OpKinds :
            /\ Has(t, k) <=> Has(s, k) \/ k = kind
            /\ InPending(t, k) <=> InPending(s, k)
            /\ InReady(t, k) <=> InReady(s, k) \/ k = kind
    BY <1>4, <1>6, <1>8, <2>a DEF Has, InPending, InReady
  <2>2. Alarm(t) <=> Alarm(s)
    BY <1>4, <1>8, <2>a DEF Alarm, InPending, RT
  <2>3. Ordered(t) <=> Ordered(s)
    BY <1>4, <1>6, <1>8, <2>a DEF Ordered, RT
  <2>4. OneRetry(t) <=> OneRetry(s)
    BY <1>8 DEF OneRetry
  <2>5. QED
    BY <1>1, <1>2, <1>8, <2>1, <2>2, <2>3, <2>4 DEF t, RT
<1>9. QED
  BY <1>3, <1>7, <1>8

\* Cancelling a timer takes it out of pending, and turns the ones in the queue
\* into late ones.
LEMMA CancelViews ==
    ASSUME NEW s \in ImplType, NEW timer \in TimerKinds
    PROVE  LET t == CancelTimer(s, timer)
           IN  /\ t \in ImplType /\ SameFields(s, t)
               /\ \A k \in OpKinds :
                    /\ InReady(t, k) <=> InReady(s, k)
                    /\ k # timer => (Has(t, k) <=> Has(s, k))
                    /\ k # timer => (InPending(t, k) <=> InPending(s, k))
               /\ ~InPending(t, timer)
               /\ Has(t, timer) => Has(s, timer)
               /\ timer # RT => (Alarm(t) <=> Alarm(s))
               /\ Ordered(t) <=> Ordered(s)
               /\ OneRetry(s) => OneRetry(t)
<1> DEFINE t == CancelTimer(s, timer)
<1>1. t \in ImplType
  BY CancelTimerType
<1>2. SameFields(s, t)
  BY DEF CancelTimer, ImplType, SameFields, SameConnection, SameQueue, SameLog, SameVoice
<1>3. /\ t.pending = {o \in s.pending : o.kind # timer}
      /\ t.ready = [i \in DOMAIN s.ready |-> IF s.ready[i].op.kind = timer
                                             THEN [s.ready[i] EXCEPT !.result = "late"]
                                             ELSE s.ready[i]]
  BY DEF CancelTimer, ImplType
<1>4. \A c \in Completions : [c EXCEPT !.result = "late"].op = c.op
  BY DEF Completions
<1>5. \A i \in DOMAIN s.ready : s.ready[i] \in Completions
  BY FieldTypes
<1>6. t.generation = s.generation
  BY <1>2 DEF SameFields, SameConnection
<1> HIDE DEF t
<1>7. /\ DOMAIN t.ready = DOMAIN s.ready
      /\ \A i \in DOMAIN s.ready : /\ t.ready[i].op = s.ready[i].op
                                   /\ s.ready[i].op.kind # timer => t.ready[i] = s.ready[i]
  BY <1>3, <1>4, <1>5
<1>8. \A k \in OpKinds :
        /\ InReady(t, k) <=> InReady(s, k)
        /\ k # timer => (Has(t, k) <=> Has(s, k))
        /\ k # timer => (InPending(t, k) <=> InPending(s, k))
  BY <1>3, <1>6, <1>7 DEF InReady, InPending, Has
<1>9. ~InPending(t, timer) /\ (Has(t, timer) => Has(s, timer))
  BY <1>3, <1>6, <1>7 DEF InPending, Has
<1>10. timer # RT => (Alarm(t) <=> Alarm(s))
  BY <1>3, <1>7 DEF Alarm, InPending
<1>11. Ordered(t) => Ordered(s)
  BY <1>6, <1>7 DEF Ordered
<1>12. Ordered(s) => Ordered(t)
  BY <1>6, <1>7 DEF Ordered
<1>13. OneRetry(s) => OneRetry(t)
  BY <1>3 DEF OneRetry
<1>14. QED
  BY <1>1, <1>2, <1>8, <1>9, <1>10, <1>11, <1>12, <1>13 DEF t

\* closeStream leaves the operations, and none is of the present generation.
LEMMA CloseViews ==
    ASSUME NEW s \in ImplType, Bounded(s)
    PROVE  LET t == CloseStream(s)
           IN  /\ \A k \in OpKinds : /\ ~Has(t, k)
                                     /\ InPending(t, k) <=> InPending(s, k)
                                     /\ InReady(t, k) <=> InReady(s, k)
               /\ Alarm(t) <=> Alarm(s)
               /\ Ordered(t)
               /\ OneRetry(t) <=> OneRetry(s)
<1> DEFINE t == CloseStream(s)
<1>1. /\ t.pending = s.pending /\ t.ready = s.ready /\ t.generation = s.generation + 1
  BY DEF CloseStream, ForgetWrites, ForgetVoice, InvalidateHandlers, ImplType
<1> HIDE DEF t
<1>2. /\ \A o \in s.pending : o.gen # t.generation
      /\ \A i \in DOMAIN s.ready : s.ready[i].op.gen # t.generation
  BY <1>1, FieldTypes DEF Bounded
<1>3. QED
  BY <1>1, <1>2 DEF Has, InPending, InReady, Alarm, Ordered, OneRetry, t

\* The first handler is taken out of the queue.
LEMMA TakenViews ==
    ASSUME NEW s \in ImplType, s.ready # <<>>
    PROVE  LET t == [s EXCEPT !.ready = Tail(@)]
               c == Head(s.ready)
           IN  /\ SameFields(s, t) /\ c \in Completions /\ c.op.kind \in OpKinds
               /\ \A k \in OpKinds :
                    /\ Has(s, k) <=> \/ Has(t, k)
                                     \/ c.op.gen = s.generation /\ c.op.kind = k
                    /\ InPending(t, k) <=> InPending(s, k)
                    /\ InReady(s, k) <=> InReady(t, k) \/ c.op.kind = k
               /\ c.op.kind # RT => (Alarm(t) <=> Alarm(s))
               /\ Ordered(s) => Ordered(t)
               /\ Ordered(s) /\ c.op.gen = s.generation /\ c.op.kind # RT => ~InReady(t, RT)
               /\ OneRetry(t) <=> OneRetry(s)
<1> DEFINE q == Tail(s.ready)
           t == [s EXCEPT !.ready = Tail(@)]
           c == Head(s.ready)
<1>1. s.ready \in CompletionSeqs
  BY FieldTypes
<1>2. /\ c \in Completions /\ 1 \in DOMAIN s.ready /\ c = s.ready[1]
      /\ \A i \in DOMAIN q : i + 1 \in DOMAIN s.ready /\ 1 < i + 1 /\ q[i] = s.ready[i + 1]
      /\ \A i \in DOMAIN s.ready : i = 1 \/ (i - 1 \in DOMAIN q /\ q[i - 1] = s.ready[i])
      /\ \A i, j \in DOMAIN q : i < j => i + 1 < j + 1
  BY <1>1 DEF CompletionSeqs
<1>3. c.op.kind \in OpKinds
  BY <1>2, FieldTypes
<1>4. SameFields(s, t) /\ t.pending = s.pending /\ t.ready = q /\ t.generation = s.generation
  BY DEF ImplType, SameFields, SameConnection, SameQueue, SameLog, SameVoice
<1> HIDE DEF q, t, c
<1>5. \A k \in OpKinds :
        /\ Has(s, k) <=> Has(t, k) \/ (c.op.gen = s.generation /\ c.op.kind = k)
        /\ InPending(t, k) <=> InPending(s, k)
        /\ InReady(s, k) <=> InReady(t, k) \/ c.op.kind = k
  <2> SUFFICES ASSUME NEW k \in OpKinds
               PROVE  /\ Has(s, k) <=> Has(t, k) \/ (c.op.gen = s.generation /\ c.op.kind = k)
                      /\ InPending(t, k) <=> InPending(s, k)
                      /\ InReady(s, k) <=> InReady(t, k) \/ c.op.kind = k
    OBVIOUS
  <2>1. Has(s, k) <=> Has(t, k) \/ (c.op.gen = s.generation /\ c.op.kind = k)
    BY <1>2, <1>4 DEF Has
  <2>2. InReady(s, k) <=> InReady(t, k) \/ c.op.kind = k
    BY <1>2, <1>4 DEF InReady
  <2>3. QED
    BY <1>4, <2>1, <2>2 DEF InPending
<1>6. c.op.kind # RT => (Alarm(t) <=> Alarm(s))
  BY <1>2, <1>4 DEF Alarm, InPending
<1>7. Ordered(s) => Ordered(t)
  BY <1>2, <1>4 DEF Ordered
<1>8. Ordered(s) /\ c.op.gen = s.generation /\ c.op.kind # RT => ~InReady(t, RT)
  BY <1>2, <1>4 DEF Ordered, InReady
<1>9. OneRetry(t) <=> OneRetry(s)
  BY <1>4 DEF OneRetry
<1>10. QED
  BY <1>2, <1>3, <1>4, <1>5, <1>6, <1>7, <1>8, <1>9 DEF t, c

\* An operation completes: it moves from pending to the end of the queue.
LEMMA MovedViews ==
    ASSUME NEW s \in ImplType, NEW op \in s.pending, NEW result \in Results
    PROVE  LET t == [s EXCEPT !.pending = @ \ {op},
                              !.ready = Append(@, [op |-> op, result |-> result])]
           IN  /\ SameFields(s, t)
               /\ \A k \in OpKinds :
                    /\ Has(t, k) <=> Has(s, k)
                    /\ InPending(t, k) => InPending(s, k)
                    /\ k # op.kind => (InPending(t, k) <=> InPending(s, k))
                    /\ InReady(t, k) <=> InReady(s, k) \/ k = op.kind
               /\ (op.kind = RT => result = "ok") /\ Alarm(s) => Alarm(t)
               /\ Ordered(s) /\ op.kind # RT => Ordered(t)
               /\ (\A k \in OpKinds : Has(s, k) => k = RT) => Ordered(t)
               /\ OneRetry(s) => OneRetry(t)
               /\ OneRetry(s) /\ op.kind = RT => ~InPending(t, RT)
<1> DEFINE c == [op |-> op, result |-> result]
           q == Append(s.ready, c)
           P == s.pending \ {op}
           n == Len(s.ready) + 1
           t == [s EXCEPT !.pending = @ \ {op},
                          !.ready = Append(@, [op |-> op, result |-> result])]
<1>1. s.ready \in CompletionSeqs /\ op \in Ops /\ op.kind \in OpKinds
  BY FieldTypes
<1>2. c \in Completions /\ c.op = op /\ c.result = result
  BY <1>1 DEF Completions
<1>3. SameFields(s, t) /\ t.pending = P /\ t.ready = q /\ t.generation = s.generation
  BY DEF ImplType, SameFields, SameConnection, SameQueue, SameLog, SameVoice
<1> HIDE DEF c, t
<1>4. /\ DOMAIN q = DOMAIN s.ready \cup {n} /\ n \notin DOMAIN s.ready /\ q[n] = c
      /\ \A i \in DOMAIN s.ready : q[i] = s.ready[i] /\ ~(n < i)
      /\ ~(n < n)
  BY <1>1, <1>2 DEF CompletionSeqs
<1>5. \A i \in DOMAIN s.ready : s.ready[i].op.kind \in OpKinds
  BY FieldTypes
<1>6. \A o \in s.pending : o \in P \/ o = op
  OBVIOUS
<1>7. P \subseteq s.pending /\ op \notin P
  OBVIOUS
<1> HIDE DEF q, n, P
<1>8. \A k \in OpKinds :
        /\ Has(t, k) <=> Has(s, k)
        /\ InPending(t, k) => InPending(s, k)
        /\ k # op.kind => (InPending(t, k) <=> InPending(s, k))
        /\ InReady(t, k) <=> InReady(s, k) \/ k = op.kind
  <2> SUFFICES ASSUME NEW k \in OpKinds
               PROVE  /\ Has(t, k) <=> Has(s, k)
                      /\ InPending(t, k) => InPending(s, k)
                      /\ k # op.kind => (InPending(t, k) <=> InPending(s, k))
                      /\ InReady(t, k) <=> InReady(s, k) \/ k = op.kind
    OBVIOUS
  <2>1. Has(t, k) <=> Has(s, k)
    BY <1>2, <1>3, <1>4, <1>6, <1>7 DEF Has
  <2>2. InReady(t, k) <=> InReady(s, k) \/ k = op.kind
    BY <1>2, <1>3, <1>4 DEF InReady
  <2>3. QED
    BY <1>3, <1>6, <1>7, <2>1, <2>2 DEF InPending
<1>9. (op.kind = RT => result = "ok") /\ Alarm(s) => Alarm(t)
  BY <1>2, <1>3, <1>4, <1>6 DEF Alarm, InPending
<1>10. Ordered(s) /\ op.kind # RT => Ordered(t)
  BY <1>2, <1>3, <1>4 DEF Ordered
<1>11. (\A k \in OpKinds : Has(s, k) => k = RT) => Ordered(t)
  BY <1>2, <1>3, <1>4, <1>5 DEF Ordered, Has
<1>12. /\ OneRetry(s) => OneRetry(t)
       /\ OneRetry(s) /\ op.kind = RT => ~InPending(t, RT)
  BY <1>3, <1>7 DEF OneRetry, InPending
<1>13. QED
  BY <1>3, <1>8, <1>9, <1>10, <1>11, <1>12 DEF t

-----------------------------------------------------------------------------
(* The invariant, as predicates of one record. *)

\* A live stream has an operation of its chain under way.
ChainInv(s) == s.stream # "null" => \E k \in ChainOf(s.stream) : Has(s, k)

QueueInv(s) ==
    /\ s.writeInProgress <=> Has(s, "write")
    /\ s.writeQueue # <<>> => s.writeInProgress
    /\ s.accepted = s.sent \o (IF s.writeInProgress THEN Tail(s.writeQueue) ELSE s.writeQueue)

\* Where a reconnect timer may be, and where there has to be one.
RetryInv(s) ==
    /\ s.stream # "null" => ~InPending(s, RT)
    /\ s.stream \notin {"null", "opened"} => ~InReady(s, RT)
    /\ InPending(s, RT) => ~InReady(s, RT) /\ OneRetry(s)
    /\ s.stream = "null" => \A k \in OpKinds : Has(s, k) => k = RT
    /\ Ordered(s)
    /\ s.state = "Reconnecting" /\ s.stream = "null" => Alarm(s)

WatchInv(s) ==
    /\ s.stream = "secure" => Has(s, "idleTimer")
    /\ s.state = "Connected" => s.stream = "secure" /\ s.available

VoiceInv(s) ==
    /\ s.voiceStarting \/ s.voiceSessionId # NoSession =>
           s.stream = "secure" /\ s.state = "Connected"
    /\ ~(s.voiceStarting /\ s.voiceSessionId # NoSession)
    /\ s.voiceStarting => InPending(s, "voiceTimer") \/ InReady(s, "voiceTimer")

\* In this log, session w has begun and has not ended.
OpenSession(log, w) ==
    \E j \in DOMAIN log :
        /\ log[j] = Message("VoiceBegin", w)
        /\ \A k \in (j + 1)..Len(log) : log[k].kind \notin {"VoiceBegin", "VoiceEnd"}

\* VoiceIsBracketed, of a log.
Bracketed(log) ==
    \A i \in DOMAIN log :
        log[i].kind \in {"VoicePayload", "VoiceEnd"} =>
            \E j \in 1..(i - 1) :
                /\ log[j] = Message("VoiceBegin", log[i].word)
                /\ \A k \in (j + 1)..(i - 1) : log[k].kind \notin {"VoiceBegin", "VoiceEnd"}

BracketInv(s) ==
    /\ Bracketed(s.accepted)
    /\ s.stream # "null" /\ s.voiceSessionId # NoSession =>
           OpenSession(s.accepted, s.voiceSessionId)

\* The parts that hold within a handler too, when the chain's operation has
\* completed and the next one is not yet started.
Base(s) == ~s.shuttingDown => QueueInv(s) /\ RetryInv(s) /\ WatchInv(s)

Mid(s) == Base(s) /\ (~s.shuttingDown => VoiceInv(s)) /\ BracketInv(s)

FlowInv(s) == Mid(s) /\ (~s.shuttingDown => ChainInv(s))

\* From s to t the stream, the session and the chain stay what they are.
Flows(s, t) ==
    /\ t \in ImplType /\ SameConnection(s, t) /\ SameVoice(s, t)
    /\ t.available = s.available
    /\ \A k \in ChainKinds : Has(t, k) <=> Has(s, k)
    /\ InPending(t, "voiceTimer") <=> InPending(s, "voiceTimer")
    /\ InReady(t, "voiceTimer") <=> InReady(s, "voiceTimer")

\* The operations of a stream's phase.
LEMMA StreamChain ==
    ASSUME NEW s \in ImplType
    PROVE  ChainOf(s.stream) \subseteq ChainKinds /\ ChainOf(s.stream) \subseteq OpKinds
<1>1. s.stream \in {"null", "opened", "handshaking", "secure"}
  BY DEF ImplType
<1>2. QED
  BY <1>1 DEF ChainOf, ChainKinds, OpKinds

\* One such change after another.
LEMMA FlowsTransitive ==
    ASSUME NEW s, NEW t, NEW u, Flows(s, t), Flows(t, u)
    PROVE  Flows(s, u)
BY DEF Flows, SameConnection, SameVoice

\* The voice session's part of the invariant is not disturbed.
LEMMA FlowsVoice ==
    ASSUME NEW s, NEW t, Flows(s, t), VoiceInv(s)
    PROVE  VoiceInv(t)
BY DEF Flows, SameConnection, SameVoice, VoiceInv

\* The retry and the idle watch are disturbed by few changes only.
LEMMA QuietFrame ==
    ASSUME NEW s, NEW t, SameConnection(s, t), t.available = s.available,
           InPending(t, RT) <=> InPending(s, RT), InReady(t, RT) <=> InReady(s, RT),
           Alarm(s) => Alarm(t), Ordered(s) => Ordered(t), OneRetry(s) => OneRetry(t),
           s.stream = "null" => \A k \in OpKinds : Has(t, k) => Has(s, k),
           Has(s, "idleTimer") => Has(t, "idleTimer"),
           RetryInv(s), WatchInv(s)
    PROVE  RetryInv(t) /\ WatchInv(t)
<1>1. RetryInv(t)
  BY DEF RetryInv, SameConnection
<1>2. WatchInv(t)
  BY DEF WatchInv, SameConnection
<1>3. QED
  BY <1>1, <1>2

\* A change of fields that the invariant does not mention.
LEMMA UnseenFlow ==
    ASSUME NEW s, NEW t \in ImplType, SameFields(s, t),
           t.pending = s.pending, t.ready = s.ready
    PROVE  /\ Flows(s, t)
           /\ Base(s) => Base(t)
           /\ Mid(s) => Mid(t)
           /\ FlowInv(s) => FlowInv(t)
<1>1. SameViews(s, t)
  BY ViewsFrame DEF SameFields, SameConnection
<1>2. Flows(s, t)
  BY <1>1 DEF Flows, SameFields, SameViews, OpKinds, TimerKinds
<1>3. Base(s) => Base(t)
  <2>1. QueueInv(s) => QueueInv(t)
    BY <1>1 DEF QueueInv, SameFields, SameViews, SameQueue, SameLog, OpKinds
  <2>2. RetryInv(s) /\ WatchInv(s) => RetryInv(t) /\ WatchInv(t)
    BY <1>1, QuietFrame DEF SameFields, SameViews, OpKinds, TimerKinds, RT
  <2>3. QED
    BY <2>1, <2>2 DEF Base, SameFields, SameConnection
<1>4. BracketInv(s) => BracketInv(t)
  BY DEF BracketInv, SameFields, SameConnection, SameLog, SameVoice
<1>5. Mid(s) => Mid(t)
  BY <1>2, <1>3, <1>4, FlowsVoice DEF Mid, SameFields, SameConnection
<1>6. ChainInv(s) => ChainInv(t)
  <2>1. ChainOf(t.stream) \subseteq OpKinds /\ t.stream = s.stream
    BY StreamChain DEF SameFields, SameConnection
  <2>2. QED
    BY <1>1, <2>1 DEF ChainInv, SameViews
<1>7. QED
  BY <1>2, <1>3, <1>5, <1>6 DEF FlowInv, SameFields, SameConnection

-----------------------------------------------------------------------------
(* Timers and writes on a live stream. *)

\* What setting a timer other than the reconnect timer does to the views.
LEMMA SetTimerViews ==
    ASSUME NEW s \in ImplType, NEW timer \in TimerKinds
    PROVE  LET t == SetTimer(s, timer)
           IN  /\ t \in ImplType /\ SameFields(s, t)
               /\ \A k \in OpKinds :
                    /\ k # timer => (Has(t, k) <=> Has(s, k))
                    /\ k # timer => (InPending(t, k) <=> InPending(s, k))
                    /\ InReady(t, k) <=> InReady(s, k)
               /\ Has(t, timer) /\ InPending(t, timer)
               /\ IF timer = RT THEN Alarm(t) /\ OneRetry(t) ELSE Alarm(t) <=> Alarm(s)
               /\ Ordered(t) <=> Ordered(s)
               /\ OneRetry(s) => OneRetry(t)
<1> DEFINE c == CancelTimer(s, timer)
           t == Start(c, timer)
<1>1. /\ c \in ImplType /\ SameFields(s, c)
      /\ \A k \in OpKinds :
            /\ InReady(c, k) <=> InReady(s, k)
            /\ k # timer => (Has(c, k) <=> Has(s, k))
            /\ k # timer => (InPending(c, k) <=> InPending(s, k))
      /\ ~InPending(c, timer)
      /\ timer # RT => (Alarm(c) <=> Alarm(s))
      /\ Ordered(c) <=> Ordered(s)
      /\ OneRetry(s) => OneRetry(c)
  BY CancelViews
<1> HIDE DEF c
<1>2. timer \in OpKinds /\ timer # "write"
  BY DEF OpKinds, TimerKinds
<1>3. /\ t \in ImplType /\ SameFields(c, t)
      /\ \A k \in OpKinds :
            /\ Has(t, k) <=> Has(c, k) \/ k = timer
            /\ k # timer => (InPending(t, k) <=> InPending(c, k))
            /\ k # timer => (InReady(t, k) <=> InReady(c, k))
      /\ InPending(t, timer) /\ (InReady(t, timer) <=> InReady(c, timer))
      /\ IF timer = RT THEN Alarm(t) ELSE Alarm(t) <=> Alarm(c)
      /\ Ordered(t) <=> Ordered(c)
      /\ timer # RT => (OneRetry(t) <=> OneRetry(c))
      /\ timer = RT /\ ~InPending(c, RT) => OneRetry(t)
  BY <1>1, <1>2, StartViews
<1> HIDE DEF t
<1>4. SameFields(s, t)
  BY <1>1, <1>3 DEF SameFields, SameConnection, SameQueue, SameLog, SameVoice
<1>5. QED
  BY <1>1, <1>2, <1>3, <1>4 DEF SetTimer, t, c

\* Resetting the idle timer of a live stream.
LEMMA ResetIdleTimerFlow ==
    ASSUME NEW s \in ImplType, s.stream # "null"
    PROVE  LET t == ResetIdleTimer(s)
           IN  /\ Flows(s, t) /\ SameFields(s, t)
               /\ Base(s) => Base(t)
               /\ Mid(s) => Mid(t)
<1> DEFINE t == ResetIdleTimer(s)
<1>1. "idleTimer" \in TimerKinds /\ "idleTimer" # RT
  BY DEF TimerKinds, RT
<1>2. /\ t \in ImplType /\ SameFields(s, t)
      /\ \A k \in OpKinds :
            /\ k # "idleTimer" => (Has(t, k) <=> Has(s, k))
            /\ k # "idleTimer" => (InPending(t, k) <=> InPending(s, k))
            /\ InReady(t, k) <=> InReady(s, k)
      /\ Has(t, "idleTimer")
      /\ Alarm(t) <=> Alarm(s)
      /\ Ordered(t) <=> Ordered(s)
      /\ OneRetry(s) => OneRetry(t)
  BY <1>1, SetTimerViews DEF ResetIdleTimer
<1> HIDE DEF t
<1>3. Flows(s, t)
  BY <1>2 DEF Flows, SameFields, OpKinds, TimerKinds, ChainKinds
<1>4. QueueInv(s) => QueueInv(t)
  BY <1>2 DEF QueueInv, SameFields, SameQueue, SameLog, OpKinds
<1>5. InPending(t, RT) <=> InPending(s, RT)
  BY <1>2 DEF OpKinds, TimerKinds, RT
<1>6. InReady(t, RT) <=> InReady(s, RT)
  BY <1>2 DEF OpKinds, TimerKinds, RT
<1>7. RetryInv(s) /\ WatchInv(s) => RetryInv(t) /\ WatchInv(t)
  BY <1>2, <1>5, <1>6, QuietFrame DEF SameFields
<1>8. Base(s) => Base(t)
  BY <1>2, <1>4, <1>7 DEF Base, SameFields, SameConnection
<1>9. BracketInv(s) => BracketInv(t)
  BY <1>2 DEF BracketInv, SameFields, SameConnection, SameLog, SameVoice
<1>10. Mid(s) => Mid(t)
  BY <1>2, <1>3, <1>8, <1>9, FlowsVoice DEF Mid, SameFields, SameConnection
<1>11. QED
  BY <1>2, <1>3, <1>8, <1>10 DEF t


\* The front of a queue moves to the end of the log before it.
LEMMA FrontMoves ==
    ASSUME NEW S, NEW x \in Seq(S), NEW q \in Seq(S), q # <<>>
    PROVE  /\ Append(x, Head(q)) \in Seq(S)
           /\ Append(x, Head(q)) \o Tail(q) = x \o q
<1> DEFINE a == Append(x, Head(q))
<1>1. /\ Head(q) \in S /\ Tail(q) \in Seq(S) /\ Len(Tail(q)) = Len(q) - 1
      /\ \A i \in 1..Len(Tail(q)) : Tail(q)[i] = q[i + 1]
      /\ Len(q) \in Nat \ {0} /\ Len(x) \in Nat /\ Head(q) = q[1]
  BY HeadTailProperties, EmptySeq, LenProperties
<1>2. /\ a \in Seq(S) /\ Len(a) = Len(x) + 1 /\ a[Len(x) + 1] = Head(q)
      /\ \A i \in 1..Len(x) : a[i] = x[i]
  BY <1>1, AppendProperties
<1> HIDE DEF a
<1>3. /\ a \o Tail(q) \in Seq(S) /\ Len(a \o Tail(q)) = Len(a) + Len(Tail(q))
      /\ \A i \in 1..Len(a) + Len(Tail(q)) :
            (a \o Tail(q))[i] = IF i <= Len(a) THEN a[i] ELSE Tail(q)[i - Len(a)]
  BY <1>1, <1>2, ConcatProperties
<1>4. /\ x \o q \in Seq(S) /\ Len(x \o q) = Len(x) + Len(q)
      /\ \A i \in 1..Len(x) + Len(q) :
            (x \o q)[i] = IF i <= Len(x) THEN x[i] ELSE q[i - Len(x)]
  BY ConcatProperties
<1>5. Len(a \o Tail(q)) = Len(x \o q)
  BY <1>1, <1>2, <1>3, <1>4
<1>6. ASSUME NEW i \in 1..Len(x \o q) PROVE (a \o Tail(q))[i] = (x \o q)[i]
  <2>1. CASE i <= Len(x)
    BY <1>1, <1>2, <1>3, <1>4, <2>1
  <2>2. CASE i = Len(x) + 1
    BY <1>1, <1>2, <1>3, <1>4, <2>2
  <2>3. CASE i > Len(x) + 1
    <3>1. i - Len(a) \in 1..Len(Tail(q)) /\ (i - Len(a)) + 1 = i - Len(x)
      BY <1>1, <1>2, <1>4, <2>3
    <3>2. QED
      BY <1>1, <1>2, <1>3, <1>4, <2>3, <3>1
  <2>4. i \in Int /\ Len(x) \in Int
    BY <1>1, <1>4
  <2>5. i <= Len(x) \/ i = Len(x) + 1 \/ i > Len(x) + 1
    BY <2>4
  <2>6. QED
    BY <2>1, <2>2, <2>3, <2>5
<1>7. QED
  BY <1>2, <1>3, <1>4, <1>5, <1>6, SeqEqual DEF a

\* Appending to a queue that has a front appends to its tail.
LEMMA TailGrows ==
    ASSUME NEW S, NEW q \in Seq(S), NEW ms \in Seq(S), q # <<>>
    PROVE  /\ q \o ms \in Seq(S) /\ q \o ms # <<>>
           /\ Tail(q) \in Seq(S)
           /\ Tail(q \o ms) = Tail(q) \o ms
<1> DEFINE w == q \o ms
<1>1. /\ Tail(q) \in Seq(S) /\ Len(Tail(q)) = Len(q) - 1
      /\ \A i \in 1..Len(Tail(q)) : Tail(q)[i] = q[i + 1]
      /\ Len(q) \in Nat \ {0} /\ Len(ms) \in Nat
  BY HeadTailProperties, EmptySeq, LenProperties
<1>2. /\ w \in Seq(S) /\ Len(w) = Len(q) + Len(ms)
      /\ \A i \in 1..Len(q) + Len(ms) : w[i] = IF i <= Len(q) THEN q[i] ELSE ms[i - Len(q)]
  BY ConcatProperties
<1>3. w # <<>>
  BY <1>1, <1>2, EmptySeq
<1> HIDE DEF w
<1>4. /\ Tail(w) \in Seq(S) /\ Len(Tail(w)) = Len(w) - 1
      /\ \A i \in 1..Len(Tail(w)) : Tail(w)[i] = w[i + 1]
  BY <1>2, <1>3, HeadTailProperties
<1>5. /\ Tail(q) \o ms \in Seq(S) /\ Len(Tail(q) \o ms) = Len(Tail(q)) + Len(ms)
      /\ \A i \in 1..Len(Tail(q)) + Len(ms) :
            (Tail(q) \o ms)[i] = IF i <= Len(Tail(q)) THEN Tail(q)[i] ELSE ms[i - Len(Tail(q))]
  BY <1>1, ConcatProperties
<1>6. Len(Tail(w)) = Len(Tail(q) \o ms)
  BY <1>1, <1>2, <1>4, <1>5
<1>7. ASSUME NEW i \in 1..Len(Tail(w)) PROVE Tail(w)[i] = (Tail(q) \o ms)[i]
  <2>1. Tail(w)[i] = IF i + 1 <= Len(q) THEN q[i + 1] ELSE ms[(i + 1) - Len(q)]
    BY <1>1, <1>2, <1>4
  <2>2. (i + 1) - Len(q) = i - Len(Tail(q)) /\ (i + 1 <= Len(q) <=> i <= Len(Tail(q)))
    BY <1>1, <1>2, <1>4
  <2>3. i \in 1..Len(Tail(q)) + Len(ms)
    BY <1>1, <1>2, <1>4
  <2>4. QED
    BY <1>1, <1>2, <1>4, <1>5, <2>1, <2>2, <2>3
<1>8. QED
  BY <1>1, <1>2, <1>3, <1>4, <1>5, <1>6, <1>7, SeqEqual DEF w

\* beginWrite on a live stream that has no write outstanding: the front of the
\* queue, if there is one, is handed to async_write.
LEMMA BeginWriteFlow ==
    ASSUME NEW s \in ImplType, s.stream # "null", ~s.shuttingDown =>
               /\ RetryInv(s) /\ WatchInv(s)
               /\ ~Has(s, "write") /\ s.accepted = s.sent \o s.writeQueue
    PROVE  LET t == BeginWrite(s)
           IN  Flows(s, t) /\ Base(t) /\ t.accepted = s.accepted
<1>1. CASE s.writeQueue = <<>>
  <2> DEFINE f == [s EXCEPT !.writeInProgress = FALSE]
  <2>1. /\ f \in ImplType /\ SameConnection(s, f) /\ SameVoice(s, f) /\ SameLog(s, f)
        /\ f.available = s.available /\ f.writeInProgress = FALSE
        /\ f.writeQueue = <<>> /\ f.pending = s.pending /\ f.ready = s.ready
    BY <1>1 DEF ImplType, SameConnection, SameVoice, SameLog
  <2>2. BeginWrite(s) = f
    BY <1>1 DEF BeginWrite
  <2> HIDE DEF f
  <2>3. SameViews(s, f)
    BY <2>1, ViewsFrame DEF SameConnection
  <2>4. Flows(s, f)
    BY <2>1, <2>3 DEF Flows, SameViews, OpKinds, TimerKinds
  <2>5. ~s.shuttingDown => QueueInv(f)
    BY <1>1, <2>1, <2>3 DEF QueueInv, SameLog, SameViews, OpKinds
  <2>6. InPending(f, RT) <=> InPending(s, RT)
    BY <2>3 DEF SameViews, OpKinds, TimerKinds, RT
  <2>7. InReady(f, RT) <=> InReady(s, RT)
    BY <2>3 DEF SameViews, OpKinds, TimerKinds, RT
  <2>8. Has(s, "idleTimer") => Has(f, "idleTimer")
    BY <2>3 DEF SameViews, OpKinds, TimerKinds
  <2>9. ~s.shuttingDown => RetryInv(f) /\ WatchInv(f)
    BY <2>1, <2>3, <2>6, <2>7, <2>8, QuietFrame DEF SameViews
  <2>10. QED
    BY <2>1, <2>2, <2>4, <2>5, <2>9 DEF Base, SameConnection, SameLog
<1>2. CASE s.writeQueue # <<>>
  <2> DEFINE x == Append(s.sent, Head(s.writeQueue))
             b == [s EXCEPT !.writeInProgress = TRUE, !.sent = x]
             t == Start(b, "write")
  <2>1. s.sent \in MessageSeqs /\ s.writeQueue \in MessageSeqs
    BY DEF ImplType
  <2>2. x \in MessageSeqs /\ x \o Tail(s.writeQueue) = s.sent \o s.writeQueue
    BY <1>2, <2>1, FrontMoves DEF MessageSeqs
  <2> HIDE DEF x
  <2>3. /\ b \in ImplType /\ SameConnection(s, b) /\ SameVoice(s, b)
        /\ b.accepted = s.accepted /\ b.sent = x
        /\ b.available = s.available /\ b.writeInProgress = TRUE
        /\ b.writeQueue = s.writeQueue /\ b.pending = s.pending /\ b.ready = s.ready
    BY <2>2 DEF ImplType, SameConnection, SameVoice
  <2>4. BeginWrite(s) = t
    BY <1>2 DEF BeginWrite, x, ImplType
  <2> HIDE DEF b
  <2>5. SameViews(s, b)
    BY <2>3, ViewsFrame DEF SameConnection
  <2>6. "write" \in OpKinds /\ "write" \notin TimerKinds /\ "write" \notin ChainKinds /\ "write" # RT
        /\ "idleTimer" \in OpKinds /\ "voiceTimer" \in OpKinds /\ RT \in OpKinds
        /\ \A k \in ChainKinds : k \in OpKinds
    BY DEF OpKinds, TimerKinds, ChainKinds, RT
  <2>7. /\ t \in ImplType /\ SameFields(b, t)
        /\ \A k \in OpKinds :
              /\ Has(t, k) <=> Has(b, k) \/ k = "write"
              /\ k # "write" => (InPending(t, k) <=> InPending(b, k))
              /\ k # "write" => (InReady(t, k) <=> InReady(b, k))
        /\ Alarm(t) <=> Alarm(b)
        /\ Ordered(t) <=> Ordered(b)
        /\ OneRetry(t) <=> OneRetry(b)
    BY <2>3, <2>6, StartViews
  <2> HIDE DEF t
  <2>8. SameConnection(s, t) /\ SameVoice(s, t) /\ t.available = s.available
    BY <2>3, <2>7 DEF SameFields, SameConnection, SameVoice
  <2>9. Flows(s, t)
    BY <2>5, <2>6, <2>7, <2>8 DEF Flows, SameViews
  <2>10. t.accepted = s.accepted /\ t.sent = x /\ t.writeInProgress /\ t.writeQueue = s.writeQueue
    BY <2>3, <2>7 DEF SameFields, SameLog, SameQueue
  <2>11. ~s.shuttingDown => QueueInv(t)
    BY <2>2, <2>6, <2>7, <2>10 DEF QueueInv
  <2>12. ~s.shuttingDown => RetryInv(t) /\ WatchInv(t)
    BY <2>5, <2>6, <2>7, <2>8, QuietFrame DEF SameViews
  <2>13. QED
    BY <2>4, <2>8, <2>9, <2>10, <2>11, <2>12 DEF Base, SameConnection
<1>3. QED
  BY <1>1, <1>2

\* queueMessage on a live stream: the messages are accepted, behind the others.
LEMMA QueueMessagesFlow ==
    ASSUME NEW s \in ImplType, RecordInv(s), Base(s), NEW ms \in MessageSeqs
    PROVE  LET t == QueueMessages(s, ms)
           IN  /\ Flows(s, t) /\ Base(t)
               /\ t.accepted = IF s.stream = "null" THEN s.accepted ELSE s.accepted \o ms
<1>1. CASE s.stream = "null"
  BY <1>1 DEF QueueMessages, Flows, SameConnection, SameVoice
<1>2. CASE s.stream # "null"
  <2> DEFINE r == ResetIdleTimer(s)
             w == r.writeQueue \o ms
             a == r.accepted \o ms
             q == [r EXCEPT !.writeQueue = w, !.accepted = a]
  <2>1. Flows(s, r) /\ SameFields(s, r) /\ Base(r) /\ r \in ImplType
    BY <1>2, ResetIdleTimerFlow DEF Flows
  <2>2. Continues(s, r)
    BY TimersContinue DEF ResetIdleTimer, TimerKinds
  <2>3. RecordInv(r)
    BY <2>2 DEF Continues
  <2>4. QueueMessages(s, ms) = IF q.writeInProgress THEN q ELSE BeginWrite(q)
    BY <1>2, <2>1 DEF QueueMessages, ImplType
  <2> HIDE DEF r
  <2>5. r.writeQueue \in MessageSeqs /\ r.accepted \in MessageSeqs /\ r.sent \in MessageSeqs
    BY <2>1 DEF ImplType
  <2>6. /\ w \in MessageSeqs /\ a \in MessageSeqs
        /\ (r.sent \o r.writeQueue) \o ms = r.sent \o w
        /\ r.writeQueue # <<>> =>
              /\ w # <<>> /\ Tail(w) = Tail(r.writeQueue) \o ms
              /\ (r.sent \o Tail(r.writeQueue)) \o ms = r.sent \o Tail(w)
    <3>1. /\ r.writeQueue \in Seq(Messages) /\ r.accepted \in Seq(Messages)
          /\ r.sent \in Seq(Messages) /\ ms \in Seq(Messages)
      BY <2>5 DEF MessageSeqs
    <3>a. \A x, y, z \in Seq(Messages) : (x \o y) \o z = x \o (y \o z)
      BY ConcatAssociative
    <3>2. w \in Seq(Messages) /\ a \in Seq(Messages)
      BY <3>1, ConcatProperties
    <3>3. (r.sent \o r.writeQueue) \o ms = r.sent \o w
      BY <3>1, <3>a, Zenon
    <3>4. ASSUME r.writeQueue # <<>>
          PROVE  /\ w # <<>> /\ Tail(w) = Tail(r.writeQueue) \o ms
                 /\ Tail(r.writeQueue) \in Seq(Messages)
      BY <3>1, <3>4, TailGrows
    <3>5. ASSUME r.writeQueue # <<>>
          PROVE  (r.sent \o Tail(r.writeQueue)) \o ms = r.sent \o (Tail(r.writeQueue) \o ms)
      BY <3>1, <3>4, <3>5, <3>a, Zenon
    <3>6. QED
      BY <3>2, <3>3, <3>4, <3>5 DEF MessageSeqs
  <2> HIDE DEF w
  <2>7. /\ q \in ImplType /\ SameConnection(r, q) /\ SameVoice(r, q)
        /\ q.accepted = a /\ q.sent = r.sent
        /\ q.available = r.available /\ q.writeInProgress = r.writeInProgress
        /\ q.writeQueue = w /\ q.pending = r.pending /\ q.ready = r.ready
    BY <2>1, <2>6 DEF ImplType, SameConnection, SameVoice
  <2> HIDE DEF q, a
  <2>8. SameViews(r, q)
    BY <2>7, ViewsFrame DEF SameConnection
  <2>a. "write" \in OpKinds /\ "idleTimer" \in OpKinds /\ "voiceTimer" \in OpKinds
        /\ RT \in OpKinds /\ \A k \in ChainKinds : k \in OpKinds
    BY DEF OpKinds, TimerKinds, ChainKinds, RT
  <2>9. Flows(r, q)
    BY <2>7, <2>8, <2>a DEF Flows, SameViews
  <2>10. ~s.shuttingDown => RetryInv(q) /\ WatchInv(q)
    BY <2>1, <2>7, <2>8, <2>a, QuietFrame DEF Base, SameViews, SameFields, SameConnection
  <2>11. a = s.accepted \o ms
    BY <2>1 DEF SameFields, SameLog, a
  <2>12. CASE q.writeInProgress
    <3>1. r.writeQueue # <<>>
      BY <2>3, <2>7, <2>12 DEF RecordInv, WriterInv
    <3>2. ~s.shuttingDown => r.accepted = r.sent \o Tail(r.writeQueue)
      BY <2>1, <2>7, <2>12 DEF Base, QueueInv, SameFields, SameConnection
    <3>3. ~s.shuttingDown => a = r.sent \o Tail(w)
      BY <2>5, <2>6, <3>1, <3>2 DEF a
    <3>4. ~s.shuttingDown => QueueInv(q)
      BY <2>1, <2>7, <2>8, <2>12, <2>a, <3>3
      DEF QueueInv, Base, SameViews, SameFields, SameConnection
    <3>5. Base(q)
      BY <2>1, <2>7, <2>10, <3>4 DEF Base, SameFields, SameConnection
    <3>6. QED
      BY <1>2, <2>1, <2>4, <2>7, <2>9, <2>11, <2>12, <3>5, FlowsTransitive
  <2>13. CASE ~q.writeInProgress
    <3>1. ~s.shuttingDown => r.accepted = r.sent \o r.writeQueue /\ ~Has(r, "write")
      BY <2>1, <2>7, <2>13 DEF Base, QueueInv, SameFields, SameConnection
    <3>2. ~s.shuttingDown => q.accepted = q.sent \o q.writeQueue /\ ~Has(q, "write")
      BY <2>5, <2>6, <2>7, <2>8, <2>a, <3>1 DEF a, SameViews
    <3>3. q.stream # "null" /\ q.shuttingDown = s.shuttingDown
      BY <1>2, <2>1, <2>7 DEF SameFields, SameConnection
    <3>4. /\ Flows(q, BeginWrite(q)) /\ Base(BeginWrite(q))
          /\ BeginWrite(q).accepted = q.accepted
      BY <2>7, <2>10, <3>2, <3>3, BeginWriteFlow
    <3>5. Flows(s, BeginWrite(q))
      BY <2>1, <2>9, <3>4, FlowsTransitive
    <3>6. QED
      BY <1>2, <2>4, <2>7, <2>11, <2>13, <3>4, <3>5
  <2>14. QED
    BY <2>12, <2>13
<1>3. QED
  BY <1>1, <1>2


-----------------------------------------------------------------------------
(* The log of a stream's messages. *)

\* Messages of no voice session, or of the session that is open, keep the log
\* bracketed.
LEMMA LogGrows ==
    ASSUME NEW log \in MessageSeqs, NEW ms \in MessageSeqs, Bracketed(log),
           \A i \in DOMAIN ms : ms[i].kind \in {"VoicePayload", "VoiceEnd"} =>
               /\ OpenSession(log, ms[i].word)
               /\ \A k \in 1..(i - 1) : ms[k].kind \notin {"VoiceBegin", "VoiceEnd"}
    PROVE  Bracketed(log \o ms)
<1> DEFINE l == log \o ms
           n == Len(log)
<1>1. /\ n \in Nat /\ Len(ms) \in Nat /\ DOMAIN log = 1..n /\ DOMAIN ms = 1..Len(ms)
      /\ DOMAIN l = 1..(n + Len(ms))
      /\ \A i \in 1..n : l[i] = log[i]
      /\ \A i \in (n + 1)..(n + Len(ms)) : l[i] = ms[i - n]
  BY DEF MessageSeqs
<1> HIDE DEF l, n
<1> SUFFICES ASSUME NEW i \in DOMAIN l, l[i].kind \in {"VoicePayload", "VoiceEnd"}
             PROVE  \E j \in 1..(i - 1) :
                       /\ l[j] = Message("VoiceBegin", l[i].word)
                       /\ \A k \in (j + 1)..(i - 1) : l[k].kind \notin {"VoiceBegin", "VoiceEnd"}
  BY DEF Bracketed, l
<1>2. CASE i \in 1..n
  <2>1. PICK j \in 1..(i - 1) :
            /\ log[j] = Message("VoiceBegin", log[i].word)
            /\ \A k \in (j + 1)..(i - 1) : log[k].kind \notin {"VoiceBegin", "VoiceEnd"}
    BY <1>1, <1>2 DEF Bracketed
  <2>2. j \in 1..n /\ \A k \in (j + 1)..(i - 1) : k \in 1..n
    BY <1>1, <1>2, <2>1
  <2>3. QED
    BY <1>1, <1>2, <2>1, <2>2
<1>3. CASE i \in (n + 1)..(n + Len(ms))
  <2> DEFINE h == i - n
  <2>1. h \in DOMAIN ms /\ l[i] = ms[h]
    BY <1>1, <1>3
  <2>2. /\ OpenSession(log, l[i].word)
        /\ \A k \in 1..(h - 1) : ms[k].kind \notin {"VoiceBegin", "VoiceEnd"}
    BY <2>1
  <2>3. PICK j \in DOMAIN log :
            /\ log[j] = Message("VoiceBegin", l[i].word)
            /\ \A k \in (j + 1)..Len(log) : log[k].kind \notin {"VoiceBegin", "VoiceEnd"}
    BY <2>2 DEF OpenSession
  <2>4. j \in 1..(i - 1) /\ l[j] = Message("VoiceBegin", l[i].word)
    BY <1>1, <1>3, <2>3
  <2>5. ASSUME NEW k \in (j + 1)..(i - 1)
        PROVE  l[k].kind \notin {"VoiceBegin", "VoiceEnd"}
    <3>1. CASE k <= n
      BY <1>1, <1>3, <2>3, <2>5, <3>1 DEF n
    <3>2. CASE k > n
      <4>1. k \in (n + 1)..(n + Len(ms)) /\ k - n \in 1..(h - 1)
        BY <1>1, <1>3, <2>3, <2>5, <3>2
      <4>2. QED
        BY <1>1, <2>2, <4>1
    <3>3. k \in Int /\ n \in Int
      BY <1>1, <2>3, <2>5
    <3>4. QED
      BY <3>1, <3>2, <3>3
  <2>6. QED
    BY <2>4, <2>5
<1>4. QED
  BY <1>1, <1>2, <1>3

\* Messages that neither begin nor end a session leave the open one open.
LEMMA SessionStaysOpen ==
    ASSUME NEW log \in MessageSeqs, NEW ms \in MessageSeqs, NEW w, OpenSession(log, w),
           \A i \in DOMAIN ms : ms[i].kind \notin {"VoiceBegin", "VoiceEnd"}
    PROVE  OpenSession(log \o ms, w)
<1> DEFINE l == log \o ms
           n == Len(log)
<1>1. /\ n \in Nat /\ Len(ms) \in Nat /\ DOMAIN log = 1..n /\ DOMAIN ms = 1..Len(ms)
      /\ DOMAIN l = 1..(n + Len(ms)) /\ Len(l) = n + Len(ms)
      /\ \A i \in 1..n : l[i] = log[i]
      /\ \A i \in (n + 1)..(n + Len(ms)) : l[i] = ms[i - n]
  BY DEF MessageSeqs
<1>2. PICK j \in DOMAIN log :
          /\ log[j] = Message("VoiceBegin", w)
          /\ \A k \in (j + 1)..Len(log) : log[k].kind \notin {"VoiceBegin", "VoiceEnd"}
  BY DEF OpenSession
<1> HIDE DEF l
<1>3. j \in DOMAIN l /\ l[j] = Message("VoiceBegin", w)
  BY <1>1, <1>2
<1>4. ASSUME NEW k \in (j + 1)..Len(l)
      PROVE  l[k].kind \notin {"VoiceBegin", "VoiceEnd"}
  <2>1. CASE k <= n
    BY <1>1, <1>2, <1>4, <2>1
  <2>2. CASE k > n
    <3>1. k \in (n + 1)..(n + Len(ms)) /\ k - n \in 1..Len(ms)
      BY <1>1, <1>2, <1>4, <2>2
    <3>2. QED
      BY <1>1, <3>1
  <2>3. k \in Int /\ n \in Int
    BY <1>1, <1>2, <1>4
  <2>4. QED
    BY <2>1, <2>2, <2>3
<1>5. QED
  BY <1>3, <1>4 DEF OpenSession, l

\* A session that has just begun is open.
LEMMA SessionOpens ==
    ASSUME NEW log \in MessageSeqs, NEW w \in Words
    PROVE  OpenSession(log \o <<Message("VoiceBegin", w)>>, w)
<1> DEFINE m == Message("VoiceBegin", w)
           l == log \o <<m>>
           n == Len(log)
<1>1. m \in Messages
  BY MessageType DEF MessageKinds
<1> HIDE DEF m
<1>2. n \in Nat /\ DOMAIN l = 1..(n + 1) /\ Len(l) = n + 1 /\ l[n + 1] = m
  BY <1>1 DEF MessageSeqs
<1> HIDE DEF l, n
<1>3. n + 1 \in DOMAIN l /\ \A k \in ((n + 1) + 1)..Len(l) : FALSE
  BY <1>2
<1>4. QED
  BY <1>2, <1>3 DEF OpenSession, l, m


\* Queueing messages that neither begin nor end a session, and carry voice data
\* for the present session only.
LEMMA QueueMessagesMid ==
    ASSUME NEW s, RecordInv(s), Mid(s), NEW ms \in MessageSeqs,
           \A i \in DOMAIN ms :
               /\ ms[i].kind \notin {"VoiceBegin", "VoiceEnd"}
               /\ ms[i].kind = "VoicePayload" =>
                      s.voiceSessionId # NoSession /\ ms[i].word = s.voiceSessionId
    PROVE  LET t == QueueMessages(s, ms)
           IN  Flows(s, t) /\ Mid(t)
<1> DEFINE t == QueueMessages(s, ms)
<1>1. s \in ImplType /\ s.accepted \in MessageSeqs
  BY DEF RecordInv, ImplType
<1>2. /\ Flows(s, t) /\ Base(t)
      /\ t.accepted = IF s.stream = "null" THEN s.accepted ELSE s.accepted \o ms
  BY <1>1, QueueMessagesFlow DEF Mid
<1> HIDE DEF t
<1>3. BracketInv(t)
  <2>1. /\ Bracketed(s.accepted) /\ t.stream = s.stream /\ t.voiceSessionId = s.voiceSessionId
        /\ s.stream # "null" /\ s.voiceSessionId # NoSession =>
               OpenSession(s.accepted, s.voiceSessionId)
    BY <1>2 DEF Mid, BracketInv, Flows, SameConnection, SameVoice
  <2>2. CASE s.stream = "null"
    BY <1>2, <2>1, <2>2 DEF BracketInv
  <2>3. CASE s.stream # "null"
    <3>1. Bracketed(s.accepted \o ms)
      <4>1. \A i \in DOMAIN ms : \A k \in 1..(i - 1) : k \in DOMAIN ms
        BY DEF MessageSeqs
      <4>2. \A i \in DOMAIN ms : ms[i].kind \in {"VoicePayload", "VoiceEnd"} =>
               OpenSession(s.accepted, ms[i].word)
        BY <2>1, <2>3
      <4>3. QED
        BY <1>1, <2>1, <4>1, <4>2, LogGrows
    <3>2. ASSUME s.voiceSessionId # NoSession
          PROVE  OpenSession(s.accepted \o ms, s.voiceSessionId)
      BY <1>1, <2>1, <2>3, <3>2, SessionStaysOpen
    <3>3. QED
      BY <1>2, <2>1, <2>3, <3>1, <3>2 DEF BracketInv
  <2>4. QED
    BY <2>2, <2>3
<1>4. QED
  BY <1>2, <1>3, FlowsVoice DEF Mid, Flows, SameConnection, t

\* queueMessage of a message that belongs to no voice session.
LEMMA PlainMessageMid ==
    ASSUME NEW s, RecordInv(s), Mid(s), NEW m \in Messages,
           m.kind \notin {"VoiceBegin", "VoicePayload", "VoiceEnd"}
    PROVE  Flows(s, QueueMessage(s, m)) /\ Mid(QueueMessage(s, m))
<1>1. <<m>> \in MessageSeqs /\ \A i \in DOMAIN <<m>> : <<m>>[i] = m
  BY DEF MessageSeqs
<1>2. QED
  BY <1>1, QueueMessagesMid DEF QueueMessage

\* The wait for a voice session ends, with a session or without one.
LEMMA WaitEnds ==
    ASSUME NEW s \in ImplType, NEW session \in Sessions, Base(s)
    PROVE  LET t == [CancelTimer(s, "voiceTimer")
                     EXCEPT !.voiceStarting = FALSE, !.voiceSessionId = session]
           IN  /\ t \in ImplType /\ SameConnection(s, t) /\ SameQueue(s, t) /\ SameLog(s, t)
               /\ t.available = s.available
               /\ t.voiceStarting = FALSE /\ t.voiceSessionId = session
               /\ \A k \in ChainKinds : Has(t, k) <=> Has(s, k)
               /\ Base(t)
<1> DEFINE c == CancelTimer(s, "voiceTimer")
           t == [c EXCEPT !.voiceStarting = FALSE, !.voiceSessionId = session]
<1>1. /\ "voiceTimer" \in TimerKinds /\ "voiceTimer" # RT /\ RT \in OpKinds
      /\ "idleTimer" \in OpKinds /\ "idleTimer" # "voiceTimer" /\ "write" \in OpKinds
      /\ "write" # "voiceTimer" /\ \A k \in ChainKinds : k \in OpKinds /\ k # "voiceTimer"
  BY DEF TimerKinds, RT, OpKinds, ChainKinds
<1>2. /\ c \in ImplType /\ SameFields(s, c)
      /\ \A k \in OpKinds :
            /\ InReady(c, k) <=> InReady(s, k)
            /\ k # "voiceTimer" => (Has(c, k) <=> Has(s, k))
            /\ k # "voiceTimer" => (InPending(c, k) <=> InPending(s, k))
      /\ Has(c, "voiceTimer") => Has(s, "voiceTimer")
      /\ Alarm(c) <=> Alarm(s)
      /\ Ordered(c) <=> Ordered(s)
      /\ OneRetry(s) => OneRetry(c)
  BY <1>1, CancelViews
<1> HIDE DEF c
<1>3. /\ t \in ImplType /\ SameConnection(c, t) /\ SameQueue(c, t) /\ SameLog(c, t)
      /\ t.available = c.available /\ t.pending = c.pending /\ t.ready = c.ready
      /\ t.voiceStarting = FALSE /\ t.voiceSessionId = session
  BY <1>2 DEF ImplType, SameConnection, SameQueue, SameLog
<1> HIDE DEF t
<1>4. SameViews(c, t)
  BY <1>3, ViewsFrame DEF SameConnection
<1>5. /\ SameConnection(s, t) /\ SameQueue(s, t) /\ SameLog(s, t) /\ t.available = s.available
  BY <1>2, <1>3 DEF SameFields, SameConnection, SameQueue, SameLog
<1>6. \A k \in ChainKinds : Has(t, k) <=> Has(s, k)
  BY <1>1, <1>2, <1>4 DEF SameViews
<1>7. QueueInv(s) => QueueInv(t)
  BY <1>1, <1>2, <1>4, <1>5 DEF QueueInv, SameViews, SameQueue, SameLog
<1>8. RetryInv(s) /\ WatchInv(s) => RetryInv(t) /\ WatchInv(t)
  <2>1. /\ InPending(t, RT) <=> InPending(s, RT)
        /\ InReady(t, RT) <=> InReady(s, RT)
        /\ Alarm(s) => Alarm(t)
        /\ Ordered(s) => Ordered(t)
        /\ OneRetry(s) => OneRetry(t)
        /\ Has(s, "idleTimer") => Has(t, "idleTimer")
    BY <1>1, <1>2, <1>4 DEF SameViews
  <2>2. \A k \in OpKinds : Has(t, k) => Has(s, k)
    BY <1>1, <1>2, <1>4 DEF SameViews
  <2>3. QED
    BY <1>5, <2>1, <2>2, QuietFrame
<1>9. QED
  BY <1>3, <1>5, <1>6, <1>7, <1>8 DEF Base, SameConnection, t, c

\* From s to t the stream stays, and what is kept within a handler is kept.
Goes(s, t) ==
    /\ t.generation = s.generation /\ t.stream = s.stream
    /\ t.shuttingDown = s.shuttingDown
    /\ \A k \in ChainKinds : Has(t, k) <=> Has(s, k)
    /\ Mid(t)

\* A flow that keeps the invariant.
LEMMA FlowsGoes ==
    ASSUME NEW s, NEW t, Flows(s, t), Mid(t)
    PROVE  Goes(s, t)
BY DEF Goes, Flows, SameConnection

\* One after another.
LEMMA GoesTransitive ==
    ASSUME NEW s, NEW t, NEW u, Goes(s, t), Goes(t, u)
    PROVE  Goes(s, u)
BY DEF Goes

\* The television has begun a session: the answer opens it.
LEMMA VoiceBegunMid ==
    ASSUME NEW s, RecordInv(s), Mid(s), NEW w \in Words, s.stream # "null"
    PROVE  Goes(s, VoiceBegun(s, w))
<1>1. CASE ~s.voiceStarting
  BY <1>1 DEF VoiceBegun, Goes
<1>2. CASE s.voiceStarting
  <2> DEFINE m == Message("VoiceBegin", w)
             v == [CancelTimer(s, "voiceTimer")
                   EXCEPT !.voiceStarting = FALSE, !.voiceSessionId = w]
             t == QueueMessage(v, m)
  <2>1. s \in ImplType /\ w \in Sessions /\ m \in Messages /\ <<m>> \in MessageSeqs
        /\ m.kind = "VoiceBegin" /\ s.accepted \in MessageSeqs
    BY MessageType DEF RecordInv, Sessions, MessageKinds, MessageSeqs, Message, ImplType
  <2>2. /\ v \in ImplType /\ SameConnection(s, v) /\ SameQueue(s, v) /\ SameLog(s, v)
        /\ v.available = s.available
        /\ v.voiceStarting = FALSE /\ v.voiceSessionId = w
        /\ \A k \in ChainKinds : Has(v, k) <=> Has(s, k)
        /\ Base(v)
    BY <2>1, WaitEnds DEF Mid
  <2>3. RecordInv(v)
    <3> DEFINE r == CancelTimer(s, "voiceTimer")
    <3>1. r \in ImplType /\ RecordInv(r)
      BY <2>1, CancelTimerType, CancelTimerIo
    <3>2. v = [r EXCEPT !.voiceStarting = FALSE, !.voiceSessionId = w]
      OBVIOUS
    <3> HIDE DEF r, v
    <3>3. SameConnection(r, v) /\ SameOps(r, v) /\ SameQueue(r, v)
      BY <3>1, <3>2 DEF ImplType, SameConnection, SameOps, SameQueue
    <3>4. QED
      BY <2>2, <3>1, <3>3, UnseenFields
  <2> HIDE DEF v
  <2>4. Flows(v, t) /\ Base(t) /\ t.accepted = v.accepted \o <<m>>
    BY <2>1, <2>2, <2>3, QueueMessagesFlow DEF QueueMessage, SameConnection
  <2> HIDE DEF t
  <2>5. t.accepted = s.accepted \o <<m>> /\ t.voiceSessionId = w
    BY <2>2, <2>4 DEF SameLog, Flows, SameVoice
  <2>6. Bracketed(s.accepted \o <<m>>)
    <3>1. \A i \in DOMAIN <<m>> : <<m>>[i] = m
      OBVIOUS
    <3>2. Bracketed(s.accepted)
      BY DEF Mid, BracketInv
    <3>3. QED
      BY <2>1, <3>1, <3>2, LogGrows
  <2>7. OpenSession(s.accepted \o <<m>>, w)
    BY <2>1, SessionOpens
  <2>8. BracketInv(t)
    BY <2>5, <2>6, <2>7 DEF BracketInv
  <2>9. ~s.shuttingDown => VoiceInv(v)
    BY <1>2, <2>2 DEF VoiceInv, Mid, SameConnection
  <2>10. Mid(t)
    BY <2>2, <2>4, <2>8, <2>9, FlowsVoice DEF Mid, Flows, SameConnection
  <2>11. Goes(s, t)
    BY <2>2, <2>4, <2>10 DEF Goes, Flows, SameConnection
  <2>12. QED
    BY <1>2, <2>11 DEF VoiceBegun, t, v, m
<1>3. QED
  BY <1>1, <1>2

\* A report that is only remembered.
LEMMA MirrorMid ==
    ASSUME NEW s, RecordInv(s), Mid(s), NEW f \in MirrorFields, NEW w \in Words
    PROVE  LET t == Mirror(s, f, w)
           IN  Goes(s, t) /\ RecordInv(t) /\ t \in ImplType /\ SameFields(s, t)
               /\ t.pending = s.pending /\ t.ready = s.ready
<1> DEFINE t == Mirror(s, f, w)
<1>1. s \in ImplType
  BY DEF RecordInv
<1>2. t \in ImplType
  BY <1>1, MirrorType
<1>3. SameFields(s, t) /\ SameOps(s, t)
  BY <1>1 DEF Mirror, ImplType, SameFields, SameConnection, SameQueue, SameLog, SameVoice, SameOps
<1> HIDE DEF t
<1>4. Flows(s, t) /\ Mid(t)
  BY <1>2, <1>3, UnseenFlow DEF SameOps
<1>5. RecordInv(t)
  BY <1>2, <1>3, UnseenFields DEF SameFields
<1>6. QED
  BY <1>2, <1>3, <1>4, <1>5, FlowsGoes DEF SameOps, t

\* Handling a message of a stream past its handshake.
LEMMA HandleMessageMid ==
    ASSUME NEW s, RecordInv(s), Mid(s), NEW m \in TvMessageType, s.stream # "null",
           ~s.shuttingDown => s.stream = "secure"
    PROVE  Goes(s, HandleMessage(s, m))
<1>1. /\ s \in ImplType
      /\ m.kind \in TvKinds /\ m.word \in Words /\ m.features \in SUBSET Features
  BY DEF TvMessageType, RecordInv
<1>2. Goes(s, s)
  BY DEF Goes
<1>3. \A f \in MirrorFields : Goes(s, Mirror(s, f, m.word))
  BY <1>1, MirrorMid
<1>4. ASSUME NEW kind \in {"ConfigureResponse", "SetActiveResponse", "PingResponse"},
             NEW w \in Words, NEW fs \in SUBSET Features
      PROVE  /\ [Message(kind, w) EXCEPT !.features = fs] \in Messages
             /\ [Message(kind, w) EXCEPT !.features = fs].kind = kind
             /\ Message(kind, w) \in Messages /\ Message(kind, w).kind = kind
  BY MessageType DEF MessageKinds, Message
<1>5. Goes(s, Configure(s, m))
  <2> DEFINE active == s.activeFeatures \cap m.features
             r == Mirror(s, "device", m.word)
             v == "voice" \in active
             t == [r EXCEPT !.activeFeatures = active, !.voiceEnabled = v]
             a == [Message("ConfigureResponse", 0) EXCEPT !.features = active]
  <2>1. active \in SUBSET Features /\ v \in BOOLEAN
    BY <1>1
  <2>2. Goes(s, r) /\ RecordInv(r) /\ r \in ImplType
    BY <1>1, MirrorMid DEF MirrorFields
  <2>3. a \in Messages /\ a.kind = "ConfigureResponse"
    BY <1>4, <2>1, DataAssumption
  <2> HIDE DEF active, r, v, a
  <2>4. t \in ImplType
    BY <2>1, <2>2 DEF ImplType
  <2>5. SameFields(r, t) /\ SameOps(r, t)
    BY <2>2 DEF ImplType, SameFields, SameConnection, SameQueue, SameLog, SameVoice, SameOps
  <2> HIDE DEF t
  <2>6. Flows(r, t) /\ Mid(t) /\ RecordInv(t)
    BY <2>2, <2>4, <2>5, UnseenFlow, UnseenFields DEF SameOps, SameFields, Goes
  <2>7. Flows(t, QueueMessage(t, a)) /\ Mid(QueueMessage(t, a))
    BY <2>3, <2>6, PlainMessageMid
  <2>8. QED
    BY <2>2, <2>6, <2>7, FlowsGoes, GoesTransitive DEF Configure, active, r, v, t, a
<1>6. Goes(s, VoiceBegun(s, m.word))
  BY <1>1, VoiceBegunMid
<1>7. Goes(s, QueueMessage(s, [Message("SetActiveResponse", 0)
                               EXCEPT !.features = s.activeFeatures]))
  <2>1. s.activeFeatures \in SUBSET Features
    BY <1>1 DEF ImplType
  <2>2. QED
    BY <1>4, <2>1, DataAssumption, PlainMessageMid, FlowsGoes
<1>8. Goes(s, QueueMessage(s, Message("PingResponse", m.word)))
  BY <1>1, <1>4, PlainMessageMid, FlowsGoes
<1>9. Goes(s, EmitAvailability(SetState(Mirror(s, "power", m.word), "Connected"), TRUE))
  <2> DEFINE r == Mirror(s, "power", m.word)
             e == EmitAvailability(SetState(r, "Connected"), TRUE)
  <2>1. Goes(s, r) /\ r \in ImplType
    BY <1>1, MirrorMid DEF MirrorFields
  <2> HIDE DEF r
  <2>2. /\ SameQueue(r, e) /\ SameLog(r, e) /\ SameVoice(r, e)
        /\ e.state = "Connected" /\ e.available = TRUE
        /\ e.generation = r.generation /\ e.stream = r.stream
        /\ e.shuttingDown = r.shuttingDown
        /\ e.pending = r.pending /\ e.ready = r.ready
    BY <2>1 DEF EmitAvailability, SetState, ImplType, SameQueue, SameLog, SameVoice
  <2> HIDE DEF e
  <2>3. SameViews(r, e)
    BY <2>2, ViewsFrame
  <2>4. "write" \in OpKinds /\ RT \in OpKinds /\ "idleTimer" \in OpKinds
        /\ "voiceTimer" \in OpKinds /\ \A k \in ChainKinds : k \in OpKinds
    BY DEF OpKinds, TimerKinds, ChainKinds, RT
  <2>5. QueueInv(r) => QueueInv(e)
    BY <2>2, <2>3, <2>4 DEF QueueInv, SameQueue, SameLog, SameViews
  <2>6. RetryInv(r) => RetryInv(e)
    BY <2>2, <2>3, <2>4 DEF RetryInv, SameViews
  <2>7. ~s.shuttingDown /\ WatchInv(r) => WatchInv(e)
    BY <2>1, <2>2, <2>3, <2>4 DEF WatchInv, SameViews, Goes
  <2>8. ~s.shuttingDown /\ VoiceInv(r) => VoiceInv(e)
    BY <2>1, <2>2, <2>3, <2>4 DEF VoiceInv, SameViews, SameVoice, Goes
  <2>9. BracketInv(r) => BracketInv(e)
    BY <2>2 DEF BracketInv, SameLog, SameVoice
  <2>10. Mid(e)
    BY <2>1, <2>2, <2>5, <2>6, <2>7, <2>8, <2>9 DEF Goes, Mid, Base
  <2>11. Goes(s, e)
    BY <2>1, <2>2, <2>3, <2>4, <2>10 DEF Goes, SameViews
  <2>12. QED
    BY <2>11 DEF e, r
<1>10. QED
  BY <1>1, <1>2, <1>3, <1>5, <1>6, <1>7, <1>8, <1>9 DEF HandleMessage, TvKinds, MirrorFields


-----------------------------------------------------------------------------
(* Losing a connection and beginning one. *)

\* What closeStream leaves of a stream.
Emptied(s) ==
    /\ s.stream = "null" /\ ~s.writeInProgress /\ s.writeQueue = <<>>
    /\ s.accepted = <<>> /\ s.sent = <<>>
    /\ ~s.voiceStarting /\ s.voiceSessionId = NoSession

\* Writes and voice of a record without any.
LEMMA EmptyLog ==
    ASSUME NEW s, s.writeQueue = <<>>, ~s.writeInProgress, s.accepted = <<>>, s.sent = <<>>,
           ~s.voiceStarting, s.voiceSessionId = NoSession, ~Has(s, "write")
    PROVE  QueueInv(s) /\ VoiceInv(s) /\ BracketInv(s)
<1>1. <<>> \o <<>> = <<>>
  OBVIOUS
<1>2. QueueInv(s)
  BY <1>1 DEF QueueInv
<1>3. VoiceInv(s)
  BY DEF VoiceInv
<1>4. Bracketed(<<>>)
  BY DEF Bracketed
<1>5. BracketInv(s)
  BY <1>4 DEF BracketInv
<1>6. QED
  BY <1>2, <1>3, <1>5

\* A record without a stream keeps all when its reconnect timer does.
LEMMA EmptiedFlow ==
    ASSUME NEW s, Emptied(s), s.state # "Connected", ~Has(s, "write"),
           ~s.shuttingDown => RetryInv(s)
    PROVE  FlowInv(s)
<1>1. QueueInv(s) /\ VoiceInv(s) /\ BracketInv(s)
  BY EmptyLog DEF Emptied
<1>2. WatchInv(s) /\ ChainInv(s)
  BY DEF WatchInv, ChainInv, Emptied
<1>3. QED
  BY <1>1, <1>2 DEF FlowInv, Mid, Base

\* closeStream, with the fields that the functions after it set.
LEMMA CloseStreamFlow ==
    ASSUME NEW s \in ImplType, Bounded(s)
    PROVE  LET u == CloseStream(s)
           IN  /\ u \in ImplType /\ Emptied(u)
               /\ u.state = s.state /\ u.shuttingDown = s.shuttingDown
               /\ u.userDisconnect = s.userDisconnect /\ u.available = s.available
               /\ \A k \in OpKinds : /\ ~Has(u, k)
                                     /\ InPending(u, k) <=> InPending(s, k)
                                     /\ InReady(u, k) <=> InReady(s, k)
               /\ Alarm(u) <=> Alarm(s)
               /\ Ordered(u)
               /\ OneRetry(u) <=> OneRetry(s)
<1> DEFINE u == CloseStream(s)
<1>1. u \in ImplType
  BY CloseStreamType
<1>2. /\ Emptied(u) /\ u.state = s.state /\ u.shuttingDown = s.shuttingDown
      /\ u.userDisconnect = s.userDisconnect /\ u.available = s.available
  BY DEF CloseStream, ForgetWrites, ForgetVoice, InvalidateHandlers, ImplType, Emptied
<1>3. QED
  BY <1>1, <1>2, CloseViews

\* A closed record whose state is set to Disconnected.
LEMMA DisconnectedFlow ==
    ASSUME NEW s \in ImplType, NEW t, Bounded(s), ~s.shuttingDown => RetryInv(s),
           LET u == CloseStream(s)
           IN  /\ Emptied(t) /\ t.state = "Disconnected" /\ t.shuttingDown = s.shuttingDown
               /\ t.pending = u.pending /\ t.ready = u.ready /\ t.generation = u.generation
    PROVE  FlowInv(t)
<1> DEFINE u == CloseStream(s)
<1>1. /\ \A k \in OpKinds : /\ ~Has(u, k)
                            /\ InPending(u, k) <=> InPending(s, k)
                            /\ InReady(u, k) <=> InReady(s, k)
      /\ Ordered(u)
      /\ OneRetry(u) <=> OneRetry(s)
  BY CloseStreamFlow
<1>2. SameViews(u, t)
  BY ViewsFrame
<1> HIDE DEF u
<1>3. "write" \in OpKinds /\ RT \in OpKinds
  BY DEF OpKinds, TimerKinds, RT
<1>4. ~Has(t, "write")
  BY <1>1, <1>2, <1>3 DEF SameViews
<1>5. ~s.shuttingDown => RetryInv(t)
  BY <1>1, <1>2, <1>3 DEF RetryInv, SameViews, Emptied
<1>6. QED
  BY <1>4, <1>5, EmptiedFlow

\* handleConnectionLoss schedules a retry or leaves the object Disconnected.
LEMMA HandleConnectionLossFlow ==
    ASSUME NEW s, RecordInv(s), NEW gen, gen = s.generation,
           ~s.shuttingDown => RetryInv(s) /\ ~InReady(s, RT)
    PROVE  FlowInv(HandleConnectionLoss(s, gen))
<1> DEFINE u == CloseStream(s)
           c == AnnounceLoss(u)
           d == SetState(c, "Disconnected")
           r == SetState(c, "Reconnecting")
           w == SetTimer(r, RT)
           t == ScheduleReconnect(r)
<1>1. s \in ImplType /\ Bounded(s)
  BY DEF RecordInv, IoInv
<1>2. /\ u \in ImplType /\ Emptied(u) /\ u.shuttingDown = s.shuttingDown
      /\ \A k \in OpKinds : ~Has(u, k) /\ (InReady(u, k) <=> InReady(s, k))
      /\ Ordered(u)
  BY <1>1, CloseStreamFlow
<1>3. \A x \in {d, r} : /\ x \in ImplType /\ Emptied(x) /\ x.shuttingDown = s.shuttingDown
                        /\ x.pending = u.pending /\ x.ready = u.ready
                        /\ x.generation = u.generation
  <2> HIDE DEF u
  <2>1. /\ c \in ImplType /\ Emptied(c) /\ c.shuttingDown = s.shuttingDown
        /\ c.pending = u.pending /\ c.ready = u.ready /\ c.generation = u.generation
    BY <1>2 DEF AnnounceLoss, EmitAvailability, Emptied, ImplType
  <2> HIDE DEF c
  <2>2. QED
    BY <2>1 DEF SetState, Emptied, ImplType, States
<1>4. d.state = "Disconnected" /\ r.state = "Reconnecting"
  <2>1. c \in ImplType
    BY <1>2, ZenonT(30) DEF AnnounceLoss, EmitAvailability, ImplType
  <2> HIDE DEF c
  <2>2. QED
    BY <2>1 DEF SetState, ImplType
<1>5. FlowInv(d)
  <2> HIDE DEF d
  <2>1. QED
    BY <1>1, <1>3, <1>4, DisconnectedFlow
<1>6. FlowInv(t)
  <2> HIDE DEF d, r, u, c
  <2>1. SameViews(u, r)
    BY <1>3, ViewsFrame
  <2>2. RT \in TimerKinds /\ RT \in OpKinds /\ "write" \in OpKinds /\ "write" # RT
    BY DEF OpKinds, TimerKinds, RT
  <2>3. /\ w \in ImplType /\ SameFields(r, w)
        /\ \A k \in OpKinds :
              /\ k # RT => (Has(w, k) <=> Has(r, k))
              /\ InReady(w, k) <=> InReady(r, k)
        /\ Alarm(w) /\ OneRetry(w)
        /\ Ordered(w) <=> Ordered(r)
    BY <1>3, <2>2, SetTimerViews
  <2> HIDE DEF w
  <2>4. /\ SameFields(w, t) /\ t.pending = w.pending /\ t.ready = w.ready
        /\ t.generation = w.generation
    BY <2>3 DEF ScheduleReconnect, ImplType, SameFields, SameConnection, SameQueue, SameLog,
                SameVoice, w, RT
  <2> HIDE DEF t
  <2>5. SameViews(w, t)
    BY <2>4, ViewsFrame
  <2>6. Emptied(t) /\ t.state = "Reconnecting" /\ t.shuttingDown = s.shuttingDown
    BY <1>3, <1>4, <2>3, <2>4
    DEF Emptied, SameFields, SameConnection, SameQueue, SameLog, SameVoice
  <2>7. \A k \in OpKinds : Has(t, k) => k = RT
    BY <1>2, <2>1, <2>3, <2>5 DEF SameViews
  <2>8. Alarm(t) /\ OneRetry(t) /\ Ordered(t)
    BY <1>2, <2>1, <2>3, <2>5 DEF SameViews
  <2>9. ~s.shuttingDown => ~InReady(t, RT)
    BY <1>2, <2>1, <2>2, <2>3, <2>5 DEF SameViews
  <2>10. ~s.shuttingDown => RetryInv(t)
    BY <2>6, <2>7, <2>8, <2>9 DEF RetryInv, Emptied
  <2>11. QED
    BY <2>2, <2>6, <2>7, <2>10, EmptiedFlow
<1>7. QED
  BY <1>5, <1>6 DEF HandleConnectionLoss, u, c, d, r, t

\* A failure of the present stream: the functions that handle it do so unless
\* the destructor runs.
LEMMA FailureFlow ==
    ASSUME NEW s, RecordInv(s), NEW gen, gen = s.generation, s.stream # "null", BracketInv(s),
           ~s.shuttingDown => RetryInv(s) /\ ~InReady(s, RT)
    PROVE  FlowInv(ConnectionFailed(s, gen)) /\ FlowInv(AuthenticationFailed(s, gen))
<1>1. CASE ~MayConnect(s)
  <2>1. s.shuttingDown
    BY <1>1 DEF MayConnect, RecordInv, StateInv
  <2>2. FlowInv(s)
    BY <2>1 DEF FlowInv, Mid, Base
  <2>3. QED
    BY <1>1, <2>2 DEF ConnectionFailed, AuthenticationFailed
<1>2. CASE MayConnect(s)
  <2> DEFINE u == CloseStream(s)
             c == SetState(u, "Disconnected")
             e == EmitAvailability(c, FALSE)
  <2>1. FlowInv(HandleConnectionLoss(s, gen))
    BY HandleConnectionLossFlow
  <2>2. s \in ImplType /\ Bounded(s)
    BY DEF RecordInv, IoInv
  <2>3. u \in ImplType /\ Emptied(u) /\ u.shuttingDown = s.shuttingDown
    BY <2>2, CloseStreamFlow
  <2>4. /\ c \in ImplType /\ Emptied(c) /\ c.state = "Disconnected"
        /\ c.shuttingDown = s.shuttingDown
        /\ c.pending = u.pending /\ c.ready = u.ready /\ c.generation = u.generation
    <3> HIDE DEF u
    <3>1. QED
      BY <2>3 DEF SetState, Emptied, ImplType, States
  <2>5. /\ Emptied(e) /\ e.state = "Disconnected"
        /\ e.shuttingDown = s.shuttingDown
        /\ e.pending = u.pending /\ e.ready = u.ready /\ e.generation = u.generation
    <3> HIDE DEF c, u
    <3>1. QED
      BY <2>4 DEF EmitAvailability, Emptied, ImplType
  <2> HIDE DEF c, e
  <2>6. FlowInv(c) /\ FlowInv(e)
    BY <2>2, <2>4, <2>5, DisconnectedFlow
  <2>7. QED
    BY <1>2, <2>1, <2>6 DEF ConnectionFailed, AuthenticationFailed, c, e, u
<1>3. QED
  BY <1>1, <1>2

\* beginConnect, when no reconnect timer is waiting: a fresh stream with one
\* resolution under way, or no stream.
LEMMA BeginConnectFlow ==
    ASSUME NEW s \in ImplType, Bounded(s), MayConnect(s), ~InPending(s, RT),
           NEW reconnecting \in BOOLEAN, NEW loadable \in BOOLEAN
    PROVE  FlowInv(BeginConnect(s, reconnecting, loadable))
<1> DEFINE u == CloseStream(s)
           c == EnsureSslContext(u, loadable)
           state == IF reconnecting THEN "Reconnecting" ELSE "Connecting"
           d == SetState(c, "Disconnected")
           o == [SetState(c, state) EXCEPT !.stream = "opened"]
           t == Start(o, "resolve")
<1>1. /\ u \in ImplType /\ Emptied(u)
      /\ \A k \in OpKinds : /\ ~Has(u, k)
                            /\ InPending(u, k) <=> InPending(s, k)
      /\ Ordered(u)
  BY CloseStreamFlow
<1> HIDE DEF u
<1>2. /\ c \in ImplType /\ Emptied(c)
      /\ c.pending = u.pending /\ c.ready = u.ready /\ c.generation = u.generation
  BY <1>1 DEF EnsureSslContext, Emptied, ImplType
<1> HIDE DEF c
<1>3. /\ d \in ImplType /\ Emptied(d) /\ d.state = "Disconnected"
      /\ d.pending = u.pending /\ d.ready = u.ready /\ d.generation = u.generation
  BY <1>2 DEF SetState, Emptied, ImplType, States
<1>4. /\ o \in ImplType /\ o.stream = "opened" /\ o.state = state
      /\ ~o.writeInProgress /\ o.writeQueue = <<>> /\ o.accepted = <<>> /\ o.sent = <<>>
      /\ ~o.voiceStarting /\ o.voiceSessionId = NoSession
      /\ o.pending = u.pending /\ o.ready = u.ready /\ o.generation = u.generation
  BY <1>2 DEF SetState, Emptied, ImplType, States
<1> HIDE DEF d, o
<1>5. RT \in OpKinds /\ "write" \in OpKinds /\ "resolve" \in OpKinds /\ "resolve" # RT
      /\ "resolve" # "write"
  BY DEF OpKinds, TimerKinds, ChainKinds, RT
<1>6. FlowInv(d)
  <2>1. SameViews(u, d)
    BY <1>3, ViewsFrame
  <2>2. ~Has(d, "write") /\ RetryInv(d)
    BY <1>1, <1>3, <1>5, <2>1 DEF SameViews, RetryInv, Emptied
  <2>3. QED
    BY <1>3, <2>2, EmptiedFlow
<1>7. FlowInv(t)
  <2>1. SameViews(u, o)
    BY <1>4, ViewsFrame
  <2>2. /\ SameFields(o, t)
        /\ \A k \in OpKinds :
              /\ Has(t, k) <=> Has(o, k) \/ k = "resolve"
              /\ k # "resolve" => (InPending(t, k) <=> InPending(o, k))
        /\ Ordered(t) <=> Ordered(o)
    BY <1>4, <1>5, StartViews
  <2> HIDE DEF t, state
  <2>3. /\ t.stream = "opened" /\ t.state = state
        /\ ~t.writeInProgress /\ t.writeQueue = <<>> /\ t.accepted = <<>> /\ t.sent = <<>>
        /\ ~t.voiceStarting /\ t.voiceSessionId = NoSession
    BY <1>4, <2>2 DEF SameFields, SameConnection, SameQueue, SameLog, SameVoice
  <2>4. ~InPending(t, RT) /\ ~Has(t, "write") /\ Has(t, "resolve") /\ Ordered(t)
    BY <1>1, <1>5, <2>1, <2>2 DEF SameViews
  <2>5. QueueInv(t) /\ VoiceInv(t) /\ BracketInv(t)
    BY <2>3, <2>4, EmptyLog
  <2>6. RetryInv(t)
    BY <2>3, <2>4 DEF RetryInv
  <2>7. WatchInv(t)
    BY <2>3 DEF WatchInv, state
  <2>8. ChainInv(t)
    BY <2>3, <2>4 DEF ChainInv, ChainOf
  <2>9. QED
    BY <2>5, <2>6, <2>7, <2>8 DEF FlowInv, Mid, Base
<1>8. QED
  BY <1>6, <1>7 DEF BeginConnect, u, c, d, o, t


-----------------------------------------------------------------------------
(* The completion handlers. *)

Ours(s, c) == c.op.gen = s.generation

\* What is left of the invariant once handler c is out of the queue: c's own
\* share is missing.
Left(s, c) ==
    /\ BracketInv(s)
    /\ ~s.shuttingDown =>
         /\ c.op.kind # RT \/ s.state # "Reconnecting" => RetryInv(s)
         /\ c.op.kind = RT => ~InPending(s, RT)
         /\ Ours(s, c) /\ c.op.kind # RT => ~InReady(s, RT)
         /\ ~(Ours(s, c) /\ c.op.kind = "idleTimer") => WatchInv(s)
         /\ c.op.kind # "voiceTimer" => VoiceInv(s)
         /\ s.voiceSessionId # NoSession => s.stream = "secure" /\ s.state = "Connected"
         /\ ~(Ours(s, c) /\ c.op.kind = "write") => QueueInv(s)
         /\ Ours(s, c) /\ c.op.kind = "write" =>
               /\ ~Has(s, "write") /\ s.writeInProgress
               /\ s.accepted = s.sent \o Tail(s.writeQueue)
         /\ IF Ours(s, c) /\ c.op.kind \in ChainKinds
            THEN c.op.kind \in ChainOf(s.stream) ELSE ChainInv(s)

\* The chain of the present generation has one operation.
LEMMA ChainOne ==
    ASSUME NEW s, RecordInv(s), NEW k \in ChainKinds, NEW l \in ChainKinds, Has(s, k), Has(s, l)
    PROVE  k = l
<1>1. s \in ImplType /\ Unique(s)
  BY DEF RecordInv, IoInv
<1>2. Compete(k, l) /\ Compete(l, k)
  BY DEF Compete
<1>3. QED
  BY <1>1, <1>2 DEF Has, Unique, Rivals

\* Taking the first handler out of the queue.
LEMMA TakenLeft ==
    ASSUME NEW s, RecordInv(s), FlowInv(s), s.ready # <<>>
    PROVE  LET t == [s EXCEPT !.ready = Tail(@)]
               c == Head(s.ready)
           IN  Left(t, c)
<1> DEFINE t == [s EXCEPT !.ready = Tail(@)]
           c == Head(s.ready)
<1>1. s \in ImplType
  BY DEF RecordInv
<1>2. /\ SameFields(s, t) /\ c \in Completions /\ c.op.kind \in OpKinds
      /\ \A k \in OpKinds :
            /\ Has(s, k) <=> Has(t, k) \/ (c.op.gen = s.generation /\ c.op.kind = k)
            /\ InPending(t, k) <=> InPending(s, k)
            /\ InReady(s, k) <=> InReady(t, k) \/ c.op.kind = k
      /\ c.op.kind # RT => (Alarm(t) <=> Alarm(s))
      /\ Ordered(s) => Ordered(t)
      /\ Ordered(s) /\ c.op.gen = s.generation /\ c.op.kind # RT => ~InReady(t, RT)
      /\ OneRetry(t) <=> OneRetry(s)
  BY <1>1, TakenViews
<1>3. RecordInv(t) /\ Served(t, c)
  BY TakenInv DEF Good
<1> HIDE DEF t, c
<1>4. /\ t.generation = s.generation /\ t.stream = s.stream /\ t.state = s.state
      /\ t.shuttingDown = s.shuttingDown /\ t.available = s.available
      /\ SameLog(s, t) /\ SameVoice(s, t) /\ SameQueue(s, t)
  BY <1>2 DEF SameFields, SameConnection
<1>5. BracketInv(t)
  BY <1>4 DEF FlowInv, Mid, BracketInv, SameLog, SameVoice
<1>6. RT \in OpKinds /\ "write" \in OpKinds /\ "idleTimer" \in OpKinds
      /\ "voiceTimer" \in OpKinds /\ \A k \in ChainKinds : k \in OpKinds
  BY DEF OpKinds, TimerKinds, ChainKinds, RT
<1> SUFFICES ASSUME ~s.shuttingDown
             PROVE  /\ c.op.kind # RT \/ t.state # "Reconnecting" => RetryInv(t)
                    /\ c.op.kind = RT => ~InPending(t, RT)
                    /\ Ours(t, c) /\ c.op.kind # RT => ~InReady(t, RT)
                    /\ ~(Ours(t, c) /\ c.op.kind = "idleTimer") => WatchInv(t)
                    /\ c.op.kind # "voiceTimer" => VoiceInv(t)
                    /\ t.voiceSessionId # NoSession => t.stream = "secure" /\ t.state = "Connected"
                    /\ ~(Ours(t, c) /\ c.op.kind = "write") => QueueInv(t)
                    /\ Ours(t, c) /\ c.op.kind = "write" =>
                          /\ ~Has(t, "write") /\ t.writeInProgress
                          /\ t.accepted = t.sent \o Tail(t.writeQueue)
                    /\ IF Ours(t, c) /\ c.op.kind \in ChainKinds
                       THEN c.op.kind \in ChainOf(t.stream) ELSE ChainInv(t)
  BY <1>4, <1>5 DEF Left, t, c
<1>7. QueueInv(s) /\ RetryInv(s) /\ WatchInv(s) /\ VoiceInv(s) /\ ChainInv(s)
  BY DEF FlowInv, Mid, Base
<1>8. c.op.kind # RT \/ t.state # "Reconnecting" => RetryInv(t)
  BY <1>2, <1>4, <1>6, <1>7 DEF RetryInv
<1>9. c.op.kind = RT => ~InPending(t, RT)
  BY <1>2, <1>6, <1>7 DEF RetryInv
<1>10. Ours(t, c) /\ c.op.kind # RT => ~InReady(t, RT)
  BY <1>2, <1>4, <1>7 DEF RetryInv, Ours
<1>11. ~(Ours(t, c) /\ c.op.kind = "idleTimer") => WatchInv(t)
  BY <1>2, <1>4, <1>6, <1>7 DEF WatchInv, Ours
<1>12. c.op.kind # "voiceTimer" => VoiceInv(t)
  BY <1>2, <1>4, <1>6, <1>7 DEF VoiceInv, SameVoice
<1>a. t.voiceSessionId # NoSession => t.stream = "secure" /\ t.state = "Connected"
  BY <1>4, <1>7 DEF VoiceInv, SameVoice
<1>13. ~(Ours(t, c) /\ c.op.kind = "write") => QueueInv(t)
  BY <1>2, <1>4, <1>6, <1>7 DEF QueueInv, Ours, SameLog, SameQueue
<1>14. ASSUME Ours(t, c), c.op.kind = "write"
       PROVE  /\ ~Has(t, "write") /\ t.writeInProgress
              /\ t.accepted = t.sent \o Tail(t.writeQueue)
  <2>1. Has(s, "write")
    BY <1>2, <1>4, <1>6, <1>14 DEF Ours
  <2>2. Free(t, "write")
    BY <1>3, <1>14 DEF Served, Ours, Compete, OpKinds, TimerKinds
  <2>3. ~Has(t, "write")
    BY <2>2 DEF Free, Occupies, Has, Compete
  <2>4. QED
    BY <1>4, <1>7, <2>1, <2>3 DEF QueueInv, SameLog, SameQueue
<1>15. IF Ours(t, c) /\ c.op.kind \in ChainKinds
       THEN c.op.kind \in ChainOf(t.stream) ELSE ChainInv(t)
  <2>1. CASE Ours(t, c) /\ c.op.kind \in ChainKinds
    <3>1. Has(s, c.op.kind) /\ t.stream # "null"
      BY <1>2, <1>3, <1>4, <2>1 DEF Ours, Served, ChainKinds, TimerKinds
    <3>2. PICK k \in ChainOf(s.stream) : Has(s, k)
      BY <1>4, <1>7, <3>1 DEF ChainInv
    <3>3. k \in ChainKinds
      BY <1>1, StreamChain
    <3>4. k = c.op.kind
      BY <2>1, <3>1, <3>2, <3>3, ChainOne
    <3>5. QED
      BY <1>4, <2>1, <3>2, <3>4
  <2>2. CASE ~(Ours(t, c) /\ c.op.kind \in ChainKinds)
    <3>1. ChainOf(s.stream) \subseteq ChainKinds /\ ChainOf(s.stream) \subseteq OpKinds
      BY <1>1, StreamChain
    <3>2. ChainInv(t)
      BY <1>2, <1>4, <1>7, <2>2, <3>1 DEF ChainInv, Ours
    <3>3. QED
      BY <2>2, <3>2
  <2>3. QED
    BY <2>1, <2>2
<1>16. QED
  BY <1>8, <1>9, <1>10, <1>11, <1>12, <1>a, <1>13, <1>14, <1>15

\* A stale completion other than of the two timers that do not check changes
\* nothing.
LEMMA StaleFlow ==
    ASSUME NEW s, NEW c, Left(s, c), ~Ours(s, c), c.op.kind \notin {RT, "voiceTimer"}
    PROVE  FlowInv(s)
BY DEF Left, FlowInv, Mid, Base

\* A completion of the chain of the present stream leaves all but the chain.
LEMMA ChainLeft ==
    ASSUME NEW s \in ImplType, NEW c, Left(s, c), Ours(s, c), c.op.kind \in ChainKinds
    PROVE  Mid(s) /\ (~s.shuttingDown => c.op.kind \in ChainOf(s.stream) /\ ~InReady(s, RT))
<1>1. c.op.kind \notin {RT, "voiceTimer", "idleTimer", "write"}
  BY DEF ChainKinds, RT
<1>2. QED
  BY <1>1 DEF Left, Mid, Base

\* The next operation of the chain completes the invariant.
LEMMA ChainStartFlow ==
    ASSUME NEW s \in ImplType, Mid(s), NEW kind \in ChainKinds, s.stream # "null",
           ~s.shuttingDown => kind \in ChainOf(s.stream)
    PROVE  FlowInv(Start(s, kind))
<1> DEFINE t == Start(s, kind)
<1>1. /\ kind \in OpKinds /\ kind \notin {RT, "voiceTimer", "idleTimer", "write"}
      /\ RT \in OpKinds /\ "write" \in OpKinds /\ "idleTimer" \in OpKinds
      /\ "voiceTimer" \in OpKinds
  BY DEF OpKinds, TimerKinds, ChainKinds, RT
<1>2. /\ t \in ImplType /\ SameFields(s, t)
      /\ \A k \in OpKinds :
            /\ Has(t, k) <=> Has(s, k) \/ k = kind
            /\ k # kind => (InPending(t, k) <=> InPending(s, k))
            /\ k # kind => (InReady(t, k) <=> InReady(s, k))
      /\ Alarm(t) <=> Alarm(s)
      /\ Ordered(t) <=> Ordered(s)
      /\ OneRetry(t) <=> OneRetry(s)
  BY <1>1, StartViews
<1> HIDE DEF t
<1>3. QueueInv(s) => QueueInv(t)
  BY <1>1, <1>2 DEF QueueInv, SameFields, SameQueue, SameLog
<1>4. RetryInv(s) /\ WatchInv(s) => RetryInv(t) /\ WatchInv(t)
  BY <1>1, <1>2, QuietFrame DEF SameFields
<1>5. VoiceInv(s) => VoiceInv(t)
  BY <1>1, <1>2 DEF VoiceInv, SameFields, SameConnection, SameVoice
<1>6. BracketInv(s) => BracketInv(t)
  BY <1>2 DEF BracketInv, SameFields, SameConnection, SameLog, SameVoice
<1>7. ~t.shuttingDown => ChainInv(t)
  BY <1>1, <1>2 DEF ChainInv, SameFields, SameConnection
<1>8. QED
  BY <1>2, <1>3, <1>4, <1>5, <1>6, <1>7
  DEF FlowInv, Mid, Base, SameFields, SameConnection, t

\* The next read of a stream past its handshake.
LEMMA ReadFlow ==
    ASSUME NEW s \in ImplType, Mid(s), NEW gen, gen = s.generation, s.stream # "null",
           ~s.shuttingDown => s.stream = "secure"
    PROVE  FlowInv(ReadOneLengthByte(s, gen)) /\ FlowInv(BeginReadLength(s, gen))
<1> DEFINE z == [s EXCEPT !.readShift = 0]
<1>1. ASSUME NEW t \in ImplType, Mid(t), gen = t.generation, t.stream # "null",
             ~t.shuttingDown => t.stream = "secure"
      PROVE  FlowInv(ReadOneLengthByte(t, gen))
  <2>1. "readLength" \in ChainKinds /\ (~t.shuttingDown => "readLength" \in ChainOf(t.stream))
    BY <1>1 DEF ChainKinds, ChainOf
  <2>2. QED
    BY <1>1, <2>1, ChainStartFlow DEF ReadOneLengthByte
<1>2. z \in ImplType /\ SameFields(s, z) /\ z.pending = s.pending /\ z.ready = s.ready
  BY DEF ImplType, SameFields, SameConnection, SameQueue, SameLog, SameVoice
<1> HIDE DEF z
<1>3. Mid(z)
  BY <1>2, UnseenFlow
<1>4. FlowInv(ReadOneLengthByte(z, gen))
  BY <1>1, <1>2, <1>3 DEF SameFields, SameConnection
<1>5. QED
  BY <1>1, <1>4 DEF BeginReadLength, z


\* The handlers of one attempt, up to the first read.
LEMMA AttemptHandlersFlow ==
    ASSUME NEW s, RecordInv(s), NEW c \in Completions, Served(s, c), Left(s, c)
    PROVE  /\ c.op.kind = "resolve"   => FlowInv(ResolveDone(s, c))
           /\ c.op.kind = "connect"   => FlowInv(ConnectDone(s, c))
           /\ c.op.kind = "handshake" => FlowInv(HandshakeDone(s, c))
<1>1. s \in ImplType
  BY DEF RecordInv
<1>2. ASSUME c.op.kind \in ChainKinds, ~Ours(s, c) PROVE FlowInv(s)
  BY <1>2, StaleFlow DEF ChainKinds, RT
<1>3. ASSUME c.op.kind \in ChainKinds, Ours(s, c)
      PROVE  /\ s.stream # "null" /\ Mid(s)
             /\ ~s.shuttingDown => c.op.kind \in ChainOf(s.stream) /\ ~InReady(s, RT)
             /\ FlowInv(ConnectionFailed(s, c.op.gen))
             /\ FlowInv(AuthenticationFailed(s, c.op.gen))
  <2>1. s.stream # "null"
    BY <1>3 DEF Served, Ours, ChainKinds, TimerKinds
  <2>2. Mid(s) /\ (~s.shuttingDown => c.op.kind \in ChainOf(s.stream) /\ ~InReady(s, RT))
    BY <1>1, <1>3, ChainLeft
  <2>3. c.op.gen = s.generation
    BY <1>3 DEF Ours
  <2>4. QED
    BY <2>1, <2>2, <2>3, FailureFlow DEF Mid, Base
<1>4. /\ ChainOf("opened") = {"resolve", "connect"} /\ ChainOf("handshaking") = {"handshake"}
      /\ ChainOf("secure") = {"readLength", "readBody"} /\ ChainOf("null") = {}
      /\ s.stream \in {"null", "opened", "handshaking", "secure"}
  BY <1>1 DEF ChainOf, ImplType
<1>5. ASSUME c.op.kind = "resolve" PROVE FlowInv(ResolveDone(s, c))
  <2>1. CASE Ours(s, c)
    <3>1. c.op.kind \in ChainKinds /\ "connect" \in ChainKinds
      BY <1>5 DEF ChainKinds
    <3>2. ~s.shuttingDown => "connect" \in ChainOf(s.stream)
      BY <1>3, <1>4, <1>5, <2>1, <3>1
    <3>3. FlowInv(Start(s, "connect"))
      BY <1>1, <1>3, <2>1, <3>1, <3>2, ChainStartFlow
    <3>4. QED
      BY <1>3, <2>1, <3>1, <3>3 DEF ResolveDone, Ours
  <2>2. CASE ~Ours(s, c)
    BY <1>2, <1>5, <2>2 DEF ResolveDone, Ours, ChainKinds
  <2>3. QED
    BY <2>1, <2>2
<1>6. ASSUME c.op.kind = "connect" PROVE FlowInv(ConnectDone(s, c))
  <2> DEFINE t == [s EXCEPT !.stream = "handshaking"]
  <2>1. CASE Ours(s, c)
    <3>1. c.op.kind \in ChainKinds
      BY <1>6 DEF ChainKinds
    <3>2. /\ s.stream # "null" /\ Mid(s)
          /\ ~s.shuttingDown => s.stream = "opened" /\ ~InReady(s, RT)
      BY <1>3, <1>4, <1>6, <2>1, <3>1
    <3>3. /\ t \in ImplType /\ SameQueue(s, t) /\ SameLog(s, t) /\ SameVoice(s, t)
          /\ t.stream = "handshaking" /\ t.generation = s.generation /\ t.state = s.state
          /\ t.shuttingDown = s.shuttingDown /\ t.available = s.available
          /\ t.pending = s.pending /\ t.ready = s.ready
      BY <1>1 DEF ImplType, SameQueue, SameLog, SameVoice
    <3> HIDE DEF t
    <3>4. SameViews(s, t)
      BY <3>3, ViewsFrame
    <3>5. RT \in OpKinds /\ "write" \in OpKinds
      BY DEF OpKinds, TimerKinds, RT
    <3>6. BracketInv(t)
      BY <3>2, <3>3 DEF Mid, BracketInv, SameLog, SameVoice
    <3>7. ~s.shuttingDown => QueueInv(t)
      BY <3>2, <3>3, <3>4, <3>5 DEF Mid, Base, QueueInv, SameQueue, SameLog, SameViews
    <3>8. ~s.shuttingDown => RetryInv(t)
      BY <3>2, <3>3, <3>4, <3>5 DEF Mid, Base, RetryInv, SameViews
    <3>9. ~s.shuttingDown => WatchInv(t) /\ VoiceInv(t)
      BY <3>2, <3>3 DEF Mid, Base, WatchInv, VoiceInv, SameVoice
    <3>10. Mid(t)
      BY <3>3, <3>6, <3>7, <3>8, <3>9 DEF Mid, Base
    <3>11. FlowInv(Start(t, "handshake"))
      BY <1>4, <3>3, <3>10, ChainStartFlow DEF ChainKinds
    <3>12. QED
      BY <1>3, <2>1, <3>1, <3>11 DEF ConnectDone, Ours, t
  <2>2. CASE ~Ours(s, c)
    BY <1>2, <1>6, <2>2 DEF ConnectDone, Ours, ChainKinds
  <2>3. QED
    BY <2>1, <2>2
<1>7. ASSUME c.op.kind = "handshake" PROVE FlowInv(HandshakeDone(s, c))
  <2> DEFINE z == [s EXCEPT !.stream = "secure", !.reconnectDelay = MinDelay, !.readShift = 0]
             r == Start(z, "readLength")
             t == SetTimer(r, "idleTimer")
  <2>1. CASE Ours(s, c)
    <3>1. c.op.kind \in ChainKinds
      BY <1>7 DEF ChainKinds
    <3>2. /\ s.stream # "null" /\ Mid(s)
          /\ ~s.shuttingDown => s.stream = "handshaking" /\ ~InReady(s, RT)
      BY <1>3, <1>4, <1>7, <2>1, <3>1
    <3>3. MinDelay \in Delays
      BY LimitAssumption DEF Delays
    <3>4. /\ z \in ImplType /\ SameQueue(s, z) /\ SameLog(s, z) /\ SameVoice(s, z)
          /\ z.stream = "secure" /\ z.generation = s.generation /\ z.state = s.state
          /\ z.shuttingDown = s.shuttingDown /\ z.available = s.available
          /\ z.pending = s.pending /\ z.ready = s.ready
      BY <1>1, <3>3 DEF ImplType, SameQueue, SameLog, SameVoice
    <3>5. HandshakeDone(s, c) = IF c.result = "error" THEN AuthenticationFailed(s, c.op.gen) ELSE t
      <4> DEFINE y == [s EXCEPT !.stream = "secure", !.reconnectDelay = MinDelay]
      <4>1. y.stream = "secure" /\ y.generation = s.generation
        BY <1>1 DEF ImplType
      <4>2. z = [y EXCEPT !.readShift = 0]
        BY <1>1 DEF ImplType
      <4>3. BeginReadLength(y, c.op.gen) = r
        <5> HIDE DEF y
        <5>1. z.stream # "null" /\ z.generation = s.generation /\ y.stream # "null"
          BY <3>4, <4>1
        <5> HIDE DEF z
        <5>2. QED
          BY <2>1, <4>1, <4>2, <5>1 DEF BeginReadLength, ReadOneLengthByte, Ours
      <4>4. QED
        BY <2>1, <4>3 DEF HandshakeDone, ResetIdleTimer, Ours
    <3> HIDE DEF z
    <3>6. SameViews(s, z)
      BY <3>4, ViewsFrame
    <3>7. /\ RT \in OpKinds /\ "write" \in OpKinds /\ "readLength" \in OpKinds
          /\ "voiceTimer" \in OpKinds
          /\ "idleTimer" \in OpKinds /\ "idleTimer" \in TimerKinds /\ RT # "idleTimer"
          /\ RT # "readLength"
      BY DEF OpKinds, TimerKinds, ChainKinds, RT
    <3>8. /\ r \in ImplType /\ SameFields(z, r)
          /\ \A k \in OpKinds :
                /\ Has(r, k) <=> Has(z, k) \/ k = "readLength"
                /\ k # "readLength" => (InPending(r, k) <=> InPending(z, k))
                /\ k # "readLength" => (InReady(r, k) <=> InReady(z, k))
          /\ Ordered(r) <=> Ordered(z)
      BY <3>4, <3>7, StartViews
    <3> HIDE DEF r
    <3>9. /\ SameFields(r, t)
          /\ \A k \in OpKinds :
                /\ k # "idleTimer" => (Has(t, k) <=> Has(r, k))
                /\ k # "idleTimer" => (InPending(t, k) <=> InPending(r, k))
                /\ InReady(t, k) <=> InReady(r, k)
          /\ Has(t, "idleTimer")
          /\ Ordered(t) <=> Ordered(r)
      BY <3>7, <3>8, SetTimerViews
    <3> HIDE DEF t
    <3>10. /\ SameQueue(s, t) /\ SameLog(s, t) /\ SameVoice(s, t)
           /\ t.stream = "secure" /\ t.state = s.state
           /\ t.shuttingDown = s.shuttingDown
      BY <3>4, <3>8, <3>9 DEF SameFields, SameConnection, SameQueue, SameLog, SameVoice
    <3>11. BracketInv(t)
      BY <3>2, <3>10 DEF Mid, BracketInv, SameLog, SameVoice
    <3>12. ~s.shuttingDown => QueueInv(t)
      BY <3>2, <3>6, <3>7, <3>8, <3>9, <3>10
      DEF Mid, Base, QueueInv, SameQueue, SameLog, SameViews
    <3>13. ~s.shuttingDown => ~InPending(t, RT) /\ ~InReady(t, RT) /\ Ordered(t)
      BY <3>2, <3>6, <3>7, <3>8, <3>9 DEF Mid, Base, RetryInv, SameViews
    <3>14. ~s.shuttingDown => RetryInv(t)
      BY <3>10, <3>13 DEF RetryInv
    <3>15. ~s.shuttingDown => WatchInv(t) /\ VoiceInv(t)
      BY <3>2, <3>9, <3>10 DEF Mid, Base, WatchInv, VoiceInv, SameVoice
    <3>16. ChainInv(t)
      BY <1>4, <3>7, <3>8, <3>9, <3>10 DEF ChainInv
    <3>17. FlowInv(t)
      BY <3>10, <3>11, <3>12, <3>14, <3>15, <3>16 DEF FlowInv, Mid, Base
    <3>18. QED
      BY <1>3, <2>1, <3>1, <3>5, <3>17
  <2>2. CASE ~Ours(s, c)
    BY <1>2, <1>7, <2>2 DEF HandshakeDone, Ours, ChainKinds
  <2>3. QED
    BY <2>1, <2>2
<1>8. QED
  BY <1>5, <1>6, <1>7

\* The two handlers of a frame.
LEMMA ReadHandlersFlow ==
    ASSUME NEW s, RecordInv(s), NEW c \in Completions, Served(s, c), Left(s, c)
    PROVE  /\ c.op.kind = "readLength" =>
                 \A byte \in LengthBytes : FlowInv(LengthByteDone(s, c, byte))
           /\ c.op.kind = "readBody" =>
                 \A m \in TvMessageType : FlowInv(BodyDone(s, c, m))
<1>1. s \in ImplType
  BY DEF RecordInv
<1>2. ASSUME c.op.kind \in ChainKinds, ~Ours(s, c) PROVE FlowInv(s)
  BY <1>2, StaleFlow DEF ChainKinds, RT
<1>3. ASSUME c.op.kind \in {"readLength", "readBody"}, Ours(s, c)
      PROVE  /\ s.stream # "null" /\ Mid(s)
             /\ ~s.shuttingDown => s.stream = "secure"
             /\ ~s.shuttingDown => RetryInv(s) /\ ~InReady(s, RT)
             /\ c.op.gen = s.generation
             /\ FlowInv(ConnectionFailed(s, c.op.gen))
  <2>1. s.stream # "null"
    BY <1>3 DEF Served, Ours, TimerKinds
  <2>2. Mid(s) /\ (~s.shuttingDown => c.op.kind \in ChainOf(s.stream) /\ ~InReady(s, RT))
    BY <1>1, <1>3, ChainLeft DEF ChainKinds
  <2>3. c.op.gen = s.generation
    BY <1>3 DEF Ours
  <2>4. s.stream \in {"null", "opened", "handshaking", "secure"}
    BY <1>1 DEF ImplType
  <2>5. ~s.shuttingDown => s.stream = "secure"
    BY <1>3, <2>2, <2>4 DEF ChainOf
  <2>6. FlowInv(ConnectionFailed(s, c.op.gen))
    BY <2>1, <2>2, <2>3, FailureFlow DEF Mid, Base
  <2>7. QED
    BY <2>1, <2>2, <2>3, <2>5, <2>6 DEF Mid, Base
<1>4. ASSUME NEW t, Continues(s, t), Goes(s, t), c.op.kind \in {"readLength", "readBody"},
             Ours(s, c)
      PROVE  FlowInv(BeginReadLength(t, c.op.gen))
  <2>1. t \in ImplType
    BY <1>4 DEF Continues, RecordInv
  <2>2. QED
    BY <1>3, <1>4, <2>1, ReadFlow DEF Goes
<1>5. ASSUME c.op.kind = "readLength", NEW byte \in LengthBytes
      PROVE  FlowInv(LengthByteDone(s, c, byte))
  <2> DEFINE t == [s EXCEPT !.readShift = @ + 7]
  <2>1. CASE Ours(s, c)
    <3>1. /\ t \in ImplType /\ SameFields(s, t) /\ SameOps(s, t)
      BY <1>1 DEF ImplType, SameFields, SameConnection, SameQueue, SameLog, SameVoice, SameOps
    <3> HIDE DEF t
    <3>2. RecordInv(t) /\ Mid(t)
      BY <1>3, <1>5, <2>1, <3>1, UnseenFields, UnseenFlow DEF SameFields, SameOps
    <3>3. FlowInv(ReadOneLengthByte(t, c.op.gen))
      BY <1>3, <1>5, <2>1, <3>1, <3>2, ReadFlow DEF SameFields, SameConnection
    <3>4. FlowInv(HandleConnectionLoss(t, c.op.gen))
      <4>1. SameViews(s, t)
        BY <3>1, ViewsFrame DEF SameFields, SameConnection, SameOps
      <4>2. RT \in OpKinds
        BY DEF OpKinds, TimerKinds, RT
      <4>3. ~t.shuttingDown => RetryInv(t) /\ ~InReady(t, RT)
        BY <1>3, <1>5, <2>1, <3>1, <3>2, <4>1, <4>2
        DEF Mid, Base, SameViews, SameFields, SameConnection
      <4>4. t.generation = s.generation
        BY <3>1 DEF SameFields, SameConnection
      <4>5. QED
        BY <1>3, <1>5, <2>1, <3>2, <4>3, <4>4, HandleConnectionLossFlow
    <3>5. FlowInv(HandleConnectionLoss(s, c.op.gen))
      BY <1>3, <1>5, <2>1, HandleConnectionLossFlow
    <3>6. FlowInv(EmptyFrameDone(s, c.op.gen))
      <4>1. EmptyFrame \in TvMessageType
        BY DataAssumption DEF EmptyFrame, TvMessageType, TvKinds
      <4>2. QED
        BY <1>3, <1>4, <1>5, <2>1, <4>1, HandleMessageInv, HandleMessageMid DEF EmptyFrameDone
    <3>7. FlowInv(Start(s, "readBody"))
      <4>1. "readBody" \in ChainKinds /\ (~s.shuttingDown => "readBody" \in ChainOf(s.stream))
        BY <1>3, <1>5, <2>1 DEF ChainKinds, ChainOf
      <4>2. QED
        BY <1>1, <1>3, <1>5, <2>1, <4>1, ChainStartFlow
    <3>8. QED
      BY <1>3, <1>5, <2>1, <3>3, <3>4, <3>5, <3>6, <3>7
      DEF LengthByteDone, LengthBytes, Ours, t
  <2>2. CASE ~Ours(s, c)
    BY <1>2, <1>5, <2>2 DEF LengthByteDone, Ours, ChainKinds
  <2>3. QED
    BY <2>1, <2>2
<1>6. ASSUME c.op.kind = "readBody", NEW m \in TvMessageType
      PROVE  FlowInv(BodyDone(s, c, m))
  <2> DEFINE r == ResetIdleTimer(s)
             h == HandleMessage(r, m)
  <2>1. CASE Ours(s, c)
    <3>1. Flows(s, r) /\ Mid(r)
      BY <1>1, <1>3, <1>6, <2>1, ResetIdleTimerFlow
    <3>2. Continues(s, r)
      BY TimersContinue DEF ResetIdleTimer, TimerKinds
    <3> HIDE DEF r
    <3>3. Goes(s, r) /\ RecordInv(r)
      BY <3>1, <3>2, FlowsGoes DEF Continues
    <3>4. r.stream # "null" /\ (~r.shuttingDown => r.stream = "secure")
      BY <1>3, <1>6, <2>1, <3>3 DEF Goes
    <3>5. Continues(r, h) /\ Goes(r, h)
      BY <3>1, <3>3, <3>4, HandleMessageInv, HandleMessageMid
    <3> HIDE DEF h
    <3>6. FlowInv(BeginReadLength(h, c.op.gen))
      BY <1>4, <1>6, <2>1, <3>2, <3>3, <3>5, ContinuesTransitive, GoesTransitive
    <3>7. QED
      BY <1>3, <1>6, <2>1, <3>6 DEF BodyDone, Ours, r, h
  <2>2. CASE ~Ours(s, c)
    BY <1>2, <1>6, <2>2 DEF BodyDone, Ours, ChainKinds
  <2>3. QED
    BY <2>1, <2>2
<1>7. QED
  BY <1>5, <1>6


\* Where the stream goes on, so does its chain.
LEMMA GoesFlow ==
    ASSUME NEW s \in ImplType, NEW t, ~s.shuttingDown => ChainInv(s), Goes(s, t)
    PROVE  FlowInv(t)
<1>1. ChainOf(s.stream) \subseteq ChainKinds
  BY StreamChain
<1>2. QED
  BY <1>1 DEF FlowInv, Goes, ChainInv

\* The write handler: the next write, or none because the queue is empty.
LEMMA WriteHandlerFlow ==
    ASSUME NEW s, RecordInv(s), NEW c \in Completions, Served(s, c), Left(s, c),
           c.op.kind = "write"
    PROVE  FlowInv(WriteDone(s, c))
<1>1. s \in ImplType
  BY DEF RecordInv
<1>2. CASE Ours(s, c)
  <2> DEFINE f == [s EXCEPT !.writeInProgress = FALSE]
             q == Tail(s.writeQueue)
             t == [s EXCEPT !.writeQueue = q]
  <2>1. Free(s, "write") /\ s.writeInProgress /\ s.stream # "null"
    BY <1>2 DEF Served, Ours, Compete, OpKinds, TimerKinds
  <2>2. "write" \notin {RT, "idleTimer", "voiceTimer"} /\ "write" \notin ChainKinds
    BY DEF RT, ChainKinds
  <2>3. /\ BracketInv(s)
        /\ ~s.shuttingDown => /\ RetryInv(s) /\ ~InReady(s, RT) /\ WatchInv(s) /\ VoiceInv(s)
                              /\ ChainInv(s) /\ ~Has(s, "write")
                              /\ s.accepted = s.sent \o q
    BY <1>2, <2>2 DEF Left
  <2>4. /\ f \in ImplType /\ SameConnection(s, f) /\ SameOps(s, f) /\ f.writeInProgress = FALSE
        /\ SameLog(s, f) /\ SameVoice(s, f) /\ f.available = s.available
    BY <1>1 DEF ImplType, SameConnection, SameOps, SameLog, SameVoice
  <2> HIDE DEF f
  <2>5. FlowInv(ConnectionFailed(f, c.op.gen))
    <3>1. IoInv(f) /\ StateInv(f) /\ Free(f, "write")
      BY <1>1, <2>1, <2>4, FrameLemma DEF RecordInv, OpKinds
    <3>2. RecordInv(f)
      BY <2>4, <3>1 DEF RecordInv, WriterInv
    <3>3. SameViews(s, f)
      BY <2>4, ViewsFrame DEF SameConnection, SameOps
    <3>4. BracketInv(f)
      BY <2>3, <2>4 DEF BracketInv, SameConnection, SameLog, SameVoice
    <3>5. RT \in OpKinds /\ "idleTimer" \in OpKinds
      BY DEF OpKinds, TimerKinds, RT
    <3>6. ~f.shuttingDown => RetryInv(f) /\ ~InReady(f, RT)
      BY <2>3, <2>4, <3>3, <3>5, QuietFrame DEF SameViews, SameConnection
    <3>7. c.op.gen = f.generation /\ f.stream # "null"
      BY <1>2, <2>1, <2>4 DEF Ours, SameConnection
    <3>8. QED
      BY <3>2, <3>4, <3>6, <3>7, FailureFlow
  <2>6. s.writeQueue \in MessageSeqs /\ s.writeQueue # <<>>
    BY <1>1, <2>1 DEF ImplType, RecordInv, WriterInv
  <2>7. q \in MessageSeqs
    BY <2>6 DEF MessageSeqs
  <2> HIDE DEF q
  <2>8. /\ t \in ImplType /\ SameConnection(s, t) /\ SameOps(s, t) /\ t.writeQueue = q
        /\ SameLog(s, t) /\ SameVoice(s, t) /\ t.available = s.available
    BY <1>1, <2>7 DEF ImplType, SameConnection, SameOps, SameLog, SameVoice
  <2> HIDE DEF t
  <2>9. SameViews(s, t)
    BY <2>8, ViewsFrame DEF SameConnection, SameOps
  <2>10. Flows(s, t)
    BY <2>8, <2>9 DEF Flows, SameViews, OpKinds, TimerKinds
  <2>11. RT \in OpKinds /\ "idleTimer" \in OpKinds /\ "write" \in OpKinds
    BY DEF OpKinds, TimerKinds, RT
  <2>12. ~t.shuttingDown => RetryInv(t) /\ WatchInv(t)
    BY <2>3, <2>8, <2>9, <2>11, QuietFrame DEF SameViews, SameConnection
  <2>13. ~t.shuttingDown => ~Has(t, "write") /\ t.accepted = t.sent \o t.writeQueue
    BY <2>3, <2>8, <2>9, <2>11 DEF SameViews, SameConnection, SameLog
  <2>14. t.stream # "null"
    BY <2>1, <2>8 DEF SameConnection
  <2>15. Flows(t, BeginWrite(t)) /\ Base(BeginWrite(t)) /\ BeginWrite(t).accepted = t.accepted
    BY <2>8, <2>12, <2>13, <2>14, BeginWriteFlow
  <2>16. Flows(s, BeginWrite(t))
    BY <2>10, <2>15, FlowsTransitive
  <2>17. BracketInv(BeginWrite(t))
    BY <2>3, <2>8, <2>15, <2>16 DEF BracketInv, Flows, SameConnection, SameVoice, SameLog
  <2>18. Mid(BeginWrite(t))
    BY <2>3, <2>15, <2>16, <2>17, FlowsVoice DEF Mid, Flows, SameConnection
  <2>19. FlowInv(BeginWrite(t))
    BY <1>1, <2>3, <2>16, <2>18, FlowsGoes, GoesFlow
  <2>20. t = [s EXCEPT !.writeQueue = Tail(@)]
    BY <1>1 DEF ImplType, t, q
  <2>21. QED
    BY <1>2, <2>5, <2>19, <2>20 DEF WriteDone, Ours, f
<1>3. CASE ~Ours(s, c)
  BY <1>3, StaleFlow DEF WriteDone, Ours, RT
<1>4. QED
  BY <1>2, <1>3

\* The timers' handlers.
LEMMA TimerHandlersFlow ==
    ASSUME NEW s, RecordInv(s), NEW c \in Completions, Left(s, c), NEW loadable \in BOOLEAN
    PROVE  /\ c.op.kind = RT           => FlowInv(ReconnectTimerDone(s, loadable))
           /\ c.op.kind = "idleTimer"  => FlowInv(IdleTimerDone(s, c))
           /\ c.op.kind = "voiceTimer" => FlowInv(VoiceTimerDone(s))
<1>1. s \in ImplType /\ Bounded(s)
  BY DEF RecordInv, IoInv
<1>2. ASSUME c.op.kind = RT PROVE FlowInv(ReconnectTimerDone(s, loadable))
  <2>1. CASE MayConnect(s)
    <3>1. ~InPending(s, RT)
      BY <1>2, <2>1 DEF Left, MayConnect
    <3>2. QED
      BY <1>1, <2>1, <3>1, BeginConnectFlow DEF ReconnectTimerDone, MayConnect
  <2>2. CASE ~MayConnect(s)
    <3>1. ReconnectTimerDone(s, loadable) = s
      BY <2>2 DEF ReconnectTimerDone, BeginConnect
    <3>2. ~s.shuttingDown => s.state # "Reconnecting"
      BY <2>2 DEF RecordInv, StateInv, MayConnect
    <3>3. RT \notin {"idleTimer", "voiceTimer", "write"} /\ RT \notin ChainKinds
      BY DEF RT, ChainKinds
    <3>4. FlowInv(s)
      BY <1>2, <3>2, <3>3 DEF Left, FlowInv, Mid, Base
    <3>5. QED
      BY <3>1, <3>4
  <2>3. QED
    BY <2>1, <2>2
<1>3. ASSUME c.op.kind = "idleTimer" PROVE FlowInv(IdleTimerDone(s, c))
  <2>1. "idleTimer" \notin {RT, "voiceTimer", "write"} /\ "idleTimer" \notin ChainKinds
    BY DEF RT, ChainKinds
  <2>2. CASE Ours(s, c) /\ ~s.userDisconnect
    <3>1. ~s.shuttingDown => RetryInv(s) /\ ~InReady(s, RT)
      BY <1>3, <2>1, <2>2 DEF Left
    <3>2. QED
      BY <2>2, <3>1, HandleConnectionLossFlow DEF IdleTimerDone, Ours
  <2>3. CASE ~(Ours(s, c) /\ ~s.userDisconnect)
    <3>1. ~s.shuttingDown => WatchInv(s)
      <4>1. CASE s.userDisconnect
        BY <4>1 DEF RecordInv, StateInv, WatchInv
      <4>2. CASE ~Ours(s, c)
        BY <4>2 DEF Left
      <4>3. QED
        BY <2>3, <4>1, <4>2
    <3>2. FlowInv(s)
      BY <1>3, <2>1, <3>1 DEF Left, FlowInv, Mid, Base
    <3>3. QED
      BY <2>3, <3>2 DEF IdleTimerDone, Ours
  <2>4. QED
    BY <2>2, <2>3
<1>4. ASSUME c.op.kind = "voiceTimer" PROVE FlowInv(VoiceTimerDone(s))
  <2> DEFINE t == VoiceTimerDone(s)
  <2>1. "voiceTimer" \notin {RT, "idleTimer", "write"} /\ "voiceTimer" \notin ChainKinds
    BY DEF RT, ChainKinds
  <2>2. /\ t \in ImplType /\ SameConnection(s, t) /\ SameQueue(s, t) /\ SameLog(s, t)
        /\ t.available = s.available /\ t.pending = s.pending /\ t.ready = s.ready
        /\ t.voiceStarting = FALSE /\ t.voiceSessionId = s.voiceSessionId
    BY <1>1 DEF VoiceTimerDone, ImplType, SameConnection, SameQueue, SameLog
  <2> HIDE DEF t
  <2>3. SameViews(s, t)
    BY <2>2, ViewsFrame DEF SameConnection
  <2>4. RT \in OpKinds /\ "idleTimer" \in OpKinds /\ "write" \in OpKinds
        /\ \A k \in ChainKinds : k \in OpKinds
    BY DEF OpKinds, TimerKinds, RT, ChainKinds
  <2>5. BracketInv(t)
    BY <2>2 DEF Left, BracketInv, SameConnection, SameLog
  <2>6. ~s.shuttingDown => QueueInv(t)
    BY <1>4, <2>1, <2>2, <2>3, <2>4 DEF Left, QueueInv, SameQueue, SameLog, SameViews
  <2>7. ~s.shuttingDown => RetryInv(t) /\ WatchInv(t)
    BY <1>4, <2>1, <2>2, <2>3, <2>4, QuietFrame DEF Left, SameViews
  <2>8. ~s.shuttingDown => VoiceInv(t)
    <3>1. ~s.shuttingDown /\ s.voiceSessionId # NoSession =>
              s.stream = "secure" /\ s.state = "Connected"
      BY <1>4 DEF Left
    <3>2. QED
      BY <2>2, <3>1 DEF VoiceInv, SameConnection
  <2>9. Goes(s, t)
    BY <2>2, <2>3, <2>4, <2>5, <2>6, <2>7, <2>8 DEF Goes, Mid, Base, SameViews, SameConnection
  <2>10. ~s.shuttingDown => ChainInv(s)
    BY <1>4, <2>1 DEF Left
  <2>11. QED
    BY <1>1, <2>9, <2>10, GoesFlow DEF t
<1>5. QED
  BY <1>2, <1>3, <1>4


-----------------------------------------------------------------------------
(* The environment and the application. *)

\* An operation completes.
LEMMA MovedFlow ==
    ASSUME NEW s, RecordInv(s), FlowInv(s), NEW op \in s.pending,
           NEW result \in Results, op.kind = RT => result = "ok"
    PROVE  FlowInv([s EXCEPT !.pending = @ \ {op},
                             !.ready = Append(@, [op |-> op, result |-> result])])
<1> DEFINE t == [s EXCEPT !.pending = @ \ {op},
                          !.ready = Append(@, [op |-> op, result |-> result])]
<1>1. s \in ImplType /\ op.kind \in OpKinds
  BY FieldTypes DEF RecordInv
<1>2. /\ SameFields(s, t)
      /\ \A k \in OpKinds :
            /\ Has(t, k) <=> Has(s, k)
            /\ InPending(t, k) => InPending(s, k)
            /\ k # op.kind => (InPending(t, k) <=> InPending(s, k))
            /\ InReady(t, k) <=> InReady(s, k) \/ k = op.kind
      /\ (op.kind = RT => result = "ok") /\ Alarm(s) => Alarm(t)
      /\ Ordered(s) /\ op.kind # RT => Ordered(t)
      /\ (\A k \in OpKinds : Has(s, k) => k = RT) => Ordered(t)
      /\ OneRetry(s) => OneRetry(t)
      /\ OneRetry(s) /\ op.kind = RT => ~InPending(t, RT)
  BY <1>1, MovedViews
<1> HIDE DEF t
<1>3. RT \in OpKinds /\ "write" \in OpKinds /\ "idleTimer" \in OpKinds
      /\ "voiceTimer" \in OpKinds /\ \A k \in ChainKinds : k \in OpKinds
  BY DEF OpKinds, TimerKinds, ChainKinds, RT
<1>4. BracketInv(t)
  BY <1>2 DEF FlowInv, Mid, BracketInv, SameFields, SameConnection, SameLog, SameVoice
<1>5. ASSUME ~s.shuttingDown
      PROVE  QueueInv(t) /\ RetryInv(t) /\ WatchInv(t) /\ VoiceInv(t)
  <2>1. QueueInv(s) /\ RetryInv(s) /\ WatchInv(s) /\ VoiceInv(s)
    BY <1>5 DEF FlowInv, Mid, Base
  <2>2. QueueInv(t)
    BY <1>2, <1>3, <2>1 DEF QueueInv, SameFields, SameQueue, SameLog
  <2>3. WatchInv(t)
    BY <1>2, <1>3, <2>1 DEF WatchInv, SameFields, SameConnection
  <2>4. VoiceInv(t)
    BY <1>2, <1>3, <2>1 DEF VoiceInv, SameFields, SameConnection, SameVoice
  <2>5. RetryInv(t)
    <3>1. CASE op.kind = RT
      <4>1. InPending(s, RT)
        BY <3>1 DEF InPending
      <4>2. s.stream = "null" /\ OneRetry(s) /\ \A k \in OpKinds : Has(s, k) => k = RT
        BY <2>1, <4>1 DEF RetryInv
      <4>3. QED
        BY <1>2, <1>3, <2>1, <3>1, <4>2 DEF RetryInv, SameFields, SameConnection
    <3>2. CASE op.kind # RT
      BY <1>2, <1>3, <2>1, <3>2 DEF RetryInv, SameFields, SameConnection
    <3>3. QED
      BY <3>1, <3>2
  <2>6. QED
    BY <2>2, <2>3, <2>4, <2>5
<1>6. Goes(s, t)
  BY <1>2, <1>3, <1>4, <1>5 DEF Goes, Mid, Base, SameFields, SameConnection
<1>7. QED
  BY <1>1, <1>6, GoesFlow DEF FlowInv, t

\* connect(), whatever was under way.
LEMMA ConnectPostedFlow ==
    ASSUME NEW s, RecordInv(s), FlowInv(s), NEW loadable \in BOOLEAN
    PROVE  FlowInv(ConnectPosted(s, loadable))
<1> DEFINE c == CancelTimer(s, RT)
           t == [c EXCEPT !.userDisconnect = FALSE, !.reconnectDelay = MinDelay]
<1>1. s \in ImplType /\ RT \in TimerKinds
  BY DEF RecordInv, TimerKinds, RT
<1>2. c \in ImplType /\ SameFields(s, c) /\ ~InPending(c, RT)
  BY <1>1, CancelViews
<1>3. Bounded(c)
  BY <1>1, CancelTimerIo DEF RecordInv, IoInv
<1>4. MinDelay \in Delays
  BY LimitAssumption DEF Delays
<1> HIDE DEF c
<1>5. /\ t \in ImplType /\ SameLog(c, t) /\ SameVoice(c, t)
      /\ t.userDisconnect = FALSE /\ t.shuttingDown = c.shuttingDown
      /\ t.stream = c.stream /\ t.generation = c.generation
      /\ t.pending = c.pending /\ t.ready = c.ready
  BY <1>2, <1>4 DEF ImplType, SameLog, SameVoice
<1> HIDE DEF t
<1>6. Bounded(t) /\ ~InPending(t, RT)
  BY <1>2, <1>3, <1>5 DEF Bounded, InPending
<1>7. FlowInv(BeginConnect(t, FALSE, loadable))
  <2>1. CASE MayConnect(t)
    BY <1>5, <1>6, <2>1, BeginConnectFlow
  <2>2. CASE ~MayConnect(t)
    <3>1. t.shuttingDown
      BY <1>5, <2>2 DEF MayConnect
    <3>2. BracketInv(t)
      BY <1>2, <1>5
      DEF FlowInv, Mid, BracketInv, SameFields, SameConnection, SameLog, SameVoice
    <3>3. QED
      BY <2>2, <3>1, <3>2 DEF BeginConnect, FlowInv, Mid, Base
  <2>3. QED
    BY <2>1, <2>2
<1>8. QED
  BY <1>7 DEF ConnectPosted, t, c, RT

\* Cancelling the three timers leaves no reconnect timer waiting.
LEMMA CancelTimersFlow ==
    ASSUME NEW s \in ImplType
    PROVE  LET t == CancelTimers(s)
           IN  t \in ImplType /\ SameFields(s, t) /\ ~InPending(t, RT)
<1> DEFINE a == CancelTimer(s, RT)
           b == CancelTimer(a, "idleTimer")
           c == CancelTimer(b, "voiceTimer")
<1>1. RT \in TimerKinds /\ "idleTimer" \in TimerKinds /\ "voiceTimer" \in TimerKinds
      /\ RT \in OpKinds /\ RT # "idleTimer" /\ RT # "voiceTimer"
  BY DEF TimerKinds, OpKinds, RT
<1>2. a \in ImplType /\ SameFields(s, a) /\ ~InPending(a, RT)
  BY <1>1, CancelViews
<1> HIDE DEF a
<1>3. b \in ImplType /\ SameFields(a, b) /\ ~InPending(b, RT)
  BY <1>1, <1>2, CancelViews
<1> HIDE DEF b
<1>4. c \in ImplType /\ SameFields(b, c) /\ ~InPending(c, RT)
  BY <1>1, <1>3, CancelViews
<1> HIDE DEF c
<1>5. SameFields(s, c)
  BY <1>2, <1>3, <1>4 DEF SameFields, SameConnection, SameQueue, SameLog, SameVoice
<1>6. QED
  BY <1>4, <1>5 DEF CancelTimers, a, b, c, RT

\* disconnect() and startPairing().
LEMMA DropFlow ==
    ASSUME NEW s, RecordInv(s)
    PROVE  FlowInv(Drop(s)) /\ FlowInv(EmitAvailability(Drop(s), FALSE))
<1> DEFINE w == [s EXCEPT !.userDisconnect = TRUE]
           c == CancelTimers(w)
           u == CloseStream(c)
           d == SetState(u, "Disconnected")
           e == EmitAvailability(d, FALSE)
<1>1. s \in ImplType /\ IoInv(s)
  BY DEF RecordInv
<1>2. w \in ImplType /\ SameOps(s, w) /\ w.generation = s.generation /\ w.stream = s.stream
  BY <1>1 DEF ImplType, SameOps
<1> HIDE DEF w
<1>3. c \in ImplType /\ ~InPending(c, RT)
  BY <1>2, CancelTimersFlow
<1>4. Bounded(c)
  <2>1. IoInv(w)
    BY <1>1, <1>2 DEF IoInv, Bounded, Unique, Rivals, Free, Occupies, SameOps
  <2>2. QED
    BY <1>2, <2>1, CancelTimersInv DEF IoInv
<1> HIDE DEF c
<1>5. /\ u \in ImplType /\ Emptied(u) /\ Ordered(u)
      /\ \A k \in OpKinds : ~Has(u, k) /\ (InPending(u, k) <=> InPending(c, k))
  BY <1>3, <1>4, CloseStreamFlow
<1> HIDE DEF u
<1>6. /\ d \in ImplType /\ Emptied(d) /\ d.state = "Disconnected"
      /\ d.pending = u.pending /\ d.ready = u.ready /\ d.generation = u.generation
  BY <1>5 DEF SetState, Emptied, ImplType, States
<1> HIDE DEF d
<1>7. /\ Emptied(e) /\ e.state = "Disconnected"
      /\ e.pending = u.pending /\ e.ready = u.ready /\ e.generation = u.generation
  BY <1>6 DEF EmitAvailability, Emptied, ImplType
<1> HIDE DEF e
<1>8. RT \in OpKinds /\ "write" \in OpKinds
  BY DEF OpKinds, TimerKinds, RT
<1>9. ASSUME NEW x, Emptied(x), x.state = "Disconnected", x.pending = u.pending,
             x.ready = u.ready, x.generation = u.generation
      PROVE  FlowInv(x)
  <2>1. SameViews(u, x)
    BY <1>9, ViewsFrame
  <2>2. ~Has(x, "write") /\ RetryInv(x)
    BY <1>3, <1>5, <1>8, <1>9, <2>1 DEF SameViews, RetryInv, Emptied
  <2>3. QED
    BY <1>9, <2>2, EmptiedFlow
<1>10. QED
  BY <1>6, <1>7, <1>9 DEF Drop, w, c, u, d, e


\* startVoice(): the wait begins on a Connected stream and has its timer.
LEMMA StartVoiceFlow ==
    ASSUME NEW s, RecordInv(s), FlowInv(s)
    PROVE  FlowInv(StartVoicePosted(s))
<1>1. CASE ~s.voiceEnabled \/ s.voiceStarting \/ s.voiceSessionId # NoSession \/ s.state # "Connected"
  BY <1>1 DEF StartVoicePosted
<1>2. CASE /\ s.voiceEnabled /\ ~s.voiceStarting /\ s.voiceSessionId = NoSession
           /\ s.state = "Connected"
  <2> DEFINE m == Message("Key", 0)
             v == [s EXCEPT !.voiceStarting = TRUE]
             q == QueueMessage(v, m)
             t == SetTimer(q, "voiceTimer")
  <2>1. s \in ImplType /\ s.accepted \in MessageSeqs
    BY DEF RecordInv, ImplType
  <2>2. m \in Messages /\ m.kind = "Key" /\ <<m>> \in MessageSeqs
        /\ \A i \in DOMAIN <<m>> : <<m>>[i] = m
    BY MessageType, DataAssumption DEF Message, MessageKinds, MessageSeqs
  <2> HIDE DEF m
  <2>3. /\ v \in ImplType /\ SameConnection(s, v) /\ SameQueue(s, v) /\ SameLog(s, v)
        /\ SameOps(s, v) /\ v.available = s.available
        /\ v.voiceStarting = TRUE /\ v.voiceSessionId = NoSession
    BY <1>2, <2>1 DEF ImplType, SameConnection, SameQueue, SameLog, SameOps
  <2> HIDE DEF v
  <2>4. RecordInv(v)
    BY <2>3, UnseenFields
  <2>5. SameViews(s, v)
    BY <2>3, ViewsFrame DEF SameConnection, SameOps
  <2>6. /\ RT \in OpKinds /\ "idleTimer" \in OpKinds /\ "write" \in OpKinds
        /\ "voiceTimer" \in OpKinds /\ "voiceTimer" \in TimerKinds
        /\ "voiceTimer" \notin {RT, "idleTimer", "write"}
        /\ \A k \in ChainKinds : k \in OpKinds /\ k # "voiceTimer"
    BY DEF OpKinds, TimerKinds, RT, ChainKinds
  <2>7. QueueInv(s) => QueueInv(v)
    BY <2>3, <2>5, <2>6 DEF QueueInv, SameQueue, SameLog, SameViews
  <2>8. RetryInv(s) /\ WatchInv(s) => RetryInv(v) /\ WatchInv(v)
    BY <2>3, <2>5, <2>6, QuietFrame DEF SameViews
  <2>9. Base(v)
    BY <2>3, <2>7, <2>8 DEF FlowInv, Mid, Base, SameConnection
  <2>10. /\ Flows(v, q) /\ Base(q)
         /\ q.accepted = IF v.stream = "null" THEN v.accepted ELSE v.accepted \o <<m>>
    BY <2>2, <2>3, <2>4, <2>9, QueueMessagesFlow DEF QueueMessage
  <2> HIDE DEF q
  <2>11. Bracketed(q.accepted)
    <3>1. Bracketed(s.accepted)
      BY DEF FlowInv, Mid, BracketInv
    <3>2. Bracketed(s.accepted \o <<m>>)
      BY <2>1, <2>2, <3>1, LogGrows
    <3>3. QED
      BY <2>3, <2>10, <3>1, <3>2 DEF SameLog
  <2>12. /\ q \in ImplType /\ q.stream = s.stream /\ q.state = s.state
         /\ q.shuttingDown = s.shuttingDown /\ q.generation = s.generation
         /\ q.voiceStarting = TRUE /\ q.voiceSessionId = NoSession
         /\ \A k \in ChainKinds : Has(q, k) <=> Has(s, k)
    BY <2>3, <2>5, <2>6, <2>10 DEF Flows, SameConnection, SameVoice, SameViews
  <2>13. /\ t \in ImplType /\ SameFields(q, t)
         /\ \A k \in OpKinds :
               /\ k # "voiceTimer" => (Has(t, k) <=> Has(q, k))
               /\ k # "voiceTimer" => (InPending(t, k) <=> InPending(q, k))
               /\ InReady(t, k) <=> InReady(q, k)
         /\ InPending(t, "voiceTimer")
         /\ Alarm(t) <=> Alarm(q)
         /\ Ordered(t) <=> Ordered(q)
         /\ OneRetry(q) => OneRetry(t)
    BY <2>6, <2>12, SetTimerViews
  <2> HIDE DEF t
  <2>14. /\ t.stream = s.stream /\ t.state = s.state /\ t.shuttingDown = s.shuttingDown
         /\ t.generation = s.generation /\ t.accepted = q.accepted
         /\ t.voiceStarting = TRUE /\ t.voiceSessionId = NoSession
    BY <2>12, <2>13 DEF SameFields, SameConnection, SameLog, SameVoice
  <2>15. BracketInv(t)
    BY <2>11, <2>14 DEF BracketInv
  <2>16. ~s.shuttingDown => s.stream = "secure"
    BY <1>2 DEF FlowInv, Mid, Base, WatchInv
  <2>17. ~s.shuttingDown => QueueInv(t)
    BY <2>6, <2>10, <2>12, <2>13 DEF Base, QueueInv, SameFields, SameQueue, SameLog
  <2>18. ~s.shuttingDown => RetryInv(t) /\ WatchInv(t)
    BY <2>6, <2>10, <2>12, <2>13, <2>16, QuietFrame DEF Base, SameFields
  <2>19. ~s.shuttingDown => VoiceInv(t)
    BY <1>2, <2>13, <2>14, <2>16 DEF VoiceInv
  <2>20. Goes(s, t)
    BY <2>6, <2>12, <2>13, <2>14, <2>15, <2>17, <2>18, <2>19 DEF Goes, Mid, Base
  <2>21. FlowInv(t)
    BY <2>1, <2>20, GoesFlow DEF FlowInv
  <2>22. QED
    BY <1>2, <2>21 DEF StartVoicePosted, t, q, v, m
<1>3. QED
  BY <1>1, <1>2

\* stopVoice(): the end of the session is the last message of it.
LEMMA StopVoiceFlow ==
    ASSUME NEW s, RecordInv(s), FlowInv(s)
    PROVE  FlowInv(StopVoicePosted(s))
<1> DEFINE w == s.voiceSessionId
           r == CancelTimer(s, "voiceTimer")
           t == [r EXCEPT !.voiceStarting = FALSE]
<1>1. s \in ImplType /\ w \in Sessions /\ s.accepted \in MessageSeqs
  BY DEF RecordInv, ImplType
<1>2. /\ r \in ImplType /\ SameFields(s, r) /\ RecordInv(r)
  BY <1>1, CancelViews, CancelTimerIo DEF TimerKinds
<1>3. t = [r EXCEPT !.voiceStarting = FALSE, !.voiceSessionId = w]
  <2> HIDE DEF r
  <2>1. r.voiceSessionId = w
    BY <1>2 DEF SameFields, SameVoice
  <2>2. QED
    BY <1>2, <2>1 DEF ImplType
<1> HIDE DEF t
<1>4. /\ t \in ImplType /\ SameConnection(s, t) /\ SameQueue(s, t) /\ SameLog(s, t)
      /\ t.voiceStarting = FALSE /\ t.voiceSessionId = w
      /\ \A k \in ChainKinds : Has(t, k) <=> Has(s, k)
      /\ Base(t)
  BY <1>1, <1>3, WaitEnds DEF FlowInv, Mid
<1>5. RecordInv(t)
  <2> HIDE DEF r, w
  <2>1. SameConnection(r, t) /\ SameOps(r, t) /\ SameQueue(r, t)
    BY <1>2 DEF ImplType, SameConnection, SameOps, SameQueue, t
  <2>2. QED
    BY <1>2, <1>4, <2>1, UnseenFields
<1> HIDE DEF r
<1>6. BracketInv(t) /\ Bracketed(s.accepted)
  BY <1>4 DEF FlowInv, Mid, BracketInv, SameConnection, SameLog
<1>7. ~s.shuttingDown => VoiceInv(t)
  BY <1>4 DEF FlowInv, Mid, VoiceInv, SameConnection
<1>8. Goes(s, t)
  BY <1>4, <1>6, <1>7 DEF Goes, Mid, SameConnection
<1>9. CASE w = NoSession
  <2>1. FlowInv(t)
    BY <1>1, <1>8, GoesFlow DEF FlowInv
  <2>2. QED
    BY <1>4, <1>9, <2>1 DEF StopVoicePosted, t, r
<1>10. CASE w # NoSession
  <2> DEFINE m == Message("VoiceEnd", w)
             q == QueueMessage(t, m)
             e == [q EXCEPT !.voiceSessionId = NoSession]
  <2>1. w \in Words
    BY <1>1, <1>10 DEF Sessions
  <2> HIDE DEF w
  <2>2. m \in Messages /\ m.kind = "VoiceEnd" /\ m.word = w /\ <<m>> \in MessageSeqs
        /\ DOMAIN <<m>> = {1} /\ <<m>>[1] = m /\ \A k \in 1..(1 - 1) : FALSE
    BY <2>1, MessageType DEF Message, MessageKinds, MessageSeqs
  <2> HIDE DEF m
  <2>3. /\ Flows(t, q) /\ Base(q)
        /\ q.accepted = IF t.stream = "null" THEN t.accepted ELSE t.accepted \o <<m>>
    BY <1>4, <1>5, <2>2, QueueMessagesFlow DEF QueueMessage
  <2>4. q \in ImplType
    BY <2>3 DEF Flows
  <2> HIDE DEF q
  <2>5. NoSession \in Sessions
    BY DEF Sessions
  <2>6. /\ e \in ImplType /\ SameConnection(q, e) /\ SameQueue(q, e) /\ SameLog(q, e)
        /\ e.pending = q.pending /\ e.ready = q.ready /\ e.available = q.available
        /\ e.voiceStarting = q.voiceStarting /\ e.voiceSessionId = NoSession
    BY <2>4, <2>5 DEF ImplType, SameConnection, SameQueue, SameLog
  <2> HIDE DEF e
  <2>7. SameViews(q, e)
    BY <2>6, ViewsFrame DEF SameConnection
  <2>8. Bracketed(q.accepted)
    <3>1. CASE t.stream = "null"
      BY <1>4, <1>6, <2>3, <3>1 DEF SameLog
    <3>2. CASE t.stream # "null"
      <4>1. OpenSession(s.accepted, w)
        BY <1>4, <1>6, <1>10, <3>2 DEF BracketInv, SameLog
      <4>2. Bracketed(s.accepted \o <<m>>)
        BY <1>1, <1>6, <2>2, <4>1, LogGrows
      <4>3. QED
        BY <1>4, <2>3, <3>2, <4>2 DEF SameLog
    <3>3. QED
      BY <3>1, <3>2
  <2>9. BracketInv(e)
    BY <2>6, <2>8 DEF BracketInv, SameLog
  <2>10. VoiceInv(e)
    BY <1>4, <2>3, <2>6 DEF VoiceInv, Flows, SameVoice
  <2>11. RT \in OpKinds /\ "idleTimer" \in OpKinds /\ "write" \in OpKinds
         /\ \A k \in ChainKinds : k \in OpKinds
    BY DEF OpKinds, TimerKinds, RT, ChainKinds
  <2>12. QueueInv(q) => QueueInv(e)
    BY <2>6, <2>7, <2>11 DEF QueueInv, SameQueue, SameLog, SameViews
  <2>13. RetryInv(q) /\ WatchInv(q) => RetryInv(e) /\ WatchInv(e)
    BY <2>6, <2>7, <2>11, QuietFrame DEF SameViews
  <2>14. Mid(e)
    BY <2>3, <2>6, <2>9, <2>10, <2>12, <2>13 DEF Mid, Base, SameConnection
  <2>15. Goes(s, e)
    BY <1>8, <2>3, <2>6, <2>7, <2>11, <2>14 DEF Goes, Flows, SameConnection, SameViews
  <2>16. FlowInv(e)
    BY <1>1, <2>15, GoesFlow DEF FlowInv
  <2>17. QED
    BY <1>4, <1>10, <2>16 DEF StopVoicePosted, EndSession, t, r, e, q, m
<1>11. QED
  BY <1>9, <1>10

\* The calls that queue messages.
LEMMA QueueingCallsFlow ==
    ASSUME NEW s, RecordInv(s), FlowInv(s)
    PROVE  /\ FlowInv(QueueMessage(s, Message("Key", 0)))
           /\ FlowInv(QueueMessage(s, Message("Text", s.mirror["ime"])))
           /\ \A chunks \in Nat : FlowInv(SendVoiceDataPosted(s, chunks))
<1>1. s \in ImplType /\ Mid(s)
  BY DEF RecordInv, FlowInv
<1>2. ASSUME NEW t, Flows(s, t), Mid(t) PROVE FlowInv(t)
  BY <1>1, <1>2, FlowsGoes, GoesFlow DEF FlowInv
<1>3. ASSUME NEW kind \in {"Key", "Text"}, NEW w \in Words
      PROVE  FlowInv(QueueMessage(s, Message(kind, w)))
  <2>1. Message(kind, w) \in Messages /\ Message(kind, w).kind = kind
    BY MessageType DEF Message, MessageKinds
  <2>2. QED
    BY <1>1, <1>2, <2>1, PlainMessageMid
<1>4. s.mirror["ime"] \in Words
  BY <1>1 DEF ImplType, Mirrors, MirrorFields
<1>5. ASSUME NEW chunks \in Nat PROVE FlowInv(SendVoiceDataPosted(s, chunks))
  <2> DEFINE w == s.voiceSessionId
             m == Message("VoicePayload", w)
             ms == [i \in 1..chunks |-> m]
  <2>1. CASE w # NoSession
    <3>1. w \in Words
      BY <1>1, <2>1 DEF ImplType, Sessions
    <3>2. m \in Messages /\ m.kind = "VoicePayload" /\ m.word = w
      BY <3>1, MessageType DEF Message, MessageKinds
    <3> HIDE DEF m
    <3>3. ms \in MessageSeqs /\ \A i \in DOMAIN ms : ms[i] = m
      BY <3>2 DEF MessageSeqs
    <3> HIDE DEF ms
    <3>4. Flows(s, QueueMessages(s, ms)) /\ Mid(QueueMessages(s, ms))
      BY <1>1, <2>1, <3>2, <3>3, QueueMessagesMid
    <3>5. QED
      BY <1>2, <2>1, <3>4 DEF SendVoiceDataPosted, ms, m
  <2>2. CASE w = NoSession
    BY <2>2 DEF SendVoiceDataPosted
  <2>3. QED
    BY <2>1, <2>2
<1>6. QED
  BY <1>3, <1>4, <1>5, DataAssumption


-----------------------------------------------------------------------------
(* The theorems. *)

\* The constructor establishes the invariant.
LEMMA InitFlow == Init => FlowInv(impl)
<1> SUFFICES ASSUME Init PROVE FlowInv(InitialImpl)
  BY DEF Init
<1>1. /\ Emptied(InitialImpl) /\ InitialImpl.state = "Disconnected"
      /\ InitialImpl.pending = {} /\ InitialImpl.ready = <<>>
  BY DEF InitialImpl, Emptied
<1>2. /\ \A k : ~Has(InitialImpl, k) /\ ~InPending(InitialImpl, k)
      /\ Ordered(InitialImpl)
  BY <1>1 DEF Has, InPending, Ordered
<1>3. RetryInv(InitialImpl)
  BY <1>1, <1>2 DEF RetryInv, Emptied
<1>4. QED
  BY <1>1, <1>2, <1>3, EmptiedFlow

\* Setting shuttingDown_ keeps the invariant.
LEMMA FlaggedFlow ==
    ASSUME NEW s, s \in ImplType, FlowInv(s)
    PROVE  FlowInv(Flagged(s))
<1> DEFINE t == Flagged(s)
<1>1. t.shuttingDown /\ t.stream = s.stream /\ SameLog(s, t) /\ SameVoice(s, t)
  BY DEF Flagged, ImplType, SameLog, SameVoice
<1> HIDE DEF t
<1>2. BracketInv(t)
  BY <1>1 DEF FlowInv, Mid, BracketInv, SameLog, SameVoice
<1>3. FlowInv(t)
  BY <1>1, <1>2 DEF FlowInv, Mid, Base
<1>4. QED
  BY <1>3 DEF t

\* Every step keeps it.
LEMMA NextFlow == Inv /\ FlowInv(impl) /\ [Next]_vars => FlowInv(impl')
<1> SUFFICES ASSUME Inv, FlowInv(impl), [Next]_vars PROVE FlowInv(impl')
  OBVIOUS
<1>1. RecordInv(impl) /\ impl \in ImplType /\ Bounded(impl) /\ certificate \in BOOLEAN
  BY DEF Inv, TypeOK, RecordInv, IoInv
<1>2. CASE RunHandler
  <2>1. ASSUME NEW kind, Handler(kind)
        PROVE  /\ RecordInv(Taken) /\ First \in Completions /\ Served(Taken, First)
               /\ Left(Taken, First) /\ First.op.kind = kind
    BY <1>1, <2>1, TakenInv, TakenLeft DEF Handler, Taken, First, Good
  <2>2. CASE OnResolve \/ OnConnect \/ OnHandshake
    BY <2>1, <2>2, AttemptHandlersFlow DEF OnResolve, OnConnect, OnHandshake
  <2>3. CASE OnLengthByte \/ OnBody
    <3>1. TvBytes \subseteq LengthBytes /\ TvMessages \subseteq TvMessageType
      BY DataAssumption DEF TvMessageType
    <3>2. QED
      BY <2>1, <2>3, <3>1, ReadHandlersFlow DEF OnLengthByte, OnBody
  <2>4. CASE OnWrite
    BY <2>1, <2>4, WriteHandlerFlow DEF OnWrite
  <2>5. CASE OnReconnectTimer \/ OnIdleTimer \/ OnVoiceTimer
    BY <1>1, <2>1, <2>5, TimerHandlersFlow DEF OnReconnectTimer, OnIdleTimer, OnVoiceTimer, RT
  <2>6. CASE OnFailureFlagged
    <3>1. PICK kind : Handler(kind)
      BY <2>6 DEF OnFailureFlagged
    <3>2. Taken.generation = impl.generation /\ Taken \in ImplType
      BY <1>1, <2>1, <3>1 DEF Taken, ImplType, RecordInv
    <3>3. /\ RecordInv(Flagged(Taken)) /\ Flagged(Taken).shuttingDown
          /\ Flagged(Taken).generation = impl.generation
      BY <2>1, <3>1, <3>2, FlaggedInv DEF Flagged, ImplType
    <3>4. QED
      BY <2>6, <3>3, HandleConnectionLossFlow DEF OnFailureFlagged
  <2>7. QED
    BY <1>2, <2>2, <2>3, <2>4, <2>5, <2>6 DEF RunHandler
<1>3. CASE Application
  <2>1. CASE Connect
    BY <1>1, <2>1, ConnectPostedFlow DEF Connect, Posted
  <2>2. CASE Disconnect \/ StartPairing
    BY <1>1, <2>2, DropFlow DEF Disconnect, StartPairing, Posted
  <2>3. CASE SendKey \/ SendText
    BY <1>1, <2>3, QueueingCallsFlow DEF SendKey, SendText, Posted
  <2>4. CASE StartVoice \/ StopVoice
    BY <1>1, <2>4, StartVoiceFlow, StopVoiceFlow DEF StartVoice, StopVoice, Posted
  <2>5. CASE SendVoiceData
    <3>1. \A chunks \in 1..MaxChunks : chunks \in Nat
      BY LimitAssumption
    <3>2. QED
      BY <1>1, <2>5, <3>1, QueueingCallsFlow DEF SendVoiceData, Posted
  <2>6. CASE GenerateCertificate
    BY <2>6 DEF GenerateCertificate
  <2>7. QED
    BY <1>3, <2>1, <2>2, <2>3, <2>4, <2>5, <2>6 DEF Application
<1>4. CASE Environment
  <2> DEFINE Moved(op, result) ==
                 [impl EXCEPT !.pending = @ \ {op},
                              !.ready = Append(@, [op |-> op, result |-> result])]
  <2>1. \A op \in impl.pending : \A result \in {"ok", "error"} :
            (op.kind = RT => result = "ok") => FlowInv(Moved(op, result))
    BY <1>1, MovedFlow DEF Results
  <2>2. \E op \in impl.pending : \E result \in {"ok", "error"} :
            (op.kind = RT => result = "ok") /\ impl' = Moved(op, result)
    <3>1. CASE OpSucceeds
      BY <3>1 DEF OpSucceeds
    <3>2. CASE OpFails
      BY <3>2 DEF OpFails, TimerKinds, RT
    <3>3. CASE StaleOpEnds
      BY <3>3 DEF StaleOpEnds, TimerKinds, RT
    <3>4. CASE \E timer \in TimerKinds : TimerExpires(timer)
      BY <3>4 DEF TimerExpires
    <3>5. QED
      BY <1>4, <3>1, <3>2, <3>3, <3>4 DEF Environment
  <2> HIDE DEF Moved
  <2>3. QED
    BY <2>1, <2>2
<1>5. CASE Destructor
  <2>1. ASSUME NEW t, t.shuttingDown, BracketInv(t) PROVE FlowInv(t)
    BY <2>1 DEF FlowInv, Mid, Base
  <2>2. CASE DestroyBegins \/ HandlerReturns
    BY <1>1, <2>2, FlaggedFlow DEF DestroyBegins, HandlerReturns
  <2>3. CASE CleanUp
    <3> DEFINE u == [impl EXCEPT !.userDisconnect = TRUE]
               c == CloseStream(u)
               t == CancelTimers(c)
    <3>1. impl.shuttingDown
      BY <2>3 DEF CleanUp, Inv
    <3>2. /\ u \in ImplType /\ u.shuttingDown = impl.shuttingDown /\ SameOps(impl, u)
          /\ u.generation = impl.generation
      BY <1>1 DEF ImplType, SameOps
    <3> HIDE DEF u
    <3>3. Bounded(u)
      BY <1>1, <3>2 DEF Bounded, SameOps
    <3>4. c \in ImplType /\ Emptied(c) /\ c.shuttingDown = u.shuttingDown
      BY <3>2, <3>3, CloseStreamFlow
    <3> HIDE DEF c
    <3>5. SameFields(c, t)
      BY <3>4, CancelTimersFlow
    <3> HIDE DEF t
    <3>6. t.shuttingDown /\ t.accepted = <<>> /\ t.voiceSessionId = NoSession
      BY <3>1, <3>2, <3>4, <3>5 DEF SameFields, SameConnection, SameLog, SameVoice, Emptied
    <3>7. BracketInv(t)
      BY <3>6 DEF BracketInv, Bracketed
    <3>8. QED
      BY <2>1, <2>3, <3>6, <3>7 DEF CleanUp, t, c, u
  <2>4. CASE DestroyPosts \/ StopIo \/ Join
    BY <2>4 DEF DestroyPosts, StopIo, Join
  <2>5. QED
    BY <1>5, <2>2, <2>3, <2>4 DEF Destructor
<1>6. CASE UNCHANGED vars
  BY <1>6 DEF vars
<1>7. QED
  BY <1>2, <1>3, <1>4, <1>5, <1>6 DEF Next

\* The invariant of this module holds in every reachable state.
LEMMA FlowInvariance == Spec => [](Inv /\ FlowInv(impl))
<1>1. Init => Inv /\ FlowInv(impl)
  BY InitInv, InitFlow
<1>2. (Inv /\ FlowInv(impl)) /\ [Next]_vars => (Inv /\ FlowInv(impl))'
  BY NextInv, NextFlow
<1>3. QED
  BY <1>1, <1>2, PTL DEF Spec

\* The operations of the present generation, seen through Has.
LEMMA CurrentHas ==
    ASSUME NEW s
    PROVE  \A k : Has(s, k) <=> \E o \in Current(s) : o.kind = k
BY DEF Has, Current, Outstanding

\* Until the destructor runs, beginConnect's chain of handlers neither forks
\* nor comes to a halt: every live stream has one operation of its chain under
\* way, and without a stream there is none.
THEOREM ChainGoesOn == Spec => []ChainNeverStalls
<1>1. Inv /\ FlowInv(impl) => ChainNeverStalls
  <2> SUFFICES ASSUME Inv, FlowInv(impl), ~impl.shuttingDown
               PROVE  IF impl.stream = "null"
                      THEN Current(impl) \cap [kind: ChainKinds, gen: Nat] = {}
                      ELSE \E o \in Current(impl) :
                              /\ o.kind \in ChainOf(impl.stream)
                              /\ \A p \in Current(impl) : p.kind \in ChainKinds => p = o
    BY DEF ChainNeverStalls
  <2>1. impl \in ImplType /\ Unique(impl) /\ RetryInv(impl) /\ ChainInv(impl)
    BY DEF Inv, RecordInv, IoInv, FlowInv, Mid, Base
  <2>2. ASSUME impl.stream = "null"
        PROVE  Current(impl) \cap [kind: ChainKinds, gen: Nat] = {}
    <3> SUFFICES ASSUME NEW o \in Current(impl), o \in [kind: ChainKinds, gen: Nat] PROVE FALSE
      OBVIOUS
    <3>1. o.kind \in ChainKinds
      OBVIOUS
    <3>2. Has(impl, o.kind)
      BY CurrentHas
    <3>3. o.kind \in OpKinds /\ o.kind # RT
      BY <3>1 DEF OpKinds, ChainKinds, RT
    <3>4. QED
      BY <2>1, <2>2, <3>2, <3>3 DEF RetryInv
  <2>3. ASSUME impl.stream # "null"
        PROVE  \E o \in Current(impl) :
                  /\ o.kind \in ChainOf(impl.stream)
                  /\ \A p \in Current(impl) : p.kind \in ChainKinds => p = o
    <3>1. PICK k \in ChainOf(impl.stream) : Has(impl, k)
      BY <2>1, <2>3 DEF ChainInv
    <3>2. PICK o \in Current(impl) : o.kind = k
      BY <3>1, CurrentHas
    <3>3. o.kind \in ChainKinds
      BY <2>1, <3>1, <3>2, StreamChain
    <3>4. ASSUME NEW p \in Current(impl), p.kind \in ChainKinds PROVE p = o
      <4>1. Rivals(impl, o, p) /\ Rivals(impl, p, o)
        BY <3>2, <3>3, <3>4 DEF Rivals, Compete, Current
      <4>2. QED
        BY <2>1, <4>1 DEF Unique, Current, Outstanding
    <3>5. QED
      BY <3>1, <3>2, <3>4
  <2>4. QED
    BY <2>2, <2>3
<1>2. QED
  BY <1>1, FlowInvariance, PTL

\* Until the destructor runs, writeInProgress_ says exactly whether a write of
\* the present stream is outstanding, and no message waits without one.
THEOREM WriterGoesOn == Spec => []WriterNeverStalls
<1>1. Inv /\ FlowInv(impl) => WriterNeverStalls
  BY CurrentHas DEF FlowInv, Mid, Base, QueueInv, WriterNeverStalls
<1>2. QED
  BY <1>1, FlowInvariance, PTL

\* For any number of messages, write failures and reconnections, queueMessage
\* and beginWrite neither lose, repeat nor reorder a message of a stream.
THEOREM NoMessageIsLost == Spec => []WritesInOrder
<1>1. Inv /\ FlowInv(impl) => WritesInOrder
  BY DEF FlowInv, Mid, Base, QueueInv, WritesInOrder
<1>2. QED
  BY <1>1, FlowInvariance, PTL

\* A state of Reconnecting without a stream always has a reconnect timer, of
\* scheduleReconnect's, that will call beginConnect.
THEOREM RetryComes == Spec => []RetryIsScheduled
<1>1. Inv /\ FlowInv(impl) => RetryIsScheduled
  BY DEF FlowInv, Mid, Base, RetryInv, RetryIsScheduled, Alarm, InPending, RT
<1>2. QED
  BY <1>1, FlowInvariance, PTL

\* The reconnect timer's handler checks no generation, and needs none: no
\* reconnect timer is left when a stream is past its TCP connect.
THEOREM RetrySparesLiveStream == Spec => []RetryNeverHitsLiveStream
<1>1. Inv /\ FlowInv(impl) => RetryNeverHitsLiveStream
  <2> SUFFICES ASSUME Inv, FlowInv(impl), ~impl.shuttingDown,
                      NEW o \in Outstanding(impl), o.kind = RT
               PROVE  impl.stream \in {"null", "opened"}
    BY DEF RetryNeverHitsLiveStream, RT
  <2>1. InPending(impl, RT) \/ InReady(impl, RT)
    BY DEF Outstanding, InPending, InReady
  <2>2. QED
    BY <2>1 DEF FlowInv, Mid, Base, RetryInv
<1>2. QED
  BY <1>1, FlowInvariance, PTL

\* Connected means a stream past its handshake, with resetIdleTimer's timer of
\* this very stream, and an application that was told so.
THEOREM ConnectionIsWatched == Spec => []ConnectedIsWatched
<1>1. Inv /\ FlowInv(impl) => ConnectedIsWatched
  BY CurrentHas DEF FlowInv, Mid, Base, WatchInv, ConnectedIsWatched
<1>2. QED
  BY <1>1, FlowInvariance, PTL

\* startVoice, the television's answer, the voice timer, stopVoice and
\* closeStream keep a session, or the wait for one, to a Connected stream.
THEOREM VoiceIsConnected == Spec => []VoiceNeedsConnection
<1>1. Inv /\ FlowInv(impl) => VoiceNeedsConnection
  <2> SUFFICES ASSUME Inv, FlowInv(impl), ~impl.shuttingDown
               PROVE  /\ impl.voiceStarting \/ impl.voiceSessionId # NoSession =>
                            impl.stream = "secure" /\ impl.state = "Connected"
                      /\ ~(impl.voiceStarting /\ impl.voiceSessionId # NoSession)
                      /\ impl.voiceStarting => \E o \in Outstanding(impl) : o.kind = "voiceTimer"
    BY DEF VoiceNeedsConnection
  <2>1. VoiceInv(impl)
    BY DEF FlowInv, Mid
  <2>2. InPending(impl, "voiceTimer") \/ InReady(impl, "voiceTimer") =>
            \E o \in Outstanding(impl) : o.kind = "voiceTimer"
    BY DEF InPending, InReady, Outstanding
  <2>3. QED
    BY <2>1, <2>2 DEF VoiceInv
<1>2. QED
  BY <1>1, FlowInvariance, PTL

\* On each stream sendVoiceData's chunks and stopVoice's end follow the begin
\* of their own session, with no other begin or end in between.
THEOREM SessionsAreBracketed == Spec => []VoiceIsBracketed
<1>1. Inv /\ FlowInv(impl) => VoiceIsBracketed
  BY DEF FlowInv, Mid, BracketInv, Bracketed, VoiceIsBracketed
<1>2. QED
  BY <1>1, FlowInvariance, PTL

=============================================================================
