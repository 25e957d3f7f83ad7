------------------------------- MODULE Pairing -------------------------------
(***************************************************************************)
(* The pairing side of libandroidtvremote: startPairing and finishPairing  *)
(* of AndroidTvRemote::Impl (src/src/android_tv_remote.cpp) and the class  *)
(* PairingSession (src/src/pairing.cpp).  The calls are synchronous and    *)
(* run on the threads of the application; they share pairing_, which       *)
(* pairingMutex_ protects.  startPairing works on a session of its own and *)
(* takes the mutex only to store it; finishPairing holds the mutex from    *)
(* its beginning to its end.  A connection that is dropped is shut down,   *)
(* which waits for the television too.                                     *)
(*                                                                         *)
(* The television is external: it answers each message of the protocol in  *)
(* turn, may add messages that mean nothing, report an error status, break *)
(* the connection, or stay silent.                                         *)
(***************************************************************************)
EXTENDS Naturals

CONSTANTS
    Threads,           \* the application's threads
    NoThread,          \* the owner of a free mutex
    MaxSessions,       \* bound: how many times startPairing is called
    MaxStartMessages,  \* messages start() waits for (8 in the code)
    MaxFinishMessages, \* messages finish() waits for (4 in the code)
    MaxFinishes        \* bound: how many times finishPairing is called

ASSUME ThreadAssumption == NoThread \notin Threads

ASSUME MessageAssumption ==
    /\ MaxSessions \in Nat /\ MaxFinishes \in Nat
    /\ MaxStartMessages \in Nat \ {0} /\ MaxFinishMessages \in Nat \ {0}

VARIABLES
    pc,        \* where each thread is in the call it makes
    mine,      \* the session its call works on
    step,      \* the messages it has read in the present loop
    mutex,     \* the owner of pairingMutex_
    pairing,   \* pairing_: a session, or 0 for null
    session,   \* the PairingSession objects, with the television's end of each
    created,   \* how many startPairing calls there were
    finishes   \* how many finishPairing calls there were

vars == <<pc, mine, step, mutex, pairing, session, created, finishes>>

SessionIds == 1..MaxSessions

\* The television's end: the last protocol message it has taken.
TvStages == {"none", "request", "options", "configuration", "secret", "paired"}

\* connection: connection_, which may be set and yet of no more use.
\* configured: start() saw the configuration acknowledged.  alive: the object
\* is made and its destruction has not begun.
Connections == {"null", "open", "broken"}

SessionType == [connection: Connections, configured: BOOLEAN, alive: BOOLEAN, tv: TvStages]

\* A session before it is made, and once it is destroyed.
NoSession == [connection |-> "null", configured |-> FALSE, alive |-> FALSE, tv |-> "none"]

\* Where a thread waits for the television: for a connection, for a message,
\* or in ~SyncTlsConnection, of a session that start() gave up ("abandoning"),
\* that another replaces ("replacing"), or whose secret was acknowledged
\* ("closing") or was not ("refusing").
AtTelevision == {"connecting", "starting", "finishing", "identifying",
                 "abandoning", "replacing", "closing", "refusing"}

PcValues == AtTelevision \cup {"idle", "disconnecting", "storing", "locking"}

Init ==
    /\ pc = [t \in Threads |-> "idle"]
    /\ mine = [t \in Threads |-> 0]
    /\ step = [t \in Threads |-> 0]
    /\ mutex = NoThread
    /\ pairing = 0
    /\ session = [s \in SessionIds |-> NoSession]
    /\ created = 0
    /\ finishes = 0

Goto(t, where) == pc' = [pc EXCEPT ![t] = where]

\* A call ends, and its local variables with it.
Return(t) ==
    /\ Goto(t, "idle")
    /\ mine' = [mine EXCEPT ![t] = 0]
    /\ step' = [step EXCEPT ![t] = 0]

\* delete of a session, if it is one.
Destroy(s) == [u \in SessionIds |-> IF u = s THEN NoSession ELSE session[u]]

-----------------------------------------------------------------------------
(* What a thread may receive.  A reply the television gives in its turn is   *)
(* the answer to the last message it took; the rest may come at any time.    *)

Answer(stage) ==
    CASE stage = "request"       -> {"requestAck"}
      [] stage = "options"       -> {"options"}
      [] stage = "configuration" -> {"configurationAck"}
      [] stage = "paired"        -> {"secretAck"}
      [] OTHER                   -> {}

\* "other" has status 200 and no field the client looks for; "error" has
\* another status; "broken" is a read that fails.
Replies(s) ==
    IF session[s].connection = "broken" THEN {"broken"}
    ELSE Answer(session[s].tv) \cup {"other", "error", "broken"}

\* requirePairingStatusOk, and asio::read, throw.
Throws(reply) == reply \in {"error", "broken"}

\* What start() sends on a reply, as the television's next stage; an answer
\* that was taken is not given again.
NextStage(stage, reply) ==
    CASE reply = "requestAck"       -> "options"
      [] reply = "options"          -> "configuration"
      [] reply = "configurationAck" -> "none"
      [] OTHER                      -> stage

-----------------------------------------------------------------------------
(* startPairing *)

\* disconnectAndWait posts to the I/O thread and waits.
StartPairing(t) ==
    /\ pc[t] = "idle"
    /\ created < MaxSessions
    /\ created' = created + 1
    /\ mine' = [mine EXCEPT ![t] = created']
    /\ Goto(t, "disconnecting")
    /\ UNCHANGED <<step, mutex, pairing, session, finishes>>

\* The I/O thread has set the promise; the session object is made.
Disconnected(t) ==
    /\ pc[t] = "disconnecting"
    /\ session' = [session EXCEPT ![mine[t]].alive = TRUE]
    /\ Goto(t, "connecting")
    /\ UNCHANGED <<mine, step, mutex, pairing, created, finishes>>

\* The session's unique_ptr leaves its scope with the exception.  A connection
\* that still works is shut down first.
StartThrows(t, where) ==
    /\ session' = Destroy(mine[t])
    /\ \/ where = "idle" /\ Return(t)
       \/ where = "abandoning" /\ Goto(t, where) /\ UNCHANGED <<mine, step>>
    /\ UNCHANGED <<mutex, pairing, created, finishes>>

\* start(): load the identity, connect, send the pairing request ...
ConnectPairing(t) ==
    /\ pc[t] = "connecting"
    /\ session' = [session EXCEPT ![mine[t]].connection = "open", ![mine[t]].tv = "request"]
    /\ step' = [step EXCEPT ![t] = 0]
    /\ Goto(t, "starting")
    /\ UNCHANGED <<mine, mutex, pairing, created, finishes>>

\* ... each of which may throw.
ConnectPairingFails(t) == pc[t] = "connecting" /\ StartThrows(t, "idle")

\* (Broken: the loop's end is taken for success.)
StartGoesOnUnchecked(reply, last) ==
    IF reply = "broken" THEN "idle"
    ELSE IF reply = "error" THEN "abandoning"
    ELSE IF reply = "configurationAck" \/ last THEN "storing" ELSE "starting"

\* Where start() goes with a reply, `last' being the last one it waits for.
\* "idle" and "abandoning" are the exceptions.
StartGoesOn(reply, last) ==
    IF reply = "broken" THEN "idle"
    ELSE IF reply = "error" \/ (last /\ reply # "configurationAck") THEN "abandoning"
    ELSE IF reply = "configurationAck" THEN "storing" ELSE "starting"

\* One turn of start()'s loop.
ReceiveStart(t) ==
    /\ pc[t] = "starting"
    /\ \E reply \in Replies(mine[t]) :
         LET next == StartGoesOn(reply, step[t] + 1 = MaxStartMessages)
         IN  \/ next \in {"idle", "abandoning"} /\ StartThrows(t, next)
             \/ /\ next \in {"starting", "storing"}
                /\ session' = [session EXCEPT
                      ![mine[t]].tv = NextStage(@, reply),
                      ![mine[t]].configured = (reply = "configurationAck")]
                /\ step' = [step EXCEPT ![t] = @ + 1]
                /\ Goto(t, next)
                /\ UNCHANGED <<mine, mutex, pairing, created, finishes>>

\* (Broken: pairing_ is assigned without pairingMutex_.)
MayStoreUnlocked == TRUE

MayStore == mutex = NoThread

\* Under the lock: the new session replaces, and destroys, the one before.  The
\* lock is kept while the television is told of it.
StorePairing(t) ==
    /\ pc[t] = "storing"
    /\ MayStore
    /\ pairing' = mine[t]
    /\ session' = Destroy(pairing)
    /\ \/ /\ pairing # 0 /\ session[pairing].connection = "open"
          /\ mutex' = t
          /\ Goto(t, "replacing")
          /\ UNCHANGED <<mine, step>>
       \/ /\ pairing # 0 => session[pairing].connection # "open"
          /\ Return(t)
          /\ UNCHANGED mutex
    /\ UNCHANGED <<created, finishes>>

-----------------------------------------------------------------------------
(* finishPairing *)

FinishPairing(t) ==
    /\ pc[t] = "idle"
    /\ finishes < MaxFinishes
    /\ finishes' = finishes + 1
    /\ Goto(t, "locking")
    /\ UNCHANGED <<mine, step, mutex, pairing, session, created>>

\* The lock is taken and finish() gets as far as sending the secret: there is
\* a session, it has its connection, and the code passed the local check.
SendSecret(t) ==
    /\ pc[t] = "locking"
    /\ mutex = NoThread
    /\ pairing # 0 /\ session[pairing].connection # "null"
    /\ mutex' = t
    /\ mine' = [mine EXCEPT ![t] = pairing]
    /\ step' = [step EXCEPT ![t] = 0]
    /\ session' = [session EXCEPT
          ![pairing].tv = IF session[pairing].connection = "open" /\ @ # "paired"
                          THEN "secret" ELSE @]
    /\ Goto(t, "finishing")
    /\ UNCHANGED <<pairing, created, finishes>>

\* (Broken: the session's connection_ is reset with the mistyped code.)
RejectCodeCloses(t) ==
    /\ pc[t] = "locking"
    /\ mutex = NoThread
    /\ session' = [s \in SessionIds |->
          IF s = pairing THEN [session[s] EXCEPT !.connection = "null"] ELSE session[s]]
    /\ Return(t)
    /\ UNCHANGED <<mutex, pairing, created, finishes>>

\* The lock is taken and released by an exception before anything is sent:
\* no session, no connection, an unreadable certificate, or a mistyped code.
RejectCode(t) ==
    /\ pc[t] = "locking"
    /\ mutex = NoThread
    /\ Return(t)
    /\ UNCHANGED <<mutex, pairing, session, created, finishes>>

\* The secret is written to a connection that fails; the session keeps it.
SecretNotSent(t) ==
    /\ pc[t] = "locking"
    /\ mutex = NoThread
    /\ pairing # 0 /\ session[pairing].connection # "null"
    /\ session' = [session EXCEPT ![pairing].connection = "broken"]
    /\ Return(t)
    /\ UNCHANGED <<mutex, pairing, created, finishes>>

\* The television compares the secret with its own and accepts the client.
TvAccepts(s) ==
    /\ session[s].tv = "secret"
    /\ session' = [session EXCEPT ![s].tv = "paired"]
    /\ UNCHANGED <<pc, mine, step, mutex, pairing, created, finishes>>

\* (Broken: one message too many.)
LastMessageLate(t) == step[t] = MaxFinishMessages

LastMessage(t) == step[t] + 1 = MaxFinishMessages

\* (Broken: an exception does not release it.)
UnlockNever == UNCHANGED mutex

\* std::lock_guard, when its scope is left.
Unlock == mutex' = NoThread

\* One turn of finish()'s loop.  When a read or a status throws, the session
\* stays with its connection.
ReceiveFinish(t) ==
    /\ pc[t] = "finishing"
    /\ \E reply \in Replies(mine[t]) :
          \/ /\ Throws(reply)
             /\ session' = [session EXCEPT
                   ![mine[t]].connection = IF reply = "broken" THEN "broken" ELSE @]
             /\ Unlock
             /\ Return(t)
          \/ /\ ~Throws(reply)
             /\ step' = [step EXCEPT ![t] = @ + 1]
             /\ Goto(t, IF reply = "secretAck" THEN "closing"
                        ELSE IF LastMessage(t) THEN "refusing" ELSE "finishing")
             /\ UNCHANGED <<mine, mutex, session>>
    /\ UNCHANGED <<pairing, created, finishes>>

\* The end of finish() once its connection is shut down: success destroys the
\* session, the exception leaves it in place, without a connection.
Finished(t) ==
    /\ \/ /\ pc[t] = "closing"
          /\ session' = Destroy(mine[t])
          /\ pairing' = 0
       \/ /\ pc[t] = "refusing"
          /\ session' = [session EXCEPT ![mine[t]].connection = "null"]
          /\ UNCHANGED pairing
    /\ Unlock
    /\ Return(t)
    /\ UNCHANGED <<created, finishes>>

-----------------------------------------------------------------------------
(* A session's destruction, and getNameAndMac, which has a connection of its *)
(* own and shares nothing.                                                   *)

Abandoned(t) ==
    /\ pc[t] = "abandoning"
    /\ Return(t)
    /\ UNCHANGED <<mutex, pairing, session, created, finishes>>

Replaced(t) ==
    /\ pc[t] = "replacing"
    /\ Unlock
    /\ Return(t)
    /\ UNCHANGED <<pairing, session, created, finishes>>

GetNameAndMac(t) ==
    /\ \/ pc[t] = "idle" /\ Goto(t, "identifying")
       \/ pc[t] = "identifying" /\ Goto(t, "idle")
    /\ UNCHANGED <<mine, step, mutex, pairing, session, created, finishes>>

-----------------------------------------------------------------------------
Next ==
    \/ \E t \in Threads :
        \/ StartPairing(t) \/ Disconnected(t)
        \/ ConnectPairing(t) \/ ConnectPairingFails(t)
        \/ ReceiveStart(t) \/ StorePairing(t)
        \/ FinishPairing(t) \/ SendSecret(t) \/ RejectCode(t) \/ SecretNotSent(t)
        \/ ReceiveFinish(t) \/ Finished(t) \/ Abandoned(t) \/ Replaced(t) \/ GetNameAndMac(t)
    \/ \E s \in SessionIds : TvAccepts(s)

Spec == Init /\ [][Next]_vars

\* The I/O thread gets to the posted disconnect, and a thread gets a mutex that
\* stays free.  Nothing is assumed of the television.
Fairness ==
    \A t \in Threads :
        /\ WF_vars(Disconnected(t))
        /\ WF_vars(StorePairing(t))
        /\ WF_vars(SendSecret(t) \/ RejectCode(t) \/ SecretNotSent(t))

FairSpec == Spec /\ Fairness

-----------------------------------------------------------------------------
(* Properties *)

\* Every variable has its type, and each loop stays within its messages.
TypeOK ==
    /\ pc \in [Threads -> PcValues]
    /\ mine \in [Threads -> 0..MaxSessions]
    /\ step \in [Threads -> Nat]
    /\ \A t \in Threads : /\ pc[t] = "starting" => step[t] < MaxStartMessages
                          /\ pc[t] = "finishing" => step[t] < MaxFinishMessages
    /\ mutex \in Threads \cup {NoThread}
    /\ pairing \in 0..MaxSessions
    /\ session \in [SessionIds -> SessionType]
    /\ created \in 0..MaxSessions
    /\ finishes \in Nat

Using(t) == pc[t] \in {"connecting", "starting", "storing", "finishing", "closing", "refusing"}

\* No thread works on a PairingSession that another thread's startPairing has
\* replaced and destroyed, or that another thread works on too: pairingMutex_
\* is held by finishPairing from the look at pairing_ to the last use of it.
SessionsAreNotShared ==
    /\ \A t \in Threads : Using(t) => session[mine[t]].alive
    /\ \A t, u \in Threads : t # u /\ Using(t) /\ Using(u) => mine[t] # mine[u]

\* pairing_ only ever holds a live session whose configuration the television
\* has acknowledged, so the secret is never sent before that, also after a
\* startPairing that failed or was overtaken.
StoredSessionIsConfigured ==
    pairing # 0 => session[pairing].alive /\ session[pairing].configured

\* A session that finish() can still bring to its end.
Usable(r) == r.alive /\ r.configured /\ r.connection = "open"

\* A configured session with its connection is lost in four ways only: a later
\* startPairing puts another one in its place; its connection fails; finish()
\* succeeds, with a secret the television accepted; or finish() has read its
\* four messages without an acknowledgement, which resets connection_
\* (pairing.cpp:174) and leaves a pairing_ that can never finish.  A mistyped
\* code, an error status and a second caller lose nothing: "Keep the live
\* pairing session when local validation rejects a mistyped code, so the caller
\* can retry without restarting the TV pairing flow."
SessionSurvivesRetries ==
    [][\A s \in SessionIds : Usable(session[s]) /\ ~Usable(session'[s]) =>
          \/ pairing = s /\ pairing' \notin {0, s}
          \/ session'[s].connection = "broken"
          \/ \E t \in Threads :
                /\ mine[t] = s
                /\ \/ pc[t] = "closing" /\ session[s].tv = "paired"
                   \/ pc[t] = "refusing" /\ step[t] = MaxFinishMessages]_vars

\* The only thing that can keep a call for ever is the television: the thread
\* waits for it itself, or for pairingMutex_ while the mutex's owner does.  No
\* exception leaves the mutex locked, and no two calls wait for each other.
CallsReturn ==
    \A t \in Threads :
        \/ []<>(pc[t] = "idle")
        \/ <>[](pc[t] \in AtTelevision)
        \/ <>[](/\ pc[t] \in {"locking", "storing"}
                /\ \E u \in Threads : mutex = u /\ pc[u] \in AtTelevision)

=============================================================================
