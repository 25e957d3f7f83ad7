--------------------------- MODULE PairingProofs ---------------------------
(***************************************************************************)
(* Proofs about Pairing, for any number of threads, sessions and messages. *)
(***************************************************************************)
EXTENDS Pairing, TLAPS

\* A thread inside startPairing that has its number and has not stored or
\* dropped its session.
Starting(t) == pc[t] \in {"disconnecting", "connecting", "starting", "storing"}

\* A thread that works on pairing_ inside finish().
Finishing(t) == pc[t] \in {"finishing", "closing", "refusing"}

\* pairingMutex_ is held by the thread that finishes or replaces a session.
LockInv == \A t \in Threads : mutex = t <=> Finishing(t) \/ pc[t] = "replacing"

\* Each startPairing has a session of its own, which nobody else knows.
OwnInv ==
    /\ \A t \in Threads : Starting(t) => mine[t] \in 1..created /\ mine[t] # pairing
    /\ \A t, u \in Threads : t # u /\ Starting(t) /\ Starting(u) => mine[t] # mine[u]

\* What a session is like at each place of startPairing.
StageInv ==
    \A t \in Threads :
        /\ pc[t] \in {"connecting", "starting", "storing"} => session[mine[t]].alive
        /\ pc[t] \in {"disconnecting", "connecting", "starting"} => ~session[mine[t]].configured
        /\ pc[t] = "storing" => session[mine[t]].configured

\* Sessions that no startPairing has asked for yet do not exist.
FreshInv == \A s \in SessionIds : s > created => session[s] = NoSession

\* finish() works on pairing_, goes on to destroy it only when the television
\* has accepted the secret, and gives it up only after its last message.
FinishInv ==
    \A t \in Threads :
        /\ Finishing(t) => mine[t] = pairing /\ pairing # 0
        /\ pc[t] = "closing" => session[mine[t]].tv = "paired"
        /\ pc[t] = "refusing" => step[t] = MaxFinishMessages

StoredInv == /\ pairing <= created
             /\ StoredSessionIsConfigured

Inv == TypeOK /\ LockInv /\ OwnInv /\ StageInv /\ FreshInv /\ FinishInv /\ StoredInv

-----------------------------------------------------------------------------
\* The invariant holds before the first call.
LEMMA InitInv == Init => Inv
  BY ThreadAssumption, MessageAssumption
  DEF Init, Inv, TypeOK, LockInv, OwnInv, StageInv, FreshInv, FinishInv, StoredInv,
      StoredSessionIsConfigured, Starting, Finishing, PcValues, AtTelevision,
      SessionIds, SessionType, Connections, TvStages, NoSession

USE ThreadAssumption, MessageAssumption

-----------------------------------------------------------------------------
(* Sessions *)

\* The record of a session that does not exist.
LEMMA NoSessionType == NoSession \in SessionType /\ ~NoSession.alive /\ ~NoSession.configured
  BY DEF NoSession, SessionType, Connections, TvStages

\* A call of startPairing works on a session that was asked for.
LEMMA OwnSession ==
  ASSUME Inv, NEW t \in Threads, Starting(t)
  PROVE  mine[t] \in SessionIds /\ mine[t] <= created /\ mine[t] # pairing /\ mine[t] # 0
  BY DEF Inv, OwnInv, TypeOK, SessionIds

\* pairing_ is such a session too.
LEMMA StoredSession ==
  ASSUME Inv, pairing # 0
  PROVE  /\ pairing \in SessionIds /\ pairing <= created
         /\ session[pairing].alive /\ session[pairing].configured
  BY DEF Inv, StoredInv, StoredSessionIsConfigured, TypeOK, SessionIds

\* Destroying a session leaves the others alone.
LEMMA DestroyOne ==
  ASSUME TypeOK, NEW s
  PROVE  /\ Destroy(s) \in [SessionIds -> SessionType]
         /\ \A u \in SessionIds : u # s => Destroy(s)[u] = session[u]
         /\ s \in SessionIds => Destroy(s)[s] = NoSession
  BY NoSessionType DEF Destroy, TypeOK

-----------------------------------------------------------------------------
(* startPairing *)

\* startPairing takes a number that no other call has.
LEMMA StartPairingInv ==
  ASSUME Inv, NEW t \in Threads, StartPairing(t)
  PROVE  Inv'
<1> USE DEF Inv, StartPairing, Goto
<1>1. TypeOK'
  BY DEF TypeOK, SessionIds, PcValues, AtTelevision
<1>2. LockInv'
  BY DEF TypeOK, LockInv, Finishing, PcValues, AtTelevision
<1>3. OwnInv'
  BY DEF TypeOK, OwnInv, StoredInv, Starting, PcValues, AtTelevision
<1>4. StageInv'
  BY NoSessionType DEF TypeOK, OwnInv, StageInv, FreshInv, SessionIds, Starting, PcValues, AtTelevision
<1>5. FreshInv'
  BY DEF TypeOK, FreshInv, SessionIds
<1>6. FinishInv'
  BY DEF TypeOK, LockInv, FinishInv, Finishing, PcValues, AtTelevision
<1>7. StoredInv'
  BY DEF TypeOK, StoredInv, StoredSessionIsConfigured
<1> QED  BY <1>1, <1>2, <1>3, <1>4, <1>5, <1>6, <1>7

\* The session object is made.
LEMMA DisconnectedInv ==
  ASSUME Inv, NEW t \in Threads, Disconnected(t)
  PROVE  Inv'
<1> USE DEF Inv, Disconnected, Goto
<1> mine[t] \in SessionIds /\ mine[t] <= created /\ mine[t] # pairing
  BY OwnSession DEF Starting
<1>a. /\ session' \in [SessionIds -> SessionType]
      /\ \A s \in SessionIds : s # mine[t] => session'[s] = session[s]
      /\ session'[mine[t]].alive = TRUE
      /\ session'[mine[t]].configured = session[mine[t]].configured
  <2>1. session[mine[t]] \in SessionType /\ session \in [SessionIds -> SessionType]
    BY DEF TypeOK
  <2>2. session' = [session EXCEPT ![mine[t]] = [session[mine[t]] EXCEPT !.alive = TRUE]]
    OBVIOUS
  <2> HIDE DEF Inv, Disconnected
  <2> QED  BY <2>1, <2>2 DEF SessionType
<1>1. TypeOK'
  BY <1>a DEF TypeOK, PcValues, AtTelevision
<1>2. LockInv'
  BY DEF TypeOK, LockInv, Finishing, PcValues, AtTelevision
<1>3. OwnInv'
  BY DEF TypeOK, OwnInv, StoredInv, Starting, PcValues, AtTelevision
<1>4. StageInv'
  BY <1>a DEF TypeOK, OwnInv, StageInv, Starting, SessionIds, PcValues, AtTelevision
<1>5. FreshInv'
  BY <1>a DEF TypeOK, FreshInv
<1>6. FinishInv'
  BY <1>a DEF TypeOK, LockInv, FinishInv, Finishing, PcValues, AtTelevision
<1>7. StoredInv'
  BY <1>a, StoredSession DEF TypeOK, StoredInv, StoredSessionIsConfigured
<1> QED  BY <1>1, <1>2, <1>3, <1>4, <1>5, <1>6, <1>7

\* start() has its connection.
LEMMA ConnectPairingInv ==
  ASSUME Inv, NEW t \in Threads, ConnectPairing(t)
  PROVE  Inv'
<1> USE DEF Inv, ConnectPairing, Goto
<1> mine[t] \in SessionIds /\ mine[t] <= created /\ mine[t] # pairing
  BY OwnSession DEF Starting
<1>a. /\ session' \in [SessionIds -> SessionType]
      /\ \A s \in SessionIds : s # mine[t] => session'[s] = session[s]
      /\ session'[mine[t]].alive = TRUE
      /\ session'[mine[t]].configured = session[mine[t]].configured
  <2>1. session[mine[t]] \in SessionType /\ session \in [SessionIds -> SessionType]
    BY DEF TypeOK
  <2>2. session' = [session EXCEPT ![mine[t]] =
                      [session[mine[t]] EXCEPT !.connection = "open", !.tv = "request"]]
    OBVIOUS
  <2>3. session[mine[t]].alive = TRUE
    BY <2>1 DEF StageInv, SessionType
  <2> HIDE DEF Inv, ConnectPairing
  <2> QED  BY <2>1, <2>2, <2>3 DEF SessionType, Connections, TvStages
<1>1. TypeOK'
  BY <1>a DEF TypeOK, PcValues, AtTelevision
<1>2. LockInv'
  BY DEF TypeOK, LockInv, Finishing, PcValues, AtTelevision
<1>3. OwnInv'
  BY DEF TypeOK, OwnInv, StoredInv, Starting, PcValues, AtTelevision
<1>4. StageInv'
  BY <1>a DEF TypeOK, OwnInv, StageInv, Starting, SessionIds, PcValues, AtTelevision
<1>5. FreshInv'
  BY <1>a DEF TypeOK, FreshInv
<1>6. FinishInv'
  BY <1>a, StoredSession DEF TypeOK, LockInv, FinishInv, Finishing, PcValues, AtTelevision
<1>7. StoredInv'
  BY <1>a, StoredSession DEF TypeOK, StoredInv, StoredSessionIsConfigured
<1> QED  BY <1>1, <1>2, <1>3, <1>4, <1>5, <1>6, <1>7

\* An exception of start() destroys its session.
LEMMA StartThrowsInv ==
  ASSUME Inv, NEW t \in Threads, NEW where,
         pc[t] \in {"connecting", "starting"}, StartThrows(t, where)
  PROVE  Inv'
<1> USE DEF Inv, StartThrows, Return, Goto
<1> mine[t] \in SessionIds /\ mine[t] <= created /\ mine[t] # pairing
  BY OwnSession DEF Starting
<1>a. /\ session' \in [SessionIds -> SessionType]
      /\ \A s \in SessionIds : s # mine[t] => session'[s] = session[s]
      /\ session'[mine[t]] = NoSession
  BY DestroyOne
<1>p. /\ \/ pc' = [pc EXCEPT ![t] = "idle"] /\ mine' = [mine EXCEPT ![t] = 0]
         \/ pc' = [pc EXCEPT ![t] = "abandoning"] /\ UNCHANGED mine
      /\ UNCHANGED <<mutex, pairing, created, finishes>>
  OBVIOUS
<1>1. TypeOK'
  BY <1>a DEF TypeOK, PcValues, AtTelevision
<1>2. LockInv'
  BY DEF TypeOK, LockInv, Finishing, PcValues, AtTelevision
<1>3. OwnInv'
  BY DEF TypeOK, OwnInv, StoredInv, Starting, PcValues, AtTelevision
<1>4. StageInv'
  BY <1>a, <1>p DEF TypeOK, OwnInv, StageInv, Starting, SessionIds, PcValues, AtTelevision
<1>5. FreshInv'
  BY <1>a DEF TypeOK, FreshInv
<1>6. FinishInv'
  BY <1>a, <1>p, StoredSession DEF TypeOK, LockInv, FinishInv, Finishing, PcValues, AtTelevision
<1>7. StoredInv'
  BY <1>a, StoredSession DEF TypeOK, StoredInv, StoredSessionIsConfigured
<1> QED  BY <1>1, <1>2, <1>3, <1>4, <1>5, <1>6, <1>7

\* start() fails before its loop.
LEMMA ConnectPairingFailsInv ==
  ASSUME Inv, NEW t \in Threads, ConnectPairingFails(t)
  PROVE  Inv'
  BY StartThrowsInv DEF ConnectPairingFails

\* A message for start(), or an exception.
LEMMA ReceiveStartInv ==
  ASSUME Inv, NEW t \in Threads, ReceiveStart(t)
  PROVE  Inv'
<1> USE DEF Inv
<1> PICK reply \in Replies(mine[t]) :
         LET next == StartGoesOn(reply, step[t] + 1 = MaxStartMessages)
         IN  \/ next \in {"idle", "abandoning"} /\ StartThrows(t, next)
             \/ /\ next \in {"starting", "storing"}
                /\ session' = [session EXCEPT
                      ![mine[t]].tv = NextStage(@, reply),
                      ![mine[t]].configured = (reply = "configurationAck")]
                /\ step' = [step EXCEPT ![t] = @ + 1]
                /\ Goto(t, next)
                /\ UNCHANGED <<mine, mutex, pairing, created, finishes>>
  BY DEF ReceiveStart
<1> DEFINE next == StartGoesOn(reply, step[t] + 1 = MaxStartMessages)
<1> pc[t] = "starting"
  BY DEF ReceiveStart
<1>t. ASSUME StartThrows(t, next)  PROVE Inv'
  BY <1>t, StartThrowsInv
<1> SUFFICES ASSUME ~StartThrows(t, next)  PROVE Inv'
  BY <1>t
<1>g. /\ next = IF reply = "configurationAck" THEN "storing" ELSE "starting"
      /\ next = "starting" => step[t] + 1 # MaxStartMessages
  BY DEF StartGoesOn
<1>h. /\ session' = [session EXCEPT
            ![mine[t]].tv = NextStage(@, reply),
            ![mine[t]].configured = (reply = "configurationAck")]
      /\ step' = [step EXCEPT ![t] = @ + 1]
      /\ Goto(t, next)
      /\ UNCHANGED <<mine, mutex, pairing, created, finishes>>
  OBVIOUS
<1> HIDE DEF next
<1> mine[t] \in SessionIds /\ mine[t] <= created /\ mine[t] # pairing
  BY OwnSession DEF Starting
<1>n. NextStage(session[mine[t]].tv, reply) \in TvStages
  BY DEF NextStage, TvStages, TypeOK, SessionType
<1>a. /\ session' \in [SessionIds -> SessionType]
      /\ \A s \in SessionIds : s # mine[t] => session'[s] = session[s]
      /\ session'[mine[t]].alive = TRUE
      /\ session'[mine[t]].configured = (next = "storing")
  <2>1. session[mine[t]] \in SessionType /\ session \in [SessionIds -> SessionType]
    BY DEF TypeOK
  <2>2. session' = [session EXCEPT ![mine[t]] =
                      [session[mine[t]] EXCEPT !.tv = NextStage(@, reply),
                                               !.configured = (next = "storing")]]
    BY <1>g, <1>h
  <2>3. session[mine[t]].alive = TRUE
    BY <2>1 DEF StageInv, SessionType
  <2> QED  BY <1>n, <2>1, <2>2, <2>3 DEF SessionType
<1>1. TypeOK'
  BY <1>a, <1>g, <1>h DEF TypeOK, Goto, PcValues, AtTelevision
<1>2. LockInv'
  BY <1>g, <1>h DEF TypeOK, LockInv, Goto, Finishing, PcValues, AtTelevision
<1>3. OwnInv'
  BY <1>g, <1>h DEF TypeOK, OwnInv, StoredInv, Goto, Starting, PcValues, AtTelevision
<1>4. StageInv'
  <2>1. /\ mine' = mine /\ next \in {"starting", "storing"}
        /\ \A u \in Threads : pc'[u] = IF u = t THEN next ELSE pc[u]
    BY <1>g, <1>h DEF TypeOK, Goto
  <2>2. ASSUME NEW u \in Threads, u # t, Starting(u)
        PROVE  session'[mine[u]] = session[mine[u]]
    BY <1>a, <2>2, OwnSession DEF OwnInv, Starting
  <2>3. /\ session'[mine[t]].alive
        /\ session'[mine[t]].configured <=> next = "storing"
    BY <1>a
  <2> SUFFICES ASSUME NEW u \in Threads
        PROVE  /\ pc'[u] \in {"connecting", "starting", "storing"} => session'[mine[u]].alive
               /\ pc'[u] \in {"disconnecting", "connecting", "starting"} => ~session'[mine[u]].configured
               /\ pc'[u] = "storing" => session'[mine[u]].configured
    BY <2>1 DEF StageInv
  <2>4. CASE u = t
    BY <2>1, <2>3, <2>4
  <2>5. CASE u # t
    BY <2>1, <2>2, <2>5 DEF StageInv, Starting
  <2> QED  BY <2>4, <2>5
<1>5. FreshInv'
  BY <1>a, <1>h DEF TypeOK, FreshInv
<1>6. FinishInv'
  BY <1>a, <1>g, <1>h, StoredSession DEF TypeOK, LockInv, FinishInv, Goto, Finishing, PcValues, AtTelevision
<1>7. StoredInv'
  BY <1>a, <1>h, StoredSession DEF TypeOK, StoredInv, StoredSessionIsConfigured
<1> QED  BY <1>1, <1>2, <1>3, <1>4, <1>5, <1>6, <1>7

\* The session becomes pairing_, and the one before it is destroyed.
LEMMA StorePairingInv ==
  ASSUME Inv, NEW t \in Threads, StorePairing(t)
  PROVE  Inv'
<1> USE DEF Inv, StorePairing, MayStore, Return, Goto
<1> mine[t] \in SessionIds /\ mine[t] <= created /\ mine[t] # pairing /\ mine[t] # 0
  BY OwnSession DEF Starting
<1>m. mutex = NoThread /\ \A u \in Threads : ~Finishing(u) /\ pc[u] # "replacing"
  BY DEF LockInv
<1>a. /\ session' \in [SessionIds -> SessionType]
      /\ \A s \in SessionIds : s # pairing => session'[s] = session[s]
      /\ pairing \in SessionIds => session'[pairing] = NoSession
  BY DestroyOne
<1>p. /\ pairing' = mine[t]
      /\ \/ mutex' = t /\ pc' = [pc EXCEPT ![t] = "replacing"] /\ mine' = mine /\ step' = step
         \/ /\ mutex' = mutex /\ pc' = [pc EXCEPT ![t] = "idle"]
            /\ mine' = [mine EXCEPT ![t] = 0] /\ step' = [step EXCEPT ![t] = 0]
      /\ UNCHANGED <<created, finishes>>
  BY StorePairing(t)
<1>1. TypeOK'
  <2>1. pc' \in [Threads -> PcValues] /\ step' \in [Threads -> Nat] /\ mine' \in [Threads -> 0..MaxSessions]
    BY <1>p DEF TypeOK, PcValues, AtTelevision
  <2>2. \A u \in Threads : /\ pc'[u] = "starting" => step'[u] < MaxStartMessages
                           /\ pc'[u] = "finishing" => step'[u] < MaxFinishMessages
    BY <1>p DEF TypeOK
  <2>3. mutex' \in Threads \cup {NoThread} /\ pairing' \in 0..MaxSessions
    BY <1>p DEF TypeOK, SessionIds
  <2>4. created' \in 0..MaxSessions /\ finishes' \in Nat
    BY <1>p DEF TypeOK
  <2> QED  BY <1>a, <2>1, <2>2, <2>3, <2>4 DEF TypeOK
<1>2. LockInv'
  BY <1>m, <1>p DEF TypeOK, LockInv, Finishing, PcValues, AtTelevision
<1>3. OwnInv'
  BY <1>p DEF TypeOK, OwnInv, Starting, PcValues, AtTelevision
<1>4. StageInv'
  BY <1>a, <1>p DEF TypeOK, OwnInv, StageInv, Starting, SessionIds, PcValues, AtTelevision
<1>5. FreshInv'
  BY <1>a, <1>p DEF TypeOK, FreshInv
<1>6. FinishInv'
  BY <1>m, <1>p DEF TypeOK, FinishInv, Finishing, PcValues, AtTelevision
<1>7. StoredInv'
  BY <1>a, <1>p DEF TypeOK, StageInv, StoredInv, StoredSessionIsConfigured
<1> QED  BY <1>1, <1>2, <1>3, <1>4, <1>5, <1>6, <1>7

-----------------------------------------------------------------------------
(* finishPairing *)

\* finishPairing is called.
LEMMA FinishPairingInv ==
  ASSUME Inv, NEW t \in Threads, FinishPairing(t)
  PROVE  Inv'
<1> USE DEF Inv, FinishPairing, Goto
<1>1. TypeOK'
  BY DEF TypeOK, PcValues, AtTelevision
<1>2. LockInv'
  BY DEF TypeOK, LockInv, Finishing, PcValues, AtTelevision
<1>3. OwnInv'
  BY DEF TypeOK, OwnInv, StoredInv, Starting, PcValues, AtTelevision
<1>4. StageInv'
  BY DEF TypeOK, OwnInv, StageInv, Starting, PcValues, AtTelevision
<1>5. FreshInv'
  BY DEF TypeOK, FreshInv
<1>6. FinishInv'
  BY DEF TypeOK, LockInv, FinishInv, Finishing, PcValues, AtTelevision
<1>7. StoredInv'
  BY DEF TypeOK, StoredInv, StoredSessionIsConfigured
<1> QED  BY <1>1, <1>2, <1>3, <1>4, <1>5, <1>6, <1>7

\* finish() begins.
LEMMA SendSecretInv ==
  ASSUME Inv, NEW t \in Threads, SendSecret(t)
  PROVE  Inv'
<1> USE DEF Inv, SendSecret, Goto
<1>m. mutex = NoThread /\ \A u \in Threads : ~Finishing(u) /\ pc[u] # "replacing"
  BY DEF LockInv
<1> pairing \in SessionIds /\ pairing <= created
  BY StoredSession
<1>a. /\ session' \in [SessionIds -> SessionType]
      /\ \A s \in SessionIds : s # pairing => session'[s] = session[s]
      /\ session'[pairing].alive = session[pairing].alive
      /\ session'[pairing].configured = session[pairing].configured
  BY DEF TypeOK, SessionType, TvStages
<1>p. /\ mutex' = t /\ pc' = [pc EXCEPT ![t] = "finishing"]
      /\ mine' = [mine EXCEPT ![t] = pairing] /\ step' = [step EXCEPT ![t] = 0]
      /\ UNCHANGED <<pairing, created, finishes>> /\ pc[t] = "locking" /\ pairing # 0
  OBVIOUS
<1>1. TypeOK'
  BY <1>a, <1>p DEF TypeOK, SessionIds, PcValues, AtTelevision
<1>2. LockInv'
  BY <1>m, <1>p DEF TypeOK, LockInv, Finishing, PcValues, AtTelevision
<1>3. OwnInv'
  BY <1>p DEF TypeOK, OwnInv, Starting, PcValues, AtTelevision
<1>4. StageInv'
  BY <1>a, <1>p DEF TypeOK, OwnInv, StageInv, Starting, SessionIds, PcValues, AtTelevision
<1>5. FreshInv'
  BY <1>a, <1>p DEF TypeOK, FreshInv
<1>6. FinishInv'
  BY <1>m, <1>p DEF TypeOK, FinishInv, Finishing, PcValues, AtTelevision
<1>7. StoredInv'
  BY <1>a, <1>p DEF TypeOK, StoredInv, StoredSessionIsConfigured
<1> QED  BY <1>1, <1>2, <1>3, <1>4, <1>5, <1>6, <1>7

\* finish() throws before it sends anything.
LEMMA RejectCodeInv ==
  ASSUME Inv, NEW t \in Threads, RejectCode(t)
  PROVE  Inv'
<1> USE DEF Inv, RejectCode, Return, Goto
<1>1. TypeOK'
  BY DEF TypeOK, PcValues, AtTelevision
<1>2. LockInv'
  BY DEF TypeOK, LockInv, Finishing, PcValues, AtTelevision
<1>3. OwnInv'
  BY DEF TypeOK, OwnInv, StoredInv, Starting, PcValues, AtTelevision
<1>4. StageInv'
  BY DEF TypeOK, OwnInv, StageInv, Starting, PcValues, AtTelevision
<1>5. FreshInv'
  BY DEF TypeOK, FreshInv
<1>6. FinishInv'
  BY DEF TypeOK, LockInv, FinishInv, Finishing, PcValues, AtTelevision
<1>7. StoredInv'
  BY DEF TypeOK, StoredInv, StoredSessionIsConfigured
<1> QED  BY <1>1, <1>2, <1>3, <1>4, <1>5, <1>6, <1>7

\* finish() throws when it sends the secret.
LEMMA SecretNotSentInv ==
  ASSUME Inv, NEW t \in Threads, SecretNotSent(t)
  PROVE  Inv'
<1> USE DEF Inv, SecretNotSent, Return, Goto
<1>m. mutex = NoThread /\ \A u \in Threads : ~Finishing(u) /\ pc[u] # "replacing"
  BY DEF LockInv
<1> pairing \in SessionIds /\ pairing <= created
  BY StoredSession
<1>a. /\ session' \in [SessionIds -> SessionType]
      /\ \A s \in SessionIds : s # pairing => session'[s] = session[s]
      /\ session'[pairing].alive = session[pairing].alive
      /\ session'[pairing].configured = session[pairing].configured
  BY DEF TypeOK, SessionType, Connections
<1>p. /\ UNCHANGED <<mutex, pairing, created, finishes>>
      /\ pc' = [pc EXCEPT ![t] = "idle"]
      /\ mine' = [mine EXCEPT ![t] = 0] /\ step' = [step EXCEPT ![t] = 0]
  OBVIOUS
<1>1. TypeOK'
  BY <1>a, <1>p DEF TypeOK, PcValues, AtTelevision
<1>2. LockInv'
  BY <1>m, <1>p DEF TypeOK, LockInv, Finishing, PcValues, AtTelevision
<1>3. OwnInv'
  BY <1>p DEF TypeOK, OwnInv, Starting, PcValues, AtTelevision
<1>4. StageInv'
  BY <1>a, <1>p DEF TypeOK, OwnInv, StageInv, Starting, SessionIds, PcValues, AtTelevision
<1>5. FreshInv'
  BY <1>a, <1>p DEF TypeOK, FreshInv
<1>6. FinishInv'
  BY <1>m, <1>p DEF TypeOK, FinishInv, Finishing, PcValues, AtTelevision
<1>7. StoredInv'
  BY <1>a, <1>p DEF TypeOK, StoredInv, StoredSessionIsConfigured
<1> QED  BY <1>1, <1>2, <1>3, <1>4, <1>5, <1>6, <1>7

\* A message for finish(), or an exception.
LEMMA ReceiveFinishInv ==
  ASSUME Inv, NEW t \in Threads, ReceiveFinish(t)
  PROVE  Inv'
<1> USE DEF Inv, ReceiveFinish, Unlock, Return, Goto
<1> pc[t] = "finishing"
  OBVIOUS
<1> mine[t] = pairing /\ pairing # 0 /\ mutex = t
  BY DEF FinishInv, LockInv, Finishing
<1> pairing \in SessionIds /\ pairing <= created
  BY StoredSession
<1>m. \A u \in Threads : u # t => ~Finishing(u) /\ pc[u] # "replacing"
  BY DEF LockInv
<1>a. /\ session' \in [SessionIds -> SessionType]
      /\ \A s \in SessionIds : s # pairing => session'[s] = session[s]
      /\ session'[pairing].alive = session[pairing].alive
      /\ session'[pairing].configured = session[pairing].configured
      /\ session'[pairing].tv = session[pairing].tv
  BY DEF TypeOK, SessionType, Connections
<1>p. /\ UNCHANGED <<pairing, created, finishes>>
      /\ \/ /\ mutex' = NoThread /\ pc' = [pc EXCEPT ![t] = "idle"]
            /\ mine' = [mine EXCEPT ![t] = 0] /\ step' = [step EXCEPT ![t] = 0]
         \/ /\ UNCHANGED <<mutex, mine>> /\ step' = [step EXCEPT ![t] = @ + 1]
            /\ \/ pc' = [pc EXCEPT ![t] = "closing"] /\ session[pairing].tv = "paired"
               \/ pc' = [pc EXCEPT ![t] = "refusing"] /\ step[t] + 1 = MaxFinishMessages
               \/ pc' = [pc EXCEPT ![t] = "finishing"] /\ step[t] + 1 # MaxFinishMessages
  BY DEF Replies, Answer, Throws, LastMessage
<1>1. TypeOK'
  <2>1. pc' \in [Threads -> PcValues] /\ step' \in [Threads -> Nat] /\ mine' \in [Threads -> 0..MaxSessions]
    BY <1>p DEF TypeOK, PcValues, AtTelevision
  <2>2. \A u \in Threads : /\ pc'[u] = "starting" => step'[u] < MaxStartMessages
                           /\ pc'[u] = "finishing" => step'[u] < MaxFinishMessages
    BY <1>p DEF TypeOK
  <2>3. mutex' \in Threads \cup {NoThread} /\ pairing' \in 0..MaxSessions
    BY <1>p DEF TypeOK
  <2>4. created' \in 0..MaxSessions /\ finishes' \in Nat
    BY <1>p DEF TypeOK
  <2> QED  BY <1>a, <2>1, <2>2, <2>3, <2>4 DEF TypeOK
<1>2. LockInv'
  BY <1>m, <1>p DEF TypeOK, LockInv, Finishing, PcValues, AtTelevision
<1>3. OwnInv'
  BY <1>p DEF TypeOK, OwnInv, Starting, PcValues, AtTelevision
<1>4. StageInv'
  BY <1>a, <1>p DEF TypeOK, OwnInv, StageInv, Starting, SessionIds, PcValues, AtTelevision
<1>5. FreshInv'
  BY <1>a, <1>p DEF TypeOK, FreshInv
<1>6. FinishInv'
  BY <1>a, <1>m, <1>p DEF TypeOK, FinishInv, Finishing, PcValues, AtTelevision
<1>7. StoredInv'
  BY <1>a, <1>p DEF TypeOK, StoredInv, StoredSessionIsConfigured
<1> QED  BY <1>1, <1>2, <1>3, <1>4, <1>5, <1>6, <1>7

\* finish() ends.
LEMMA FinishedInv ==
  ASSUME Inv, NEW t \in Threads, Finished(t)
  PROVE  Inv'
<1> USE DEF Inv, Finished, Unlock, Return, Goto
<1> mine[t] = pairing /\ pairing # 0 /\ mutex = t
  BY DEF FinishInv, LockInv, Finishing
<1> pairing \in SessionIds /\ pairing <= created
  BY StoredSession
<1>m. \A u \in Threads : u # t => ~Finishing(u) /\ pc[u] # "replacing"
  BY DEF LockInv
<1>a. /\ session' \in [SessionIds -> SessionType]
      /\ \A s \in SessionIds : s # pairing => session'[s] = session[s]
      /\ pairing' # 0 => /\ pairing' = pairing
                         /\ session'[pairing].alive = session[pairing].alive
                         /\ session'[pairing].configured = session[pairing].configured
  <2>1. CASE pc[t] = "closing"
    BY <2>1, DestroyOne
  <2>2. CASE pc[t] = "refusing"
    BY <2>2 DEF TypeOK, SessionType, Connections
  <2> QED  BY <2>1, <2>2
<1>p. /\ UNCHANGED <<created, finishes>> /\ pairing' \in {0, pairing}
      /\ mutex' = NoThread /\ pc' = [pc EXCEPT ![t] = "idle"]
      /\ mine' = [mine EXCEPT ![t] = 0] /\ step' = [step EXCEPT ![t] = 0]
  OBVIOUS
<1>1. TypeOK'
  BY <1>a, <1>p DEF TypeOK, SessionIds, PcValues, AtTelevision
<1>2. LockInv'
  BY <1>m, <1>p DEF TypeOK, LockInv, Finishing, PcValues, AtTelevision
<1>3. OwnInv'
  BY <1>p DEF TypeOK, OwnInv, Starting, PcValues, AtTelevision
<1>4. StageInv'
  BY <1>a, <1>p DEF TypeOK, OwnInv, StageInv, Starting, SessionIds, PcValues, AtTelevision
<1>5. FreshInv'
  BY <1>a, <1>p DEF TypeOK, FreshInv
<1>6. FinishInv'
  BY <1>m, <1>p DEF TypeOK, FinishInv, Finishing, PcValues, AtTelevision
<1>7. StoredInv'
  BY <1>a, <1>p DEF TypeOK, StoredInv, StoredSessionIsConfigured
<1> QED  BY <1>1, <1>2, <1>3, <1>4, <1>5, <1>6, <1>7

-----------------------------------------------------------------------------
(* The rest *)

\* A session that start() gave up is gone.
LEMMA AbandonedInv ==
  ASSUME Inv, NEW t \in Threads, Abandoned(t)
  PROVE  Inv'
<1> USE DEF Inv, Abandoned, Return, Goto
<1>1. TypeOK'
  BY DEF TypeOK, PcValues, AtTelevision
<1>2. LockInv'
  BY DEF TypeOK, LockInv, Finishing, PcValues, AtTelevision
<1>3. OwnInv'
  BY DEF TypeOK, OwnInv, StoredInv, Starting, PcValues, AtTelevision
<1>4. StageInv'
  BY DEF TypeOK, OwnInv, StageInv, Starting, PcValues, AtTelevision
<1>5. FreshInv'
  BY DEF TypeOK, FreshInv
<1>6. FinishInv'
  BY DEF TypeOK, LockInv, FinishInv, Finishing, PcValues, AtTelevision
<1>7. StoredInv'
  BY DEF TypeOK, StoredInv, StoredSessionIsConfigured
<1> QED  BY <1>1, <1>2, <1>3, <1>4, <1>5, <1>6, <1>7

\* A session that was replaced is gone.
LEMMA ReplacedInv ==
  ASSUME Inv, NEW t \in Threads, Replaced(t)
  PROVE  Inv'
<1> USE DEF Inv, Replaced, Unlock, Return, Goto
<1>1. TypeOK'
  BY DEF TypeOK, PcValues, AtTelevision
<1>2. LockInv'
  BY DEF TypeOK, LockInv, Finishing, PcValues, AtTelevision
<1>3. OwnInv'
  BY DEF TypeOK, OwnInv, StoredInv, Starting, PcValues, AtTelevision
<1>4. StageInv'
  BY DEF TypeOK, OwnInv, StageInv, Starting, PcValues, AtTelevision
<1>5. FreshInv'
  BY DEF TypeOK, FreshInv
<1>6. FinishInv'
  BY DEF TypeOK, LockInv, FinishInv, Finishing, PcValues, AtTelevision
<1>7. StoredInv'
  BY DEF TypeOK, StoredInv, StoredSessionIsConfigured
<1> QED  BY <1>1, <1>2, <1>3, <1>4, <1>5, <1>6, <1>7

\* getNameAndMac shares nothing.
LEMMA GetNameAndMacInv ==
  ASSUME Inv, NEW t \in Threads, GetNameAndMac(t)
  PROVE  Inv'
<1> USE DEF Inv, GetNameAndMac, Goto
<1>1. TypeOK'
  BY DEF TypeOK, PcValues, AtTelevision
<1>2. LockInv'
  BY DEF TypeOK, LockInv, Finishing, PcValues, AtTelevision
<1>3. OwnInv'
  BY DEF TypeOK, OwnInv, StoredInv, Starting, PcValues, AtTelevision
<1>4. StageInv'
  BY DEF TypeOK, OwnInv, StageInv, Starting, PcValues, AtTelevision
<1>5. FreshInv'
  BY DEF TypeOK, FreshInv
<1>6. FinishInv'
  BY DEF TypeOK, LockInv, FinishInv, Finishing, PcValues, AtTelevision
<1>7. StoredInv'
  BY DEF TypeOK, StoredInv, StoredSessionIsConfigured
<1> QED  BY <1>1, <1>2, <1>3, <1>4, <1>5, <1>6, <1>7

\* The television accepts a secret.
LEMMA TvAcceptsInv ==
  ASSUME Inv, NEW s \in SessionIds, TvAccepts(s)
  PROVE  Inv'
<1> USE DEF Inv, TvAccepts
<1>a. /\ session' \in [SessionIds -> SessionType]
      /\ \A u \in SessionIds : /\ session'[u].alive = session[u].alive
                               /\ session'[u].configured = session[u].configured
                               /\ session[u].tv = "paired" => session'[u].tv = "paired"
                               /\ session[u] = NoSession => session'[u] = NoSession
  <2>1. session[s] \in SessionType /\ session \in [SessionIds -> SessionType]
    BY DEF TypeOK
  <2>2. session' = [session EXCEPT ![s] = [session[s] EXCEPT !.tv = "paired"]]
    OBVIOUS
  <2>3. session[s] # NoSession
    BY DEF NoSession
  <2> HIDE DEF Inv, TvAccepts
  <2> QED  BY <2>1, <2>2, <2>3 DEF SessionType, TvStages
<1>1. TypeOK'
  BY <1>a DEF TypeOK
<1>2. LockInv'
  BY DEF LockInv, Finishing
<1>3. OwnInv'
  BY DEF OwnInv, Starting
<1>4. StageInv'
  BY <1>a DEF TypeOK, OwnInv, StageInv, Starting, SessionIds
<1>5. FreshInv'
  BY <1>a DEF TypeOK, FreshInv
<1>6. FinishInv'
  BY <1>a DEF TypeOK, FinishInv, Finishing, SessionIds
<1>7. StoredInv'
  BY <1>a, StoredSession DEF TypeOK, StoredInv, StoredSessionIsConfigured
<1> QED  BY <1>1, <1>2, <1>3, <1>4, <1>5, <1>6, <1>7

\* Every step preserves the invariant.
LEMMA NextInv == Inv /\ [Next]_vars => Inv'
<1> SUFFICES ASSUME Inv, [Next]_vars  PROVE Inv'
  OBVIOUS
<1>1. CASE UNCHANGED vars
  BY <1>1 DEF vars, Inv, TypeOK, LockInv, OwnInv, StageInv, FreshInv, FinishInv, StoredInv,
              StoredSessionIsConfigured, Starting, Finishing
<1>2. ASSUME NEW s \in SessionIds, TvAccepts(s)  PROVE Inv'
  BY <1>2, TvAcceptsInv
<1>3. ASSUME NEW t \in Threads,
             \/ StartPairing(t) \/ Disconnected(t)
             \/ ConnectPairing(t) \/ ConnectPairingFails(t)
             \/ ReceiveStart(t) \/ StorePairing(t)
      PROVE  Inv'
  BY <1>3, StartPairingInv, DisconnectedInv, ConnectPairingInv, ConnectPairingFailsInv,
     ReceiveStartInv, StorePairingInv
<1>4. ASSUME NEW t \in Threads,
             \/ FinishPairing(t) \/ SendSecret(t) \/ RejectCode(t) \/ SecretNotSent(t)
             \/ ReceiveFinish(t) \/ Finished(t) \/ Abandoned(t) \/ Replaced(t) \/ GetNameAndMac(t)
      PROVE  Inv'
  BY <1>4, FinishPairingInv, SendSecretInv, RejectCodeInv, SecretNotSentInv,
     ReceiveFinishInv, FinishedInv, AbandonedInv, ReplacedInv, GetNameAndMacInv
<1> QED  BY <1>1, <1>2, <1>3, <1>4 DEF Next

\* The invariant holds in every reachable state.
LEMMA InvHolds == Spec => []Inv
  BY InitInv, NextInv, PTL DEF Spec

-----------------------------------------------------------------------------
\* Every variable keeps its type, and start() and finish() stay within their
\* eight and four messages.
THEOREM PairingTypes == Spec => []TypeOK
<1>1. Inv => TypeOK
  BY DEF Inv
<1> QED  BY <1>1, InvHolds, PTL

\* No thread works on a session that another one works on or has destroyed.
THEOREM NoSharedSession == Spec => []SessionsAreNotShared
<1>1. ASSUME Inv  PROVE SessionsAreNotShared
  <2> USE <1>1 DEF Inv
  <2>1. ASSUME NEW t \in Threads, Using(t)
        PROVE  Starting(t) \/ (Finishing(t) /\ mutex = t)
    BY <2>1 DEF Using, Starting, Finishing, LockInv
  <2>2. ASSUME NEW t \in Threads, Using(t)  PROVE session[mine[t]].alive
    BY <2>2, <2>1, StoredSession DEF Using, StageInv, FinishInv, Finishing, Starting
  <2>3. ASSUME NEW t \in Threads, NEW u \in Threads, t # u, Using(t), Using(u)
        PROVE  mine[t] # mine[u]
    BY <2>3, <2>1 DEF OwnInv, FinishInv
  <2> QED  BY <2>2, <2>3 DEF SessionsAreNotShared
<1> QED  BY <1>1, InvHolds, PTL

\* pairing_ only ever holds a live session whose configuration the television
\* has acknowledged.
THEOREM OnlyConfiguredIsStored == Spec => []StoredSessionIsConfigured
<1>1. Inv => StoredSessionIsConfigured
  BY DEF Inv, StoredInv
<1> QED  BY <1>1, InvHolds, PTL

\* A configured session with its connection is lost only to a later
\* startPairing, to a connection that fails, to success, or to finish()'s last
\* unacknowledged message: start() destroys its own session before it is
\* configured, and the other failures leave both object and connection.
THEOREM ConfiguredIsKept == Spec => SessionSurvivesRetries
<1> DEFINE Ends(s) ==
      \/ pairing = s /\ pairing' \notin {0, s}
      \/ session'[s].connection = "broken"
      \/ \E t \in Threads :
            /\ mine[t] = s
            /\ \/ pc[t] = "closing" /\ session[s].tv = "paired"
               \/ pc[t] = "refusing" /\ step[t] = MaxFinishMessages
<1>1. ASSUME Inv, [Next]_vars, NEW s \in SessionIds,
             Usable(session[s]), ~Usable(session'[s])
      PROVE  Ends(s)
  <2> USE <1>1
  <2>t. session \in [SessionIds -> SessionType]
    BY DEF Inv, TypeOK
  <2>1. session'[s] # session[s]
    OBVIOUS
  <2>2. ASSUME NEW r \in SessionIds, TvAccepts(r)  PROVE FALSE
    BY <2>2, <2>t DEF TvAccepts, SessionType, Usable
  <2>3. ASSUME NEW t \in Threads, Disconnected(t)  PROVE FALSE
    BY <2>3, <2>t DEF Disconnected, SessionType, Usable
  <2>4. ASSUME NEW t \in Threads, ConnectPairing(t)  PROVE FALSE
    BY <2>4, <2>t DEF ConnectPairing, SessionType, Usable
  <2>5. ASSUME NEW t \in Threads, NEW where, pc[t] \in {"connecting", "starting"},
               StartThrows(t, where)
        PROVE  FALSE
    <3>1. mine[t] \in SessionIds /\ ~session[mine[t]].configured
      BY <2>5, OwnSession DEF Starting, Inv, StageInv
    <3>2. s # mine[t]
      BY <3>1 DEF Usable
    <3> QED  BY <2>1, <2>5, <3>1, <3>2, DestroyOne DEF StartThrows, Inv
  <2>6. ASSUME NEW t \in Threads, ReceiveStart(t)  PROVE FALSE
    <3>1. mine[t] \in SessionIds /\ ~session[mine[t]].configured
      BY <2>6, OwnSession DEF ReceiveStart, Starting, Inv, StageInv
    <3>2. s # mine[t]
      BY <3>1 DEF Usable
    <3> QED  BY <2>1, <2>5, <2>6, <2>t, <3>2 DEF ReceiveStart
  <2>7. ASSUME NEW t \in Threads, StorePairing(t)  PROVE pairing = s /\ pairing' \notin {0, s}
    <3>1. mine[t] # pairing /\ mine[t] # 0 /\ pairing' = mine[t] /\ session' = Destroy(pairing)
      BY <2>7, OwnSession DEF Starting, StorePairing
    <3>2. s = pairing
      BY <2>1, <3>1, DestroyOne DEF Inv
    <3> QED  BY <3>1, <3>2
  <2>8. ASSUME NEW t \in Threads, SendSecret(t)  PROVE FALSE
    BY <2>8, <2>t DEF SendSecret, SessionType, Usable
  <2>9. ASSUME NEW t \in Threads, ReceiveFinish(t) \/ SecretNotSent(t)
        PROVE  session'[s].connection = "broken"
    <3>1. PICK r, c : /\ c = "broken" \/ c = session[r].connection
                      /\ \/ session' = [session EXCEPT ![r].connection = c]
                         \/ session' = session
      BY <2>9 DEF ReceiveFinish, SecretNotSent
    <3>2. r = s /\ session' = [session EXCEPT ![r].connection = c]
      BY <2>1, <2>t, <3>1
    <3>3. session'[s] = [session[s] EXCEPT !.connection = c]
      BY <2>t, <3>2
    <3>4. session[s] \in SessionType
      BY <2>t
    <3> QED  BY <3>1, <3>2, <3>3, <3>4 DEF SessionType, Usable
  <2>10. ASSUME NEW t \in Threads, Finished(t)  PROVE Ends(s)
    <3>1. CASE pc[t] = "closing"
      <4>1. session' = Destroy(mine[t]) /\ session[mine[t]].tv = "paired"
        BY <2>10, <3>1 DEF Finished, Inv, FinishInv
      <4>2. s = mine[t]
        BY <2>1, <4>1, DestroyOne DEF Inv
      <4> QED  BY <3>1, <4>1, <4>2
    <3>2. CASE pc[t] = "refusing"
      <4>1. s = mine[t]
        BY <2>1, <2>10, <2>t, <3>2 DEF Finished
      <4>2. step[t] = MaxFinishMessages
        BY <3>2 DEF Inv, FinishInv
      <4> QED  BY <3>2, <4>1, <4>2
    <3> QED  BY <2>10, <3>1, <3>2 DEF Finished
  <2>11. ASSUME NEW t \in Threads,
                \/ StartPairing(t) \/ FinishPairing(t) \/ RejectCode(t)
                \/ Abandoned(t) \/ Replaced(t) \/ GetNameAndMac(t)
         PROVE  FALSE
    BY <2>1, <2>11 DEF StartPairing, FinishPairing, RejectCode, Abandoned, Replaced, GetNameAndMac
  <2>12. ASSUME NEW t \in Threads, ConnectPairingFails(t)  PROVE FALSE
    BY <2>12, <2>5 DEF ConnectPairingFails
  <2>13. ~UNCHANGED vars
    BY <2>1 DEF vars
  <2> QED
    BY <2>2, <2>3, <2>4, <2>6, <2>7, <2>8, <2>9, <2>10, <2>11, <2>12, <2>13 DEF Next
<1>2. Inv /\ [Next]_vars =>
        [\A s \in SessionIds : Usable(session[s]) /\ ~Usable(session'[s]) => Ends(s)]_vars
  BY <1>1
<1> QED  BY <1>2, InvHolds, PTL DEF Spec, SessionSurvivesRetries

=============================================================================
