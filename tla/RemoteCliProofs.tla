-------------------------- MODULE RemoteCliProofs --------------------------
(***************************************************************************)
(* Theorems on RemoteCli for one process at a time, and any number of      *)
(* runs, key pairs, kills and failing or lost writes.                      *)
(*                                                                         *)
(* The invariant adds to that of ClientIdentity what main() knows at each  *)
(* stage: the identity it loaded is still the one on disk, and once the    *)
(* television has answered, it is one that the television has accepted.    *)
(***************************************************************************)
EXTENDS RemoteCli, ClientIdentityProofs

Stages == {"none", "generating", "loading", "code", "secret", "accepted"}

CliTypes ==
    /\ stage \in [Callers -> Stages]
    /\ command \in [Callers -> {"pair", "key"}]
    /\ exit \in [Callers -> Nat]
    /\ trusted \in SUBSET Keys
    /\ paired \in BOOLEAN

\* The television has accepted the identity on disk.
Accepted == Loadable /\ \E k \in trusted : certificateFile = Pem(k)

StageInv(c) ==
    /\ stage[c] \in {"loading", "code", "secret", "accepted"} /\ result[c] = "loaded" =>
          read[c] = certificateFile /\ Loadable
    /\ stage[c] \in {"code", "secret", "accepted"} =>
          result[c] = "loaded" /\ command[c] = "pair"
    /\ stage[c] = "accepted" => \E k \in trusted : read[c] = Pem(k)

PairedInv(c) ==
    paired =>
        /\ Accepted
        /\ command[c] = "key" =>
              /\ exit[c] # 3
              /\ result[c] \notin {"generated", "unloadable"}
              /\ result[c] = "loaded" => Recognised(c)

CliInv == IdentityInv /\ CliTypes /\ \A c \in Callers : StageInv(c) /\ PairedInv(c)


-----------------------------------------------------------------------------
(* Lemmas, one for each kind of step. *)

\* With one process, its part of the invariant is all of it.
LEMMA OneProcessInv ==
    ASSUME OneCaller, NEW c \in Callers, IdentityInv', CliTypes', StageInv(c)', PairedInv(c)'
    PROVE  CliInv'
BY DEF OneCaller, CliInv

\* What is accepted on disk stays so while the files and the trust do.
LEMMA AcceptedFrame ==
    ASSUME UNCHANGED files, trusted \subseteq trusted'
    PROVE  Accepted => Accepted'
BY FilesFrame DEF Accepted, files

\* Under an accepted identity no file is missing, and the process is at none
\* of its writes.
LEMMA AcceptedIsSettled ==
    ASSUME CliInv, NEW c \in Callers, Accepted
    PROVE  FilesPresent /\ pc[c] \notin Writing
BY LoadableFacts, WritingIsUnloadable DEF Accepted, CliInv, IdentityInv, CallerInv

\* The start of a run.
LEMMA LaunchInv ==
    ASSUME OneCaller, CliInv, NEW c \in Callers, NEW cmd \in {"pair", "key"}, Launch(c, cmd)
    PROVE  CliInv'
<1>1. /\ IdentityTypes /\ CallerInv(c) /\ CliTypes /\ PairedInv(c)
  BY DEF CliInv, IdentityInv
<1>2. /\ UNCHANGED <<files, pc, key, lost, read, keys, crashes, faults, trusted, paired>>
      /\ command' = [command EXCEPT ![c] = cmd] /\ exit' = [exit EXCEPT ![c] = 0]
      /\ result' = [result EXCEPT ![c] = "none"] /\ stage' = [stage EXCEPT ![c] = "generating"]
  BY DEF Launch, Enter, bounds
<1>3. IdentityTypes'
  BY <1>1, <1>2 DEF IdentityTypes, files
<1>4. CliTypes'
  BY <1>1, <1>2 DEF CliTypes, Stages
<1>5. result'[c] = "none" /\ stage'[c] = "generating" /\ exit'[c] = 0
  BY <1>1, <1>2 DEF IdentityTypes, CliTypes
<1>6. CallerInv(c)'
  <2>1. certificateFile' = certificateFile /\ privateKeyFile' = privateKeyFile
    BY <1>2 DEF files
  <2>2. QED
    BY <1>1, <1>2, <1>5, <2>1, FilesFrame
    DEF CallerInv, ProgressInv, ReturnInv, ReadInv, Writing
<1>7. IdentityInv'
  BY <1>3, <1>6, OneCallerInv
<1>8. StageInv(c)' /\ PairedInv(c)'
  BY <1>1, <1>2, <1>5, AcceptedFrame DEF StageInv, PairedInv
<1>9. QED
  BY <1>4, <1>7, <1>8, OneProcessInv

\* generateCertificateIfMissing within a run.
LEMMA GenerateCertificateInv ==
    ASSUME OneCaller, CliInv, NEW c \in Callers, GenerateCertificate(c)
    PROVE  CliInv'
<1>1. IdentityInv /\ IdentityTypes /\ CliTypes /\ PairedInv(c)
  BY DEF CliInv, IdentityInv
<1>2. IdentityInv'
  BY <1>1, GeneratingInv DEF GenerateCertificate
<1>3. UNCHANGED <<stage, command, exit, trusted, paired>> /\ stage[c] = "generating"
  BY DEF GenerateCertificate, cliVars
<1>4. CliTypes' /\ StageInv(c)'
  BY <1>1, <1>3 DEF CliTypes, StageInv
<1>5. PairedInv(c)'
  <2> SUFFICES ASSUME paired PROVE PairedInv(c)'
    BY <1>3 DEF PairedInv
  <2>1. Accepted /\ (command[c] = "key" => exit[c] # 3)
    BY <1>1 DEF PairedInv
  <2>2. AlreadyPresent(c)
    BY <2>1, AcceptedIsSettled
    DEF GenerateCertificate, Generate, OpenCertificate, WriteCertificate, OpenKey, WriteKey,
        WriteFails, WriteLost, Writing
  <2>3. UNCHANGED files /\ result'[c] = "present"
    BY <1>1, <2>2 DEF AlreadyPresent, Return, IdentityTypes
  <2>4. QED
    BY <1>3, <2>1, <2>3, AcceptedFrame DEF PairedInv
<1>6. QED
  BY <1>2, <1>4, <1>5, OneProcessInv

\* loadClientIdentity within a run.
LEMMA LoadIdentityInv ==
    ASSUME OneCaller, CliInv, NEW c \in Callers, LoadIdentity(c)
    PROVE  CliInv'
<1>1. IdentityInv /\ IdentityTypes /\ CallerInv(c) /\ CliTypes /\ StageInv(c) /\ PairedInv(c)
  BY DEF CliInv, IdentityInv
<1>2. IdentityInv'
  BY <1>1, LoadingInv DEF LoadIdentity
<1>3. UNCHANGED <<stage, command, exit, trusted, paired>> /\ stage[c] = "loading"
      /\ result[c] \in {"present", "generated"}
  BY DEF LoadIdentity, cliVars
<1>4. CliTypes'
  BY <1>1, <1>3 DEF CliTypes
<1>5. UNCHANGED files
  BY DEF LoadIdentity, ReadCertificate, ReadKey
<1>6. Accepted => Accepted'
  BY <1>3, <1>5, AcceptedFrame
<1>7. CASE ReadCertificate(c)
  <2>1. result' = result
    BY <1>7 DEF ReadCertificate
  <2>2. StageInv(c)'
    BY <1>3, <2>1 DEF StageInv
  <2>3. PairedInv(c)'
    BY <1>1, <1>3, <1>6, <2>1 DEF PairedInv
  <2>4. QED
    BY <1>2, <1>4, <2>2, <2>3, OneProcessInv
<1>8. CASE ReadKey(c)
  <2>1. /\ read' = read /\ read[c] = certificateFile
        /\ result'[c] = IF Loadable THEN "loaded" ELSE "unloadable"
    BY <1>1, <1>8 DEF ReadKey, Return, CallerInv, ReadInv, Loadable, IdentityTypes
  <2>2. (Loadable' <=> Loadable) /\ certificateFile' = certificateFile
    BY <1>5, FilesFrame DEF files
  <2>3. StageInv(c)'
    BY <1>3, <2>1, <2>2 DEF StageInv
  <2>4. PairedInv(c)'
    <3>1. Accepted => result'[c] = "loaded" /\ Recognised(c)'
      BY <1>3, <2>1 DEF Accepted, Recognised
    <3>2. QED
      BY <1>1, <1>3, <1>6, <3>1 DEF PairedInv
  <2>5. QED
    BY <1>2, <1>4, <2>3, <2>4, OneProcessInv
<1>9. QED
  BY <1>7, <1>8 DEF LoadIdentity

\* The steps of main() that leave the files and the calls alone.
LEMMA MainInv ==
    ASSUME OneCaller, CliInv, NEW c \in Callers,
           \/ CertificateGenerated(c) \/ StartPairing(c) \/ FinishPairing(c)
           \/ PairingFails(c) \/ KeyRunEnds(c)
    PROVE  CliInv'
<1>1. IdentityInv /\ IdentityTypes /\ CliTypes /\ StageInv(c) /\ PairedInv(c)
  BY DEF CliInv, IdentityInv
<1>2. UNCHANGED <<vars, command, trusted, paired>>
  BY DEF CertificateGenerated, StartPairing, FinishPairing, PairingFails, KeyRunEnds
<1>3. IdentityInv'
  BY <1>1, <1>2, StutterInv
<1>4. UNCHANGED <<files, read, result>>
  BY <1>2 DEF vars, files
<1>5. \E to \in Stages : stage' = [stage EXCEPT ![c] = to]
  BY DEF CertificateGenerated, StartPairing, FinishPairing, PairingFails, KeyRunEnds, Enter,
         Exit, Stages
<1>6. exit' = exit \/ \E code \in Nat : exit' = [exit EXCEPT ![c] = code]
  BY DEF CertificateGenerated, StartPairing, FinishPairing, PairingFails, KeyRunEnds, Exit
<1>7. CliTypes'
  BY <1>1, <1>2, <1>5, <1>6 DEF CliTypes
<1>8. StageInv(c)'
  <2>1. \/ stage'[c] \in {"none"}
        \/ stage'[c] = "loading" /\ result[c] # "loaded"
        \/ stage'[c] = "code" /\ stage[c] = "loading" /\ result[c] = "loaded"
                              /\ command[c] = "pair"
        \/ stage'[c] = "secret" /\ stage[c] = "code"
    BY <1>1 DEF CertificateGenerated, StartPairing, FinishPairing, PairingFails, KeyRunEnds,
                Enter, Exit, At, CliTypes
  <2>2. (Loadable' <=> Loadable) /\ certificateFile' = certificateFile
    BY <1>4, FilesFrame DEF files
  <2>3. QED
    BY <1>1, <1>2, <1>4, <2>1, <2>2 DEF StageInv
<1>9. PairedInv(c)'
  <2>1. exit'[c] = 3 => exit[c] = 3 \/ (result[c] = "generated" /\ command[c] = "key")
    BY <1>1 DEF CertificateGenerated, StartPairing, FinishPairing, PairingFails, KeyRunEnds,
                Exit, CliTypes
  <2>2. Accepted => Accepted'
    BY <1>2, <1>4, AcceptedFrame
  <2>3. QED
    BY <1>1, <1>2, <1>4, <2>1, <2>2 DEF PairedInv, Recognised
<1>10. QED
  BY <1>3, <1>7, <1>8, <1>9, OneProcessInv

\* The television accepts, and main() hears of it.
LEMMA PairingInv ==
    ASSUME OneCaller, CliInv, NEW c \in Callers, TvAccepts(c) \/ PairingComplete(c)
    PROVE  CliInv'
<1>1. IdentityInv /\ IdentityTypes /\ CliTypes /\ StageInv(c) /\ PairedInv(c)
  BY DEF CliInv, IdentityInv
<1>2. UNCHANGED <<vars, command>>
  BY DEF TvAccepts, PairingComplete
<1>3. IdentityInv'
  BY <1>1, <1>2, StutterInv
<1>4. UNCHANGED <<files, read, result>>
  BY <1>2 DEF vars, files
<1>5. (Loadable' <=> Loadable) /\ certificateFile' = certificateFile
  BY <1>4, FilesFrame DEF files
<1>6. CASE TvAccepts(c)
  <2>1. /\ trusted' = trusted \cup {k \in Keys : read[c] = Pem(k)}
        /\ stage[c] = "secret" /\ stage' = [stage EXCEPT ![c] = "accepted"]
        /\ UNCHANGED <<exit, paired>>
    BY <1>6 DEF TvAccepts, Enter, At
  <2>2. CliTypes' /\ stage'[c] = "accepted"
    BY <1>1, <1>2, <2>1 DEF CliTypes, Stages
  <2>3. result[c] = "loaded" /\ command[c] = "pair" /\ read[c] = certificateFile /\ Loadable
    BY <1>1, <2>1 DEF StageInv
  <2>4. \E k \in trusted' : read[c] = Pem(k)
    BY <2>1, <2>3 DEF Loadable, Matches
  <2>5. StageInv(c)'
    BY <1>2, <1>4, <1>5, <2>2, <2>3, <2>4 DEF StageInv
  <2>6. PairedInv(c)'
    <3>1. Accepted => Accepted'
      BY <1>4, <2>1, AcceptedFrame
    <3>2. QED
      BY <1>1, <1>2, <2>1, <2>3, <3>1 DEF PairedInv
  <2>7. QED
    BY <1>3, <2>2, <2>5, <2>6, OneProcessInv
<1>7. CASE PairingComplete(c)
  <2>1. /\ stage[c] = "accepted" /\ stage' = [stage EXCEPT ![c] = "none"]
        /\ paired' = TRUE /\ trusted' = trusted /\ exit' = [exit EXCEPT ![c] = 0]
    BY <1>7 DEF PairingComplete, Acknowledged, Exit, Enter
  <2>2. CliTypes' /\ stage'[c] = "none"
    BY <1>1, <1>2, <2>1 DEF CliTypes, Stages
  <2>3. Accepted /\ command[c] = "pair"
    BY <1>1, <2>1 DEF StageInv, Accepted
  <2>4. Accepted'
    BY <1>4, <2>1, <2>3, AcceptedFrame
  <2>5. StageInv(c)' /\ PairedInv(c)'
    BY <1>2, <2>2, <2>3, <2>4 DEF StageInv, PairedInv
  <2>6. QED
    BY <1>3, <2>2, <2>5, OneProcessInv
<1>8. QED
  BY <1>6, <1>7

\* The process is killed.
LEMMA KilledInv ==
    ASSUME OneCaller, CliInv, NEW c \in Callers, Killed(c)
    PROVE  CliInv'
<1>1. IdentityInv /\ IdentityTypes /\ CliTypes /\ PairedInv(c)
  BY DEF CliInv, IdentityInv
<1>2. IdentityInv'
  BY <1>1, LoadingInv, StutterInv DEF Killed
<1>3. /\ UNCHANGED <<files, read, command, trusted, paired>>
      /\ stage' = [stage EXCEPT ![c] = "none"] /\ exit' = [exit EXCEPT ![c] = 9]
  BY DEF Killed, Crash, vars, files, Exit, Enter
<1>4. result'[c] \in {result[c], "none"}
  BY <1>1 DEF Killed, Crash, Return, vars, IdentityTypes
<1>5. CliTypes' /\ stage'[c] = "none" /\ exit'[c] = 9
  BY <1>1, <1>3 DEF CliTypes, Stages
<1>6. StageInv(c)' /\ PairedInv(c)'
  BY <1>1, <1>3, <1>4, <1>5, AcceptedFrame DEF StageInv, PairedInv, Recognised
<1>7. QED
  BY <1>2, <1>5, <1>6, OneProcessInv

-----------------------------------------------------------------------------
(* The theorems. *)

\* Initially no process runs and nothing is paired.
LEMMA CliInitInv == CliInit => CliInv
<1> SUFFICES ASSUME CliInit PROVE CliInv
  OBVIOUS
<1>1. IdentityInv
  BY IdentityInit DEF CliInit
<1>2. CliTypes
  <2>1. 0 \in Keys
    BY KeyAssumption DEF Keys
  <2>2. trusted \in SUBSET Keys
    BY <2>1 DEF CliInit
  <2>3. QED
    BY <2>2 DEF CliInit, CliTypes, Stages
<1>3. \A c \in Callers : stage[c] = "none" /\ paired = FALSE
  BY DEF CliInit
<1>4. QED
  BY <1>1, <1>2, <1>3 DEF CliInv, StageInv, PairedInv

\* A step in which nothing changes.
LEMMA CliStutterInv == CliInv /\ UNCHANGED allVars => CliInv'
<1> SUFFICES ASSUME CliInv, UNCHANGED allVars PROVE CliInv'
  OBVIOUS
<1>1. UNCHANGED vars /\ UNCHANGED cliVars
  BY DEF allVars
<1>2. IdentityInv'
  BY <1>1, StutterInv DEF CliInv
<1>3. QED
  BY <1>1, <1>2
  DEF CliInv, CliTypes, StageInv, PairedInv, Recognised, Accepted, Loadable, Matches,
      vars, cliVars

\* For one process at a time the invariant holds in every reachable state.
LEMMA CliInvariance == ASSUME OneCaller PROVE CliSpec => []CliInv
<1>1. CliInit => CliInv
  BY CliInitInv
<1>2. CliInv /\ [CliNext]_allVars => CliInv'
  BY LaunchInv, GenerateCertificateInv, LoadIdentityInv, MainInv, PairingInv, KilledInv,
     CliStutterInv DEF CliNext
<1>3. QED
  BY <1>1, <1>2, PTL DEF CliSpec

\* Once a run of remote_cli has printed "Pairing complete", every later run
\* that sends a key presents an identity the television has accepted, through
\* any number of runs, kills, failing or lost writes and pairings that come to
\* nothing.
THEOREM PairedIsUsable == ASSUME OneCaller PROVE CliSpec => []PairedStaysUsable
<1>1. CliInv => PairedStaysUsable
  BY DEF CliInv, PairedInv, PairedStaysUsable
<1>2. QED
  BY <1>1, CliInvariance, PTL

\* Within any number of runs, too, what generateCertificateIfMissing returns
\* true for, and has written out, can be loaded; and it returns, true or false,
\* with files that cannot only after a crash or a failed or lost write.
THEOREM RunsReturnLoadable ==
    ASSUME OneCaller PROVE CliSpec => [](WrittenLoads /\ UndisturbedReturnLoads)
<1>1. CliInv => WrittenLoads /\ UndisturbedReturnLoads
  BY ReturnsLoad DEF CliInv
<1>2. QED
  BY <1>1, CliInvariance, PTL

\* No run touches an identity that can be loaded.
THEOREM RunsKeepIdentity == ASSUME OneCaller PROVE CliSpec => IdentityIsKept
<1>1. CliInv /\ [CliNext]_allVars => [Loadable => UNCHANGED files]_vars
  <2> SUFFICES ASSUME CliInv, [CliNext]_allVars, Loadable PROVE UNCHANGED files
    OBVIOUS
  <2>1. ASSUME NEW c \in Callers, GenerateCertificate(c) PROVE UNCHANGED files
    <3>1. ~(OpenCertificate(c) \/ WriteCertificate(c) \/ OpenKey(c) \/ WriteKey(c))
      BY OnlyUnloadableChanges DEF CliInv
    <3>2. QED
      BY <2>1, <3>1 DEF GenerateCertificate, AlreadyPresent, Generate, WriteFails, WriteLost
  <2>2. ASSUME NEW c \in Callers,
               \/ \E cmd \in {"pair", "key"} : Launch(c, cmd)
               \/ LoadIdentity(c) \/ Killed(c)
        PROVE  UNCHANGED files
    BY <2>2 DEF Launch, LoadIdentity, ReadCertificate, ReadKey, Killed, Crash, vars, files
  <2>3. ASSUME NEW c \in Callers,
               \/ CertificateGenerated(c) \/ StartPairing(c) \/ FinishPairing(c)
               \/ TvAccepts(c) \/ PairingComplete(c) \/ PairingFails(c) \/ KeyRunEnds(c)
        PROVE  UNCHANGED files
    BY <2>3 DEF CertificateGenerated, StartPairing, FinishPairing, TvAccepts,
                PairingComplete, PairingFails, KeyRunEnds, vars, files
  <2>4. CASE UNCHANGED allVars
    BY <2>4 DEF allVars, vars, files
  <2>5. QED
    BY <2>1, <2>2, <2>3, <2>4 DEF CliNext
<1>2. QED
  BY <1>1, CliInvariance, PTL DEF CliSpec, IdentityIsKept

=============================================================================
