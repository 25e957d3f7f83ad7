----------------------------- MODULE RemoteCli -----------------------------
(***************************************************************************)
(* The command-line client of src/examples/remote_cli.cpp, run again and   *)
(* again on one data directory against one television: the composition of  *)
(* the identity files of ClientIdentity with the process that makes and    *)
(* presents them and the television that learns to trust them.  A process  *)
(* may be killed anywhere, writes may fail, the user may mistype the code, *)
(* and the television may break off before or after it has accepted.       *)
(***************************************************************************)
EXTENDS ClientIdentity

CONSTANT MaxRuns  \* bound: how often the program is started

ASSUME RunAssumption == MaxRuns \in Nat

VARIABLES
    stage,    \* where main() is; "none" when no process runs
    command,  \* argv[3] of the present or last run
    exit,     \* the exit code of the last run; 0 while one runs
    trusted,  \* the key pairs the television has accepted
    paired,   \* history: a run has printed "Pairing complete"
    runs

cliVars == <<stage, command, exit, trusted, paired, runs>>
allVars == <<vars, cliVars>>

CliInit ==
    /\ Init
    /\ stage = [c \in Callers |-> "none"]
    /\ command = [c \in Callers |-> "key"]
    /\ exit = [c \in Callers |-> 0]
    /\ trusted \in {{}, {0}}
    /\ paired = FALSE
    /\ runs = 0

At(c, where) == stage[c] = where /\ pc[c] = "idle"
Enter(c, where) == stage' = [stage EXCEPT ![c] = where]

Exit(c, code) ==
    /\ Enter(c, "none")
    /\ exit' = [exit EXCEPT ![c] = code]

\* The identity the process has loaded is of a key pair the television knows.
Recognised(c) == result[c] = "loaded" /\ \E k \in trusted : read[c] = Pem(k)

-----------------------------------------------------------------------------
\* A command other than "pair" goes the way of "key" to its end.
Launch(c, cmd) ==
    /\ stage[c] = "none"
    /\ runs < MaxRuns
    /\ runs' = runs + 1
    /\ command' = [command EXCEPT ![c] = cmd]
    /\ exit' = [exit EXCEPT ![c] = 0]
    /\ result' = [result EXCEPT ![c] = "none"]
    /\ Enter(c, "generating")
    /\ UNCHANGED <<files, pc, key, lost, read, bounds, trusted, paired>>

\* remote.generateCertificateIfMissing()
GenerateCertificate(c) ==
    /\ stage[c] = "generating"
    /\ result[c] = "none"
    /\ \/ AlreadyPresent(c) \/ Generate(c)
       \/ OpenCertificate(c) \/ WriteCertificate(c) \/ OpenKey(c) \/ WriteKey(c)
       \/ WriteFails(c) \/ WriteLost(c)
    /\ UNCHANGED cliVars

\* What main() does with the answer: an exception ends the run, and so does a
\* new certificate unless it is to be paired.
CertificateGenerated(c) ==
    /\ At(c, "generating")
    /\ \/ /\ result[c] = "present" \/ (result[c] = "generated" /\ command[c] = "pair")
          /\ Enter(c, "loading")
          /\ UNCHANGED exit
       \/ result[c] = "generated" /\ command[c] = "key" /\ Exit(c, 3)
       \/ result[c] = "failed" /\ Exit(c, 1)
    /\ UNCHANGED <<vars, command, trusted, paired, runs>>

\* startPairing, and connect's lambda, begin with loadClientIdentity; by now
\* there are files to read.
LoadIdentity(c) ==
    /\ stage[c] = "loading"
    /\ result[c] \in {"present", "generated"}
    /\ ReadCertificate(c) \/ ReadKey(c)
    /\ UNCHANGED cliVars

\* remote.startPairing(): the television shows its code.
StartPairing(c) ==
    /\ At(c, "loading") /\ command[c] = "pair" /\ result[c] = "loaded"
    /\ Enter(c, "code")
    /\ UNCHANGED <<vars, command, exit, trusted, paired, runs>>

\* finish() reads the certificate file again: is it still the one presented?
SameCertificate(c) == certificateFile = read[c]

\* remote.finishPairing(code) sends the secret made of that certificate and of
\* the code, if they fit the connection.
FinishPairing(c) ==
    /\ At(c, "code")
    /\ SameCertificate(c)
    /\ Enter(c, "secret")
    /\ UNCHANGED <<vars, command, exit, trusted, paired, runs>>

\* The television accepts the certificate it was presented.
TvAccepts(c) ==
    /\ At(c, "secret")
    /\ Enter(c, "accepted")
    /\ trusted' = trusted \cup {k \in Keys : read[c] = Pem(k)}
    /\ UNCHANGED <<vars, command, exit, paired, runs>>

\* (Broken: finish() takes any message with status 200 for the answer.)
AcknowledgedByAny(c) == stage[c] \in {"secret", "accepted"}

\* hasSecretAck of what the television sends.
Acknowledged(c) == stage[c] = "accepted"

PairingComplete(c) ==
    /\ Acknowledged(c)
    /\ paired' = TRUE
    /\ Exit(c, 0)
    /\ UNCHANGED <<vars, command, trusted, runs>>

\* Whatever startPairing or finishPairing throws, a mistyped code included,
\* ends the run: there is no second try.
PairingFails(c) ==
    /\ \/ At(c, "loading") /\ command[c] = "pair" /\ result[c] \in {"loaded", "unloadable"}
       \/ stage[c] \in {"code", "secret", "accepted"}
    /\ Exit(c, 1)
    /\ UNCHANGED <<vars, command, trusted, paired, runs>>

\* connect() only reports what fails; 0 is the exit code whether or not the key
\* arrived, 4 that of an unknown key and 2 that of an unknown command.
KeyRunEnds(c) ==
    /\ At(c, "loading") /\ command[c] = "key" /\ result[c] \in {"loaded", "unloadable"}
    /\ \E code \in {0, 2, 4} : Exit(c, code)
    /\ UNCHANGED <<vars, command, trusted, paired, runs>>

\* The process is killed; 9 stands for having no exit code.
Killed(c) ==
    /\ stage[c] # "none"
    /\ Crash(c) \/ (pc[c] = "idle" /\ UNCHANGED vars)
    /\ Exit(c, 9)
    /\ UNCHANGED <<command, trusted, paired, runs>>

-----------------------------------------------------------------------------
CliNext ==
    \E c \in Callers :
        \/ \E cmd \in {"pair", "key"} : Launch(c, cmd)
        \/ GenerateCertificate(c) \/ CertificateGenerated(c) \/ LoadIdentity(c)
        \/ StartPairing(c) \/ FinishPairing(c) \/ TvAccepts(c)
        \/ PairingComplete(c) \/ PairingFails(c)
        \/ KeyRunEnds(c) \/ Killed(c)

CliSpec == CliInit /\ [][CliNext]_allVars

-----------------------------------------------------------------------------
\* Once a run has printed "Pairing complete", every later run that sends a key
\* presents an identity the television has accepted, and none asks to pair
\* first: whatever was killed, failed or mistyped before and after, and also
\* when a later attempt to pair again comes to nothing.
PairedStaysUsable ==
    paired => \A c \in Callers :
        command[c] = "key" =>
            /\ exit[c] # 3
            /\ result[c] # "unloadable"
            /\ result[c] = "loaded" => Recognised(c)

=============================================================================
