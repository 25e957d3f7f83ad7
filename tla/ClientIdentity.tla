--------------------------- MODULE ClientIdentity ---------------------------
(***************************************************************************)
(* The client's identity on disk: generateCertificateIfMissing and         *)
(* loadClientIdentity of src/src/certificate.cpp, the two files they share *)
(* and the process that may end between any two of their steps.            *)
(*                                                                         *)
(* A file is absent, empty (opened with trunc, and nothing or not all of   *)
(* it written), or holds the certificate or the private key of one         *)
(* generated key pair.                                                     *)
(* The callers are AndroidTvRemote objects, or processes, that were given  *)
(* the same two paths.                                                     *)
(***************************************************************************)
EXTENDS Naturals

CONSTANTS
    Callers,    \* who uses the two files
    MaxKeys,    \* bound: how many key pairs are generated
    MaxCrashes, \* bound: how often a caller's process ends early
    MaxFaults   \* bound: how many writes fail

ASSUME KeyAssumption == MaxKeys \in Nat /\ MaxCrashes \in Nat /\ MaxFaults \in Nat

Absent == "absent"
Empty  == "empty"

\* What a file can hold: key pair 0 is one from before.
Keys     == 0..MaxKeys
Pem(k)   == <<"pem", k>>

VARIABLES
    certificateFile, privateKeyFile, \* what the files hold
    pc,     \* where each caller is
    key,    \* the key pair each caller generated last
    lost,   \* history: has a write of its last generation been lost unnoticed?
    read,   \* the certificate loadClientIdentity has read
    result, \* what each caller's last call came to
    keys,   \* how many key pairs were generated
    crashes, faults

vars == <<certificateFile, privateKeyFile, pc, key, lost, read, result, keys, crashes, faults>>
files == <<certificateFile, privateKeyFile>>
bounds == <<keys, crashes, faults>>

\* Can loadClientIdentity install what it read?
Matches(cert, priv) == \E k \in Keys : cert = Pem(k) /\ priv = Pem(k)

Loadable == Matches(certificateFile, privateKeyFile)

\* The files start complete, or one or both are missing.  A certificate and a
\* key that are both there belong together.
Init ==
    /\ certificateFile \in {<<Absent>>, Pem(0)}
    /\ privateKeyFile \in {<<Absent>>, Pem(0)}
    /\ pc = [c \in Callers |-> "idle"]
    /\ key = [c \in Callers |-> 0]
    /\ lost = [c \in Callers |-> FALSE]
    /\ read = [c \in Callers |-> <<Absent>>]
    /\ result = [c \in Callers |-> "none"]
    /\ keys = 0 /\ crashes = 0 /\ faults = 0

Goto(c, where) == pc' = [pc EXCEPT ![c] = where]
Return(c, r) == Goto(c, "idle") /\ result' = [result EXCEPT ![c] = r]

-----------------------------------------------------------------------------
(* generateCertificateIfMissing *)

\* (Broken: only the certificate is looked at.)
FilesPresentCertificateOnly == certificateFile # <<Absent>>

\* (Broken: what is there is not looked at.)
FilesPresentNever == FALSE

\* is_regular_file of both; an empty file is one.
FilesPresent == certificateFile # <<Absent>> /\ privateKeyFile # <<Absent>>

AlreadyPresent(c) ==
    /\ pc[c] = "idle"
    /\ FilesPresent
    /\ Return(c, "present")
    /\ UNCHANGED <<files, key, lost, read, bounds>>

\* A key pair and its certificate are made in memory.
Generate(c) ==
    /\ pc[c] = "idle"
    /\ ~FilesPresent
    /\ keys < MaxKeys
    /\ keys' = keys + 1
    /\ key' = [key EXCEPT ![c] = keys']
    /\ lost' = [lost EXCEPT ![c] = FALSE]
    /\ result' = [result EXCEPT ![c] = "none"]
    /\ Goto(c, "openCertificate")
    /\ UNCHANGED <<files, read, crashes, faults>>

\* writeBioToFile for the certificate, then for the key: open, then write.
OpenCertificate(c) ==
    /\ pc[c] = "openCertificate"
    /\ certificateFile' = <<Empty>>
    /\ Goto(c, "writeCertificate")
    /\ UNCHANGED <<privateKeyFile, key, lost, read, result, bounds>>

WriteCertificate(c) ==
    /\ pc[c] = "writeCertificate"
    /\ certificateFile' = Pem(key[c])
    /\ Goto(c, "openKey")
    /\ UNCHANGED <<privateKeyFile, key, lost, read, result, bounds>>

\* (Broken: a key that is there already is kept.)
OpenKeyIfMissing(c) ==
    /\ pc[c] = "openKey"
    /\ \/ privateKeyFile = <<Absent>> /\ Goto(c, "writeKey") /\ UNCHANGED result
       \/ privateKeyFile # <<Absent>> /\ Return(c, "generated")
    /\ UNCHANGED <<files, key, lost, read, bounds>>

OpenKey(c) ==
    /\ pc[c] = "openKey"
    /\ privateKeyFile' = <<Empty>>
    /\ Goto(c, "writeKey")
    /\ UNCHANGED <<certificateFile, key, lost, read, result, bounds>>

WriteKey(c) ==
    /\ pc[c] = "writeKey"
    /\ privateKeyFile' = Pem(key[c])
    /\ Return(c, "generated")
    /\ UNCHANGED <<certificateFile, key, lost, read, bounds>>

\* A file cannot be opened, or write() fails, and the call throws.
WriteFails(c) ==
    /\ pc[c] \in {"openCertificate", "writeCertificate", "openKey", "writeKey"}
    /\ faults < MaxFaults
    /\ faults' = faults + 1
    /\ Return(c, "failed")
    /\ UNCHANGED <<files, key, lost, read, keys, crashes>>

\* write() only fills the stream's buffer, and writing that out when ~ofstream
\* closes the file fails: nobody looks, and the call goes on.
WriteLost(c) ==
    /\ faults < MaxFaults
    /\ faults' = faults + 1
    /\ lost' = [lost EXCEPT ![c] = TRUE]
    /\ \/ pc[c] = "writeCertificate" /\ Goto(c, "openKey") /\ UNCHANGED result
       \/ pc[c] = "writeKey" /\ Return(c, "generated")
    /\ UNCHANGED <<files, key, read, keys, crashes>>

-----------------------------------------------------------------------------
(* loadClientIdentity: the certificate is read first, then the key. *)

ReadCertificate(c) ==
    /\ pc[c] = "idle"
    /\ certificateFile # <<Absent>>
    /\ read' = [read EXCEPT ![c] = certificateFile]
    /\ Goto(c, "readKey")
    /\ UNCHANGED <<files, key, lost, result, bounds>>

ReadKey(c) ==
    /\ pc[c] = "readKey"
    /\ Return(c, IF Matches(read[c], privateKeyFile) THEN "loaded" ELSE "unloadable")
    /\ UNCHANGED <<files, key, lost, read, bounds>>

NothingToRead(c) ==
    /\ pc[c] = "idle"
    /\ certificateFile = <<Absent>>
    /\ Return(c, "unloadable")
    /\ UNCHANGED <<files, key, lost, read, bounds>>

\* The process ends; what it had written stays.
Crash(c) ==
    /\ crashes < MaxCrashes
    /\ pc[c] # "idle"
    /\ crashes' = crashes + 1
    /\ Return(c, "none")
    /\ UNCHANGED <<files, key, lost, read, keys, faults>>

-----------------------------------------------------------------------------
Next ==
    \E c \in Callers :
        \/ AlreadyPresent(c) \/ Generate(c)
        \/ OpenCertificate(c) \/ WriteCertificate(c) \/ OpenKey(c) \/ WriteKey(c)
        \/ WriteFails(c) \/ WriteLost(c)
        \/ ReadCertificate(c) \/ ReadKey(c) \/ NothingToRead(c)
        \/ Crash(c)

Spec == Init /\ [][Next]_vars

-----------------------------------------------------------------------------
(* Properties *)

\* An identity that can be loaded, and that a television may have paired with,
\* is never touched again, whatever crashed or failed before.
IdentityIsKept == [][Loadable => UNCHANGED files]_vars

\* When generateCertificateIfMissing returns true, and both files were written
\* out, the identity can be loaded, whatever the files are that a crash, a
\* failure or a lost write of an earlier call has left behind.
WrittenLoads == \A c \in Callers : result[c] = "generated" /\ ~lost[c] => Loadable

\* What src/tests/test_certificate.cpp:25-28 asserts of a first call: it returns
\* true, and both files have content.
GeneratedLoads == \A c \in Callers : result[c] = "generated" => Loadable

\* When it returns, true or false, the identity can be loaded: as
\* src/tests/test_certificate.cpp has it, a second call returns false and both
\* files have content.
ReturnedLoads == \A c \in Callers : result[c] \in {"generated", "present"} => Loadable

\* That is so as long as nothing has crashed and no write has failed or was
\* lost, from files that were complete at first, or one or both missing.
UndisturbedReturnLoads == crashes = 0 /\ faults = 0 => ReturnedLoads

=============================================================================
