------------------------ MODULE ClientIdentityProofs ------------------------
(***************************************************************************)
(* Theorems on ClientIdentity for one caller, and any number of key pairs, *)
(* crashes and failing or lost writes.  (Two callers can mix their files; see      *)
(* certificate.cpp:247.)                                                   *)
(*                                                                         *)
(* The invariant follows generateCertificateIfMissing through its writes:  *)
(* from the moment it has found a file missing until it has written the    *)
(* key, the two files do not form an identity, because the key pair it     *)
(* has generated is in no file from before.                                *)
(***************************************************************************)
EXTENDS ClientIdentity, Sequences, TLAPS

OneCaller == \A c, d \in Callers : c = d

Writing == {"openCertificate", "writeCertificate", "openKey", "writeKey"}

\* What a file holds when n key pairs have been generated.
Contents(n) == {<<Absent>>, <<Empty>>} \cup {Pem(k) : k \in 0..n}

IdentityTypes ==
    /\ keys \in 0..MaxKeys /\ crashes \in Nat /\ faults \in Nat
    /\ certificateFile \in Contents(keys) /\ privateKeyFile \in Contents(keys)
    /\ pc \in [Callers -> {"idle", "readKey"} \cup Writing]
    /\ key \in [Callers -> 0..keys]
    /\ lost \in [Callers -> BOOLEAN]
    /\ read \in [Callers -> Contents(keys)]
    /\ result \in [Callers -> {"none", "present", "generated", "failed", "loaded", "unloadable"}]

\* How far the files have got when caller c is at one of its writes.
ProgressInv(c) ==
    /\ pc[c] = "openCertificate" => ~FilesPresent
    /\ pc[c] = "writeCertificate" => certificateFile = <<Empty>>
    /\ pc[c] \in {"openCertificate", "writeCertificate", "openKey"} =>
          privateKeyFile # Pem(key[c])
    /\ pc[c] \in {"openCertificate", "writeCertificate"} => ~lost[c]
    /\ pc[c] \in {"openKey", "writeKey"} =>
          certificateFile = IF lost[c] THEN <<Empty>> ELSE Pem(key[c])
    /\ pc[c] = "writeKey" => privateKeyFile = <<Empty>>
    /\ pc[c] \in Writing => result[c] = "none"

\* What the calls that have returned may be relied on for.
ReturnInv(c) ==
    /\ result[c] = "generated" /\ ~lost[c] => Loadable
    /\ lost[c] => faults # 0
    /\ crashes = 0 /\ faults = 0 =>
          /\ result[c] = "present" => Loadable
          /\ pc[c] \notin Writing /\ FilesPresent => Loadable

ReadInv(c) == pc[c] = "readKey" => read[c] = certificateFile

CallerInv(c) == ProgressInv(c) /\ ReturnInv(c) /\ ReadInv(c)

IdentityInv == IdentityTypes /\ \A c \in Callers : CallerInv(c)


-----------------------------------------------------------------------------
(* Lemmas. *)

\* Absent, empty and written files differ, and so do those of two key pairs.
LEMMA PemFacts ==
    /\ <<Absent>> # <<Empty>>
    /\ \A k : Pem(k) # <<Absent>> /\ Pem(k) # <<Empty>>
    /\ \A k, l : Pem(k) = Pem(l) => k = l
<1>1. \A x, y : <<x>> = <<y>> => x = y
  OBVIOUS
<1>2. <<Absent>> # <<Empty>>
  BY <1>1 DEF Absent, Empty
<1>3. ASSUME NEW k, NEW x, <<"pem", k>> = <<x>> PROVE FALSE
  <2>1. Len(<<"pem", k>>) = 2 /\ Len(<<x>>) = 1
    OBVIOUS
  <2>2. QED
    BY <1>3, <2>1
<1>4. QED
  BY <1>2, <1>3 DEF Pem

\* A loadable identity is present, and is the same key pair in both files.
LEMMA LoadableFacts ==
    /\ Loadable => FilesPresent
    /\ \A k : certificateFile = Pem(k) /\ Loadable => privateKeyFile = Pem(k)
    /\ \A k \in Keys : certificateFile = Pem(k) /\ privateKeyFile = Pem(k) => Loadable
    /\ Loadable => certificateFile # <<Empty>> /\ privateKeyFile # <<Empty>>
BY PemFacts DEF Loadable, Matches, FilesPresent

\* While the caller is at its writes the files are no identity.
LEMMA WritingIsUnloadable ==
    ASSUME NEW c \in Callers, ProgressInv(c), pc[c] \in Writing
    PROVE  ~Loadable
BY LoadableFacts DEF ProgressInv, Writing

\* The key pairs generated so far.
LEMMA ContentsFacts ==
    ASSUME NEW n \in Nat
    PROVE  /\ Contents(n) \subseteq Contents(n + 1)
           /\ <<Absent>> \in Contents(n) /\ <<Empty>> \in Contents(n)
           /\ \A k \in 0..n : Pem(k) \in Contents(n)
           /\ Pem(n + 1) \notin Contents(n)
<1>1. Contents(n) \subseteq Contents(n + 1)
  <2>1. 0..n \subseteq 0..(n + 1)
    OBVIOUS
  <2>2. QED
    BY <2>1 DEF Contents
<1>2. Pem(n + 1) \notin Contents(n)
  <2>1. n + 1 \notin 0..n
    OBVIOUS
  <2>2. QED
    BY <2>1, PemFacts DEF Contents
<1>3. QED
  BY <1>1, <1>2 DEF Contents

\* With one caller, its part of the invariant is all of it.
LEMMA OneCallerInv ==
    ASSUME OneCaller, NEW c \in Callers, IdentityTypes', CallerInv(c)'
    PROVE  IdentityInv'
BY DEF OneCaller, IdentityInv


\* Nothing that the caller's part of the invariant speaks of changes.
LEMMA FilesFrame ==
    ASSUME UNCHANGED files
    PROVE  (Loadable' <=> Loadable) /\ (FilesPresent' <=> FilesPresent)
BY DEF files, Loadable, Matches, FilesPresent

\* generateCertificateIfMissing, each of its steps, keeps the invariant.
LEMMA GeneratingInv ==
    ASSUME OneCaller, IdentityInv, NEW c \in Callers,
           \/ AlreadyPresent(c) \/ Generate(c)
           \/ OpenCertificate(c) \/ WriteCertificate(c) \/ OpenKey(c) \/ WriteKey(c)
           \/ WriteFails(c) \/ WriteLost(c)
    PROVE  IdentityInv'
<1>1. IdentityTypes /\ CallerInv(c) /\ keys \in Nat /\ MaxKeys \in Nat
  BY KeyAssumption DEF IdentityInv, IdentityTypes
<1>2. CASE AlreadyPresent(c)
  <2>1. IdentityTypes'
    BY <1>1, <1>2 DEF IdentityTypes, AlreadyPresent, Return, Goto, files, bounds
  <2>2. pc'[c] = "idle" /\ result'[c] = "present" /\ pc[c] = "idle" /\ FilesPresent
    BY <1>1, <1>2 DEF IdentityTypes, AlreadyPresent, Return, Goto
  <2>3. UNCHANGED files /\ crashes' = crashes /\ faults' = faults /\ lost' = lost
    BY <1>2 DEF AlreadyPresent, bounds
  <2>4. CallerInv(c)'
    BY <1>1, <2>2, <2>3, FilesFrame DEF CallerInv, ProgressInv, ReturnInv, ReadInv, Writing
  <2>5. QED
    BY <2>1, <2>4, OneCallerInv
<1>3. CASE Generate(c)
  <2>1. /\ UNCHANGED <<files, read, crashes, faults>> /\ keys' = keys + 1 /\ keys < MaxKeys
        /\ ~FilesPresent
        /\ key' = [key EXCEPT ![c] = keys + 1] /\ lost' = [lost EXCEPT ![c] = FALSE]
        /\ result' = [result EXCEPT ![c] = "none"]
        /\ pc' = [pc EXCEPT ![c] = "openCertificate"]
    BY <1>3 DEF Generate, Goto
  <2>2. Contents(keys) \subseteq Contents(keys') /\ 0..keys \subseteq 0..keys'
        /\ keys' \in 0..MaxKeys
    BY <1>1, <2>1, ContentsFacts DEF IdentityTypes
  <2>3. /\ certificateFile' \in Contents(keys') /\ privateKeyFile' \in Contents(keys')
        /\ read' \in [Callers -> Contents(keys')]
    BY <1>1, <2>1, <2>2 DEF IdentityTypes, files
  <2>4. key' \in [Callers -> 0..keys']
    BY <1>1, <2>1, <2>2 DEF IdentityTypes
  <2>5. IdentityTypes'
    BY <1>1, <2>1, <2>2, <2>3, <2>4 DEF IdentityTypes, Writing
  <2>6. /\ pc'[c] = "openCertificate" /\ key'[c] = keys + 1 /\ result'[c] = "none"
        /\ lost'[c] = FALSE
    BY <1>1, <2>1 DEF IdentityTypes
  <2>7. privateKeyFile' # Pem(key'[c])
    BY <1>1, <2>1, <2>6, ContentsFacts DEF IdentityTypes, files
  <2>8. ~FilesPresent'
    BY <2>1, FilesFrame
  <2>9. CallerInv(c)'
    BY <2>6, <2>7, <2>8 DEF CallerInv, ProgressInv, ReturnInv, ReadInv, Writing
  <2>10. QED
    BY <2>5, <2>9, OneCallerInv
<1>4. CASE OpenCertificate(c)
  <2>1. /\ certificateFile' = <<Empty>> /\ pc[c] = "openCertificate"
        /\ pc' = [pc EXCEPT ![c] = "writeCertificate"]
        /\ UNCHANGED <<privateKeyFile, key, lost, read, result, keys, crashes, faults>>
    BY <1>4 DEF OpenCertificate, Goto, bounds
  <2>2. IdentityTypes'
    BY <1>1, <2>1, ContentsFacts DEF IdentityTypes, Writing
  <2>3. pc'[c] = "writeCertificate"
    BY <1>1, <2>1 DEF IdentityTypes
  <2>4. CallerInv(c)'
    BY <1>1, <2>1, <2>3 DEF CallerInv, ProgressInv, ReturnInv, ReadInv, Writing
  <2>5. QED
    BY <2>2, <2>4, OneCallerInv
<1>5. CASE WriteCertificate(c)
  <2>1. /\ certificateFile' = Pem(key[c]) /\ pc[c] = "writeCertificate"
        /\ pc' = [pc EXCEPT ![c] = "openKey"]
        /\ UNCHANGED <<privateKeyFile, key, lost, read, result, keys, crashes, faults>>
    BY <1>5 DEF WriteCertificate, Goto, bounds
  <2>2. IdentityTypes'
    BY <1>1, <2>1, ContentsFacts DEF IdentityTypes, Writing
  <2>3. pc'[c] = "openKey"
    BY <1>1, <2>1 DEF IdentityTypes
  <2>4. CallerInv(c)'
    BY <1>1, <2>1, <2>3 DEF CallerInv, ProgressInv, ReturnInv, ReadInv, Writing
  <2>5. QED
    BY <2>2, <2>4, OneCallerInv
<1>6. CASE OpenKey(c)
  <2>1. /\ privateKeyFile' = <<Empty>> /\ pc[c] = "openKey"
        /\ pc' = [pc EXCEPT ![c] = "writeKey"]
        /\ UNCHANGED <<certificateFile, key, lost, read, result, keys, crashes, faults>>
    BY <1>6 DEF OpenKey, Goto, bounds
  <2>2. IdentityTypes'
    BY <1>1, <2>1, ContentsFacts DEF IdentityTypes, Writing
  <2>3. pc'[c] = "writeKey"
    BY <1>1, <2>1 DEF IdentityTypes
  <2>4. CallerInv(c)'
    BY <1>1, <2>1, <2>3 DEF CallerInv, ProgressInv, ReturnInv, ReadInv, Writing
  <2>5. QED
    BY <2>2, <2>4, OneCallerInv
<1>7. CASE WriteKey(c)
  <2>1. /\ privateKeyFile' = Pem(key[c]) /\ pc[c] = "writeKey"
        /\ pc' = [pc EXCEPT ![c] = "idle"] /\ result' = [result EXCEPT ![c] = "generated"]
        /\ UNCHANGED <<certificateFile, key, lost, read, keys, crashes, faults>>
    BY <1>7 DEF WriteKey, Return, Goto, bounds
  <2>2. IdentityTypes'
    BY <1>1, <2>1, ContentsFacts DEF IdentityTypes
  <2>3. /\ pc'[c] = "idle" /\ result'[c] = "generated" /\ key[c] \in Keys
        /\ ~lost[c] => certificateFile' = Pem(key[c])
        /\ faults = 0 => ~lost[c]
    BY <1>1, <2>1 DEF IdentityTypes, CallerInv, ProgressInv, ReturnInv, Keys
  <2>4. ~lost[c] => Loadable'
    BY <2>1, <2>3 DEF Loadable, Matches
  <2>5. CallerInv(c)'
    BY <2>1, <2>3, <2>4 DEF CallerInv, ProgressInv, ReturnInv, ReadInv, Writing
  <2>6. QED
    BY <2>2, <2>5, OneCallerInv
<1>8. CASE WriteFails(c)
  <2>1. /\ pc' = [pc EXCEPT ![c] = "idle"] /\ result' = [result EXCEPT ![c] = "failed"]
        /\ faults' = faults + 1 /\ UNCHANGED <<files, key, lost, read, keys, crashes>>
    BY <1>8 DEF WriteFails, Return, Goto
  <2>2. IdentityTypes' /\ faults' # 0
    BY <1>1, <2>1 DEF IdentityTypes, files
  <2>3. pc'[c] = "idle" /\ result'[c] = "failed"
    BY <1>1, <2>1 DEF IdentityTypes
  <2>4. CallerInv(c)'
    BY <2>2, <2>3 DEF CallerInv, ProgressInv, ReturnInv, ReadInv, Writing
  <2>5. QED
    BY <2>2, <2>4, OneCallerInv
<1>9. CASE WriteLost(c)
  <2>1. /\ \/ /\ pc[c] = "writeCertificate" /\ pc' = [pc EXCEPT ![c] = "openKey"]
              /\ result' = result
           \/ /\ pc[c] = "writeKey" /\ pc' = [pc EXCEPT ![c] = "idle"]
              /\ result' = [result EXCEPT ![c] = "generated"]
        /\ lost' = [lost EXCEPT ![c] = TRUE]
        /\ faults' = faults + 1 /\ UNCHANGED <<files, key, read, keys, crashes>>
    BY <1>9 DEF WriteLost, Return, Goto
  <2>2. certificateFile' = certificateFile /\ privateKeyFile' = privateKeyFile
    BY <2>1 DEF files
  <2>3. IdentityTypes' /\ faults' # 0
    BY <1>1, <2>1, <2>2 DEF IdentityTypes, Writing
  <2>4. /\ lost'[c] = TRUE
        /\ \/ pc[c] = "writeCertificate" /\ pc'[c] = "openKey" /\ result'[c] = result[c]
           \/ pc'[c] = "idle"
    BY <1>1, <2>1 DEF IdentityTypes
  <2>5. CallerInv(c)'
    BY <1>1, <2>1, <2>2, <2>3, <2>4 DEF CallerInv, ProgressInv, ReturnInv, ReadInv, Writing
  <2>6. QED
    BY <2>3, <2>5, OneCallerInv
<1>10. QED
  BY <1>2, <1>3, <1>4, <1>5, <1>6, <1>7, <1>8, <1>9

\* loadClientIdentity, and the end of the process, keep the invariant.
LEMMA LoadingInv ==
    ASSUME OneCaller, IdentityInv, NEW c \in Callers,
           ReadCertificate(c) \/ ReadKey(c) \/ NothingToRead(c) \/ Crash(c)
    PROVE  IdentityInv'
<1>1. IdentityTypes /\ CallerInv(c)
  BY DEF IdentityInv
<1>2. UNCHANGED files
  BY DEF ReadCertificate, ReadKey, NothingToRead, Crash
<1>3. CASE ReadCertificate(c)
  <2>1. /\ pc[c] = "idle" /\ pc' = [pc EXCEPT ![c] = "readKey"]
        /\ read' = [read EXCEPT ![c] = certificateFile]
        /\ UNCHANGED <<files, key, lost, result, keys, crashes, faults>>
    BY <1>3 DEF ReadCertificate, Goto, bounds
  <2>2. IdentityTypes'
    BY <1>1, <2>1 DEF IdentityTypes, files
  <2>3. pc'[c] = "readKey" /\ read'[c] = certificateFile /\ certificateFile' = certificateFile
    BY <1>1, <2>1 DEF IdentityTypes, files
  <2>4. CallerInv(c)'
    BY <1>1, <1>2, <2>1, <2>3, FilesFrame
    DEF CallerInv, ProgressInv, ReturnInv, ReadInv, Writing
  <2>5. QED
    BY <2>2, <2>4, OneCallerInv
<1>4. CASE ReadKey(c) \/ NothingToRead(c)
  <2>1. PICK r \in {"loaded", "unloadable"} :
          /\ pc' = [pc EXCEPT ![c] = "idle"] /\ result' = [result EXCEPT ![c] = r]
          /\ pc[c] \in {"idle", "readKey"}
          /\ UNCHANGED <<files, key, lost, read, keys, crashes, faults>>
    BY <1>4 DEF ReadKey, NothingToRead, Return, Goto, bounds
  <2>2. IdentityTypes'
    BY <1>1, <2>1 DEF IdentityTypes, files
  <2>3. pc'[c] = "idle" /\ result'[c] = r
    BY <1>1, <2>1 DEF IdentityTypes
  <2>4. CallerInv(c)'
    BY <1>1, <1>2, <2>1, <2>3, FilesFrame
    DEF CallerInv, ProgressInv, ReturnInv, ReadInv, Writing
  <2>5. QED
    BY <2>2, <2>4, OneCallerInv
<1>5. CASE Crash(c)
  <2>1. /\ pc' = [pc EXCEPT ![c] = "idle"] /\ result' = [result EXCEPT ![c] = "none"]
        /\ crashes' = crashes + 1 /\ UNCHANGED <<files, key, lost, read, keys, faults>>
    BY <1>5 DEF Crash, Return, Goto
  <2>2. IdentityTypes' /\ crashes' # 0
    BY <1>1, <2>1 DEF IdentityTypes, files
  <2>3. pc'[c] = "idle" /\ result'[c] = "none"
    BY <1>1, <2>1 DEF IdentityTypes
  <2>4. CallerInv(c)'
    BY <1>1, <2>1, <2>2, <2>3 DEF CallerInv, ProgressInv, ReturnInv, ReadInv, Writing
  <2>5. QED
    BY <2>2, <2>4, OneCallerInv
<1>6. QED
  BY <1>3, <1>4, <1>5

\* The files start without a half-written one.
LEMMA IdentityInit == Init => IdentityInv
<1> SUFFICES ASSUME Init PROVE IdentityInv
  OBVIOUS
<1>1. /\ <<Absent>> \in Contents(0) /\ Pem(0) \in Contents(0) /\ 0 \in 0..MaxKeys
      /\ 0 \in 0..0 /\ 0 \in Nat
  BY ContentsFacts, KeyAssumption
<1>2. IdentityTypes
  BY <1>1 DEF Init, IdentityTypes
<1>3. FilesPresent => Loadable
  BY <1>1, LoadableFacts DEF Init, FilesPresent, Keys
<1>4. \A c \in Callers : pc[c] = "idle" /\ result[c] = "none" /\ lost[c] = FALSE
  BY DEF Init
<1>5. \A c \in Callers : CallerInv(c)
  BY <1>3, <1>4 DEF CallerInv, ProgressInv, ReturnInv, ReadInv, Writing
<1>6. QED
  BY <1>2, <1>5 DEF IdentityInv

\* A step that changes a file finds no identity in the files.
LEMMA OnlyUnloadableChanges ==
    ASSUME IdentityInv, NEW c \in Callers,
           OpenCertificate(c) \/ WriteCertificate(c) \/ OpenKey(c) \/ WriteKey(c)
    PROVE  ~Loadable
<1>1. pc[c] \in Writing /\ ProgressInv(c)
  BY DEF OpenCertificate, WriteCertificate, OpenKey, WriteKey, Writing, IdentityInv, CallerInv
<1>2. QED
  BY <1>1, WritingIsUnloadable


\* A stuttering step keeps the invariant.
LEMMA StutterInv == IdentityInv /\ UNCHANGED vars => IdentityInv'
BY DEF IdentityInv, IdentityTypes, CallerInv, ProgressInv, ReturnInv, ReadInv, FilesPresent,
       Loadable, Matches, vars

-----------------------------------------------------------------------------
(* The theorems. *)

\* For one caller the invariant holds in every reachable state.
LEMMA IdentityInvariance == ASSUME OneCaller PROVE Spec => []IdentityInv
<1>1. Init => IdentityInv
  BY IdentityInit
<1>2. IdentityInv /\ [Next]_vars => IdentityInv'
  BY GeneratingInv, LoadingInv, StutterInv DEF Next
<1>3. QED
  BY <1>1, <1>2, PTL DEF Spec

\* What the invariant says of the calls that have returned.
LEMMA ReturnsLoad == IdentityInv => WrittenLoads /\ UndisturbedReturnLoads
BY DEF IdentityInv, CallerInv, ReturnInv, WrittenLoads, UndisturbedReturnLoads, ReturnedLoads

\* For one caller, what generateCertificateIfMissing returns true for, and has
\* written out, can be loaded, whatever a crash or a failed or lost write of an
\* earlier call has left behind.
THEOREM WrittenIsLoadable == ASSUME OneCaller PROVE Spec => []WrittenLoads
BY IdentityInvariance, ReturnsLoad, PTL

\* For one caller an identity that can be loaded is never touched again by
\* writeBioToFile, through any number of crashes and failing or lost writes.
THEOREM LoadableIsKept == ASSUME OneCaller PROVE Spec => IdentityIsKept
<1>1. IdentityInv /\ [Next]_vars => [Loadable => UNCHANGED files]_vars
  <2> SUFFICES ASSUME IdentityInv, Next, Loadable PROVE UNCHANGED files
    OBVIOUS
  <2>1. PICK c \in Callers :
          \/ AlreadyPresent(c) \/ Generate(c) \/ WriteFails(c) \/ WriteLost(c)
          \/ ReadCertificate(c) \/ ReadKey(c) \/ NothingToRead(c) \/ Crash(c)
    BY OnlyUnloadableChanges DEF Next
  <2>2. QED
    BY <2>1 DEF AlreadyPresent, Generate, WriteFails, WriteLost, ReadCertificate, ReadKey,
                NothingToRead, Crash
<1>2. QED
  BY <1>1, IdentityInvariance, PTL DEF Spec, IdentityIsKept


\* For one caller, as long as nothing has crashed and no write failed or was
\* lost, whatever generateCertificateIfMissing returns, the identity can be loaded.
THEOREM UndisturbedIsLoadable == ASSUME OneCaller PROVE Spec => []UndisturbedReturnLoads
BY IdentityInvariance, ReturnsLoad, PTL

=============================================================================
