---------------------------- MODULE KeyAuthorities ----------------------------
(***************************************************************************)
(* The authorities that make pairs of files for other parts:               *)
(* certificate_authority (a key and its certificate) and sshkeys_authority *)
(* (a private and a public key).  They look at the request files, every    *)
(* minute or when these are written, and make what is missing with openssl *)
(* or ssh-keygen, external programs; the service that asked starts when    *)
(* both files are there.                                                   *)
(*                                                                         *)
(* A file is known by the key it was made of.  The pair of the certificate *)
(* authority itself is made like the others.  Buildout may write a pair    *)
(* that the user provides; the authority may die anywhere.                 *)
(***************************************************************************)
EXTENDS Naturals, FiniteSets

CONSTANTS
    Request,        \* pairs that are asked for
    Ssh,            \* of Request, those asked of sshkeys_authority
    None,
    MaxKeys,        \* bound: keys made
    MaxDeaths       \* bound: deaths and failures of the authorities, files removed

VARIABLES
    key,            \* per request: the key in the (private) key file, Blank, or None
    certificate,    \* per request: the key the certificate or public key is of, Blank or None
    at,             \* the step of an authority on a request, "idle" if it is on none
    csr,            \* key of the signing request that openssl works on
    writing,        \* buildout wrote the key of a provided pair and not its certificate
    started,        \* services that have started
    crossed,        \* a provided pair was written while the authority worked on the request
    torn,           \* a certificate or public key was left without content
    keys, deaths

vars == <<key, certificate, at, csr, writing, started, crossed, torn, keys, deaths>>

Blank == 0                  \* a file that is created and has no content yet
File == (0..MaxKeys) \cup {None}
Step == {"idle", "make key", "sign", "write"}

TypeOK ==
    /\ key \in [Request -> File] /\ certificate \in [Request -> File]
    /\ at \in [Request -> Step] /\ csr \in [Request -> File]
    /\ writing \in [Request -> File]
    /\ started \subseteq Request /\ crossed \subseteq Request /\ torn \subseteq Request
    /\ keys \in 0..MaxKeys /\ deaths \in 0..MaxDeaths

Init ==
    /\ key = [r \in Request |-> None] /\ certificate = [r \in Request |-> None]
    /\ at = [r \in Request |-> "idle"] /\ csr = [r \in Request |-> None]
    /\ writing = [r \in Request |-> None]
    /\ started = {} /\ crossed = {} /\ torn = {}
    /\ keys = 0 /\ deaths = 0

-----------------------------------------------------------------------------
(* The authorities: one works on one request at a time. *)

Busy(r) == \E q \in Request : at[q] # "idle" /\ (q \in Ssh) = (r \in Ssh)

\* Variant of Left: only the key is made anew.
LeftInPlace(r) == certificate[r]

\* What is left of the certificate when a pair is taken up: it is removed with its key.
Left(r) == None

\* Only the ssh authority goes on with a private key that has lost its public key.
Keeps(r) == r \in Ssh /\ key[r] # None

\* Both files exist: nothing is done.  Otherwise what there is of a pair is removed.
TakeUp(r) ==
    /\ ~Busy(r) /\ (key[r] = None \/ certificate[r] = None)
    /\ key' = [key EXCEPT ![r] = IF Keeps(r) THEN @ ELSE None]
    /\ certificate' = [certificate EXCEPT ![r] = Left(r)]
    /\ csr' = [csr EXCEPT ![r] = IF Keeps(r) THEN key[r] ELSE None]
    /\ at' = [at EXCEPT ![r] = IF Keeps(r) THEN "sign" ELSE "make key"]
    /\ UNCHANGED <<writing, started, crossed, torn, keys, deaths>>

\* openssl req, or ssh-keygen; a public key that is there is not made again.
MakeKey(r) ==
    /\ at[r] = "make key" /\ keys < MaxKeys /\ keys' = keys + 1
    /\ key' = [key EXCEPT ![r] = keys']
    /\ csr' = [csr EXCEPT ![r] = keys']
    /\ at' = [at EXCEPT ![r] = IF r \in Ssh /\ certificate[r] # None THEN "idle" ELSE "sign"]
    /\ UNCHANGED <<certificate, writing, started, crossed, torn, deaths>>

\* openssl ca creates its output, and writes it.  For ssh, ssh-keygen writes the public key
\* after the private one, or it is derived from the private one and then written (with
\* Python 3 the program ends there with an exception: Dies).
CreateCertificate(r) ==
    /\ at[r] = "sign"
    /\ certificate' = [certificate EXCEPT ![r] = Blank]
    /\ at' = [at EXCEPT ![r] = "write"]
    /\ UNCHANGED <<key, csr, writing, started, crossed, torn, keys, deaths>>

\* A derived public key whose text has no "=" (2048 bits) does not match the pattern it is
\* searched with, and an empty file is written.
WriteCertificate(r) ==
    /\ at[r] = "write"
    /\ \/ certificate' = [certificate EXCEPT ![r] = csr[r]] /\ UNCHANGED torn
       \/ r \in Ssh /\ torn' = torn \cup {r} /\ UNCHANGED certificate
    /\ at' = [at EXCEPT ![r] = "idle"]
    /\ UNCHANGED <<key, csr, writing, started, crossed, keys, deaths>>

\* The program fails: the certificate authority removes both files, and exits.
Fails(r) ==
    /\ at[r] # "idle" /\ deaths < MaxDeaths /\ deaths' = deaths + 1
    /\ r \notin Ssh
    /\ key' = [key EXCEPT ![r] = None] /\ certificate' = [certificate EXCEPT ![r] = None]
    /\ at' = [at EXCEPT ![r] = "idle"]
    /\ UNCHANGED <<csr, writing, started, crossed, torn, keys>>

Dies(r) ==
    /\ at[r] # "idle" /\ deaths < MaxDeaths /\ deaths' = deaths + 1
    /\ at' = [at EXCEPT ![r] = "idle"]
    /\ torn' = IF at[r] = "write" THEN torn \cup {r} ELSE torn
    /\ UNCHANGED <<key, certificate, csr, writing, started, crossed, keys>>

\* A file of a pair is removed, as one does to have it renewed.
Remove(r) ==
    /\ at[r] = "idle" /\ deaths < MaxDeaths /\ deaths' = deaths + 1
    /\ \/ key[r] # None /\ key' = [key EXCEPT ![r] = None] /\ UNCHANGED certificate
       \/ certificate[r] # None /\ certificate' = [certificate EXCEPT ![r] = None] /\ UNCHANGED key
    /\ UNCHANGED <<at, csr, writing, started, crossed, torn, keys>>

-----------------------------------------------------------------------------
(* Buildout and the services. *)

\* A pair that matches is provided in the parameters: the key is written, then the certificate.
ProvideKey(r) ==
    /\ r \notin Ssh /\ writing[r] = None /\ keys < MaxKeys /\ keys' = keys + 1
    /\ key' = [key EXCEPT ![r] = keys']
    /\ writing' = [writing EXCEPT ![r] = keys']
    /\ crossed' = IF at[r] # "idle" THEN crossed \cup {r} ELSE crossed
    /\ UNCHANGED <<certificate, at, csr, started, torn, deaths>>

ProvideCertificate(r) ==
    /\ writing[r] # None
    /\ certificate' = [certificate EXCEPT ![r] = writing[r]]
    /\ writing' = [writing EXCEPT ![r] = None]
    /\ crossed' = IF at[r] # "idle" \/ key[r] # writing[r] THEN crossed \cup {r} ELSE crossed
    /\ UNCHANGED <<key, at, csr, started, torn, keys, deaths>>

\* The wrapper waits for both files, whatever they contain.
StartService(r) ==
    /\ r \notin started /\ key[r] # None /\ certificate[r] # None
    /\ started' = started \cup {r}
    /\ UNCHANGED <<key, certificate, at, csr, writing, crossed, torn, keys, deaths>>

Authority(r) == TakeUp(r) \/ MakeKey(r) \/ CreateCertificate(r) \/ WriteCertificate(r)

Next ==
    \E r \in Request :
       \/ Authority(r) \/ Fails(r) \/ Dies(r) \/ Remove(r)
       \/ ProvideKey(r) \/ ProvideCertificate(r) \/ StartService(r)

Spec == Init /\ [][Next]_vars

-----------------------------------------------------------------------------
\* Through deaths of the authorities and removals, a key and a certificate that are both
\* there belong together once their makers are done; except where a provided pair crossed
\* one that was being made, or the certificate was left without content.
PairsMatch ==
    \A r \in Request :
       at[r] = "idle" /\ writing[r] = None /\ key[r] # None /\ certificate[r] # None =>
          certificate[r] = key[r] \/ r \in crossed \/ (r \in torn /\ certificate[r] = Blank)
=============================================================================
