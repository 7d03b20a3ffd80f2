---------------------------- MODULE TlsCertificate ----------------------------
(***************************************************************************)
(* The persisted self-signed certificate of tls/cert.ts: a process that    *)
(* needs it (the server at boot, its certificate endpoint, a command of    *)
(* the CLI) loads cert.pem and key.pem, or generates both when one is      *)
(* missing or the certificate does not cover the configured names.         *)
(* resolveTlsMaterial is synchronous, so nothing interleaves with it       *)
(* inside a process, but processes share the directory: each file access   *)
(* is a step of its own, and a process may be killed between any two.      *)
(* writeFileSync is two steps, as opening truncates the file.              *)
(*                                                                         *)
(* With TLS off, or with TLS_CERT and TLS_KEY given, none of this runs.    *)
(***************************************************************************)
EXTENDS Naturals, FiniteSets

CONSTANTS
    Processes,  \* servers and commands sharing TLS_CERT_DIR
    Pairs,      \* key pairs with their certificates; the model draws each once
    Names,      \* host names and wildcards a certificate can carry
    WildcardOf, \* the wildcard with the first label of a name replaced
    Configs,    \* what desiredSans can be, over configurations in use
    Missing,    \* content of a file that does not exist
    Torn,       \* content of a file that was opened for writing, not yet written
    None        \* no value

ASSUME CertificateAssumption ==
    /\ WildcardOf \in [Names -> Names]
    /\ Configs \subseteq SUBSET Names /\ {} \notin Configs
    /\ Missing \notin Pairs /\ Torn \notin Pairs /\ None \notin Pairs
    /\ Missing # Torn /\ None # Missing /\ None # Torn

VARIABLES
    certFile, \* cert.pem: the pair whose certificate it holds
    keyFile,  \* key.pem: the pair whose private key it holds
    sans,     \* the names each generated certificate carries; none: not generated yet
    proc,     \* where each process is in resolveTlsMaterial, and for what
    served,   \* the certificate each running server presents
    disturbed \* history: the last writer was killed, or another was at the files

vars == <<certFile, keyFile, sans, proc, served, disturbed>>

Contents == Pairs \union {Missing, Torn}
Tasks    == {"none", "boot", "command", "endpoint"}
Writing  == {"openCert", "fillCert", "openKey", "fillKey"}
Phases   == {"idle", "look", "readKey", "resolved", "readAnswer"} \union Writing

Idle == [task |-> "none", phase |-> "idle", required |-> {}, cert |-> None, key |-> None]

TypeOK ==
    /\ certFile \in Contents
    /\ keyFile \in Contents
    /\ sans \in [Pairs -> SUBSET Names]
    /\ proc \in [Processes -> [task : Tasks, phase : Phases, required : SUBSET Names,
                               cert : Contents \union {None}, key : Contents \union {None}]]
    /\ served \in [Processes -> Pairs \union {None}]
    /\ \A p \in Processes : served[p] # None => proc[p].task \in {"none", "endpoint"}
    /\ disturbed \in BOOLEAN

Init ==
    /\ certFile = Missing
    /\ keyFile = Missing
    /\ sans = [c \in Pairs |-> {}]
    /\ proc = [p \in Processes |-> Idle]
    /\ served = [p \in Processes |-> None]
    /\ disturbed = FALSE

-----------------------------------------------------------------------------

dnsCovered_Exact(name, names) == name \in names \* mutated: no wildcards

dnsCovered(name, names) == name \in names \/ WildcardOf[name] \in names

\* Mutated: any certificate will do.
certCoversDomains_Parsed(cert, required) == cert \in Pairs

\* What cannot be parsed covers nothing.
certCoversDomains(cert, required) ==
    cert \in Pairs /\ \A name \in required : dnsCovered(name, sans[cert])

Resolving(p) == proc[p].phase # "idle"

\* Processes that have looked at the files, or are about to write them.
Overlaps(p) == \E q \in Processes \ {p} : proc[q].phase \notin {"idle", "look"}

BothExist_Cert == certFile # Missing \* mutated: the key is not looked for

BothExist == certFile # Missing /\ keyFile # Missing

-----------------------------------------------------------------------------
\* Who calls resolveTlsMaterial.

StartTask(p, task, required) ==
    proc' = [proc EXCEPT ![p] = [Idle EXCEPT !.task = task, !.phase = "look",
                                             !.required = required]]

\* createServer, and the commands that want the path of the certificate.
Start(p) ==
    /\ ~Resolving(p)
    /\ served[p] = None
    /\ \E task \in {"boot", "command"}, required \in Configs : StartTask(p, task, required)
    /\ UNCHANGED <<certFile, keyFile, sans, served, disturbed>>

\* GET /admin/api/certificate, with the configuration the server was started with:
\* the names it requires are those its certificate was resolved for.
AskEndpoint(p) ==
    /\ ~Resolving(p)
    /\ served[p] # None
    /\ StartTask(p, "endpoint", proc[p].required)
    /\ UNCHANGED <<certFile, keyFile, sans, served, disturbed>>

-----------------------------------------------------------------------------
\* resolveTlsMaterial and generateAndPersist.

\* A fresh pair for the names required, which the next steps write.
Generate(p) ==
    \E c \in Pairs :
        /\ sans[c] = {}
        /\ sans' = [sans EXCEPT ![c] = proc[p].required]
        /\ proc' = [proc EXCEPT ![p] = [@ EXCEPT !.phase = "openCert", !.cert = c, !.key = c]]
        /\ disturbed' = (disturbed \/ Overlaps(p))

LookMissing(p) ==
    /\ proc[p].phase = "look"
    /\ ~BothExist
    /\ Generate(p)
    /\ UNCHANGED <<certFile, keyFile, served>>

ReadCert(p) ==
    /\ proc[p].phase = "look"
    /\ BothExist
    /\ proc' = [proc EXCEPT ![p] = [@ EXCEPT !.phase = "readKey", !.cert = certFile]]
    /\ disturbed' = (disturbed \/ \E q \in Processes : proc[q].phase \in Writing)
    /\ UNCHANGED <<certFile, keyFile, sans, served>>

\* The persisted pair is used if its certificate will do; whether the key is the
\* certificate's is not asked.
ReuseOrGenerate(p) ==
    IF certCoversDomains(proc[p].cert, proc[p].required)
    THEN /\ proc' = [proc EXCEPT ![p] = [@ EXCEPT !.phase = "resolved", !.key = keyFile]]
         /\ UNCHANGED <<sans, disturbed>>
    ELSE Generate(p)

ReadKey(p) ==
    /\ proc[p].phase = "readKey"
    /\ ReuseOrGenerate(p)
    /\ UNCHANGED <<certFile, keyFile, served>>

Proceed(p, phase) == proc' = [proc EXCEPT ![p].phase = phase]

OpenCert(p) ==
    /\ proc[p].phase = "openCert"
    /\ certFile' = Torn
    /\ disturbed' = Overlaps(p)
    /\ Proceed(p, "fillCert")
    /\ UNCHANGED <<keyFile, sans, served>>

FillCert(p) ==
    /\ proc[p].phase = "fillCert"
    /\ certFile' = proc[p].cert
    /\ Proceed(p, "openKey")
    /\ UNCHANGED <<keyFile, sans, served, disturbed>>

\* Mutated: an existing key file is not overwritten.
OpenKey_IfAbsent(p) ==
    /\ proc[p].phase = "openKey"
    /\ IF keyFile = Missing
       THEN keyFile' = Torn /\ Proceed(p, "fillKey")
       ELSE Proceed(p, "resolved") /\ UNCHANGED keyFile
    /\ UNCHANGED <<certFile, sans, served, disturbed>>

OpenKey(p) ==
    /\ proc[p].phase = "openKey"
    /\ keyFile' = Torn
    /\ Proceed(p, "fillKey")
    /\ UNCHANGED <<certFile, sans, served, disturbed>>

FillKey(p) ==
    /\ proc[p].phase = "fillKey"
    /\ keyFile' = proc[p].key
    /\ Proceed(p, "resolved")
    /\ UNCHANGED <<certFile, sans, served, disturbed>>

-----------------------------------------------------------------------------
\* What the callers do with the pair.

\* https.createServer refuses a key that is not the certificate's.
Serve(p) ==
    /\ proc[p].phase = "resolved"
    /\ proc[p].task = "boot"
    /\ proc[p].cert = proc[p].key
    /\ served' = [served EXCEPT ![p] = proc[p].cert]
    /\ proc' = [proc EXCEPT ![p] = [Idle EXCEPT !.required = proc[p].required]]
    /\ UNCHANGED <<certFile, keyFile, sans, disturbed>>

BootAborts(p) ==
    /\ proc[p].phase = "resolved"
    /\ proc[p].task = "boot"
    /\ proc[p].cert # proc[p].key
    /\ proc' = [proc EXCEPT ![p] = Idle]
    /\ UNCHANGED <<certFile, keyFile, sans, served, disturbed>>

\* A command or the endpoint reads cert.pem and answers, or fails to parse it.
Answer(p) ==
    /\ proc[p].phase = "resolved"
    /\ proc[p].task \in {"command", "endpoint"}
    /\ proc' = [proc EXCEPT ![p] =
           [Idle EXCEPT !.required = IF served[p] = None THEN {} ELSE proc[p].required]]
    /\ UNCHANGED <<certFile, keyFile, sans, served, disturbed>>

\* A process ends or is killed, in the middle of a write perhaps.
Stop(p) ==
    /\ Resolving(p) \/ served[p] # None
    /\ proc' = [proc EXCEPT ![p] = Idle]
    /\ served' = [served EXCEPT ![p] = None]
    /\ disturbed' = (disturbed \/ proc[p].phase \in Writing \ {"openCert"})
    /\ UNCHANGED <<certFile, keyFile, sans>>

\* Somebody deletes one of the files, at a moment when no process is at them.
Remove ==
    /\ \A p \in Processes : ~Resolving(p)
    /\ \/ certFile # Missing /\ certFile' = Missing /\ UNCHANGED keyFile
       \/ keyFile # Missing /\ keyFile' = Missing /\ UNCHANGED certFile
    /\ UNCHANGED <<sans, proc, served, disturbed>>

Next ==
    \/ \E p \in Processes :
          \/ Start(p) \/ AskEndpoint(p)
          \/ LookMissing(p) \/ ReadCert(p) \/ ReadKey(p)
          \/ OpenCert(p) \/ FillCert(p) \/ OpenKey(p) \/ FillKey(p)
          \/ Serve(p) \/ BootAborts(p) \/ Answer(p) \/ Stop(p)
    \/ Remove

Spec == Init /\ [][Next]_vars

-----------------------------------------------------------------------------

\* The names a certificate is good for.
Carried(c) == {name \in Names : name \in sans[c] \/ WildcardOf[name] \in sans[c]}

(***************************************************************************)
(* Whatever a server found on disk, and whoever was writing there, the     *)
(* certificate it presents carries every name it is configured to answer   *)
(* for.                                                                    *)
(***************************************************************************)
ServedCovers ==
    \A p \in Processes :
        served[p] # None => proc[p].required \subseteq Carried(served[p])

(***************************************************************************)
(* Unless the last process to generate a pair was killed in the middle or  *)
(* another was at the files too, cert.pem and key.pem are one pair         *)
(* whenever both exist and nobody is writing.                              *)
(***************************************************************************)
UndisturbedPair ==
    (/\ ~disturbed
     /\ certFile # Missing /\ keyFile # Missing
     /\ \A p \in Processes : proc[p].phase \notin Writing \ {"openCert"})
    => certFile = keyFile /\ certFile \in Pairs

\* Every variable has its type, and the files are a pair where they must be.
PairSound == TypeOK /\ UndisturbedPair

\* cert.pem is overwritten only by a process it does not suit, or for want of its key.
ReplacedForCause ==
    (certFile \in Pairs /\ certFile' # certFile /\ ~disturbed) =>
        \/ certFile' = Missing
        \/ keyFile = Missing
        \/ \E p \in Processes : /\ proc[p].phase = "openCert"
                                /\ ~(proc[p].required \subseteq Carried(certFile))

(***************************************************************************)
(* "Stable across restarts": what clients were told to trust is replaced   *)
(* only by a process that needs a name it does not carry, or because its   *)
(* key is gone.  In particular, configurations that differ in names a      *)
(* wildcard covers share one certificate.                                  *)
(***************************************************************************)
CertificateKept == [][ReplacedForCause]_vars

AbortsForCause == \A p \in Processes : BootAborts(p) => disturbed

(***************************************************************************)
(* A server fails to start for a key that does not match only after a      *)
(* disturbed write.  (Then it fails at every start: the certificate still  *)
(* covers the names, so nothing is generated.)                             *)
(***************************************************************************)
BootAbortsForCause == [][AbortsForCause]_vars

=============================================================================
