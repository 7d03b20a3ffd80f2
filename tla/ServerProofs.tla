----------------------------- MODULE ServerProofs ------------------------------
(***************************************************************************)
(* Proofs about a server and the machine it runs on: what it makes for     *)
(* itself when it starts and shares with other servers, the TLS            *)
(* certificate (TlsCertificate) and the signing keys (SigningKeys), and    *)
(* the local domains it is reached by (LocalDomains: the hosts file, whose *)
(* lines belong to others, and the routing by host).  For any number of    *)
(* processes, pairs, names, configurations, keys, token responses under    *)
(* way, shells, foreign lines, paths, commands, edits and torn writes.     *)
(***************************************************************************)
EXTENDS TlsCertificate, SigningKeys, LocalDomains, FiniteSetTheorems, SequenceTheorems,
        WellFoundedInduction, TLAPS

-----------------------------------------------------------------------------
(* The certificate. *)

\* The names S are among those that certificate c carries, where s says what is in it.
Covers(s, c, S) == \A name \in S : name \in s[c] \/ WildcardOf[name] \in s[c]

\* Whoever resolves a certificate, or serves one, does so for a configuration in use.
NamesAreConfigured ==
    \A p \in Processes : Resolving(p) \/ served[p] # None => proc[p].required \in Configs

\* A pair that is being written was drawn for the names its process requires.
WritersCover ==
    \A p \in Processes : proc[p].phase \in Writing =>
        /\ proc[p].cert \in Pairs /\ proc[p].key = proc[p].cert
        /\ sans[proc[p].cert] # {}
        /\ Covers(sans, proc[p].cert, proc[p].required)

\* A pair about to be used covers the names required, reused or generated.
ResolvedCovers ==
    \A p \in Processes : proc[p].phase = "resolved" =>
        proc[p].cert \in Pairs /\ Covers(sans, proc[p].cert, proc[p].required)

\* ServedCovers.
ServersCover ==
    \A p \in Processes : served[p] # None => Covers(sans, served[p], proc[p].required)

FileWasDrawn == certFile \in Pairs => sans[certFile] # {}

CoverInv ==
    /\ TypeOK /\ NamesAreConfigured /\ WritersCover /\ ResolvedCovers /\ FileWasDrawn
    /\ ServersCover

-----------------------------------------------------------------------------
\* The names of a certificate are settled when it is drawn.
SansSettle == \A c \in Pairs : sans[c] # {} => sans'[c] = sans[c]

LEMMA CarriedSettles ==
    ASSUME SansSettle, NEW c \in Pairs, NEW S, Covers(sans, c, S)
    PROVE  Covers(sans', c, S)
  BY DEF SansSettle, Covers

\* What covers by certCoversDomains carries the names.
LEMMA CoversIsCarried ==
    ASSUME NEW c, NEW S \in SUBSET Names
    PROVE  certCoversDomains(c, S) <=> c \in Pairs /\ Covers(sans, c, S)
  BY DEF certCoversDomains, dnsCovered, Covers

\* A process that draws a pair goes on to write it.
LEMMA GenerateStep ==
    ASSUME CoverInv, NEW p \in Processes, Resolving(p), Generate(p)
    PROVE  /\ SansSettle /\ sans' \in [Pairs -> SUBSET Names]
           /\ proc' \in [Processes -> [task : Tasks, phase : Phases, required : SUBSET Names,
                                       cert : Contents \union {None}, key : Contents \union {None}]]
           /\ \A q \in Processes \ {p} : proc'[q] = proc[q]
           /\ proc'[p].phase = "openCert" /\ proc'[p].task = proc[p].task
           /\ proc'[p].required = proc[p].required
           /\ proc'[p].cert \in Pairs /\ proc'[p].key = proc'[p].cert
           /\ sans'[proc'[p].cert] # {}
           /\ Covers(sans', proc'[p].cert, proc[p].required)
           /\ disturbed' = (disturbed \/ Overlaps(p))
  <1>1. PICK c \in Pairs :
            /\ sans[c] = {}
            /\ sans' = [sans EXCEPT ![c] = proc[p].required]
            /\ proc' = [proc EXCEPT ![p] = [@ EXCEPT !.phase = "openCert", !.cert = c, !.key = c]]
            /\ disturbed' = (disturbed \/ Overlaps(p))
    BY DEF Generate
  <1>2. proc[p].required \in SUBSET Names /\ proc[p].required # {}
    BY CertificateAssumption DEF CoverInv, TypeOK, NamesAreConfigured
  <1>3. sans' \in [Pairs -> SUBSET Names] /\ sans'[c] = proc[p].required /\ SansSettle
    BY <1>1, <1>2 DEF CoverInv, TypeOK, SansSettle
  <1> DEFINE new == [proc[p] EXCEPT !.phase = "openCert", !.cert = c, !.key = c]
  <1>4. /\ new \in [task : Tasks, phase : Phases, required : SUBSET Names,
                    cert : Contents \union {None}, key : Contents \union {None}]
        /\ new.phase = "openCert" /\ new.task = proc[p].task /\ new.cert = c /\ new.key = c
        /\ new.required = proc[p].required
    BY DEF CoverInv, TypeOK, Phases, Writing, Contents
  <1>5. proc' = [proc EXCEPT ![p] = new]
    BY <1>1
  <1> HIDE DEF new
  <1>6. /\ proc' \in [Processes -> [task : Tasks, phase : Phases, required : SUBSET Names,
                                    cert : Contents \union {None}, key : Contents \union {None}]]
        /\ proc'[p] = new /\ \A q \in Processes \ {p} : proc'[q] = proc[q]
    BY <1>4, <1>5 DEF CoverInv, TypeOK
  <1>7. Covers(sans', c, proc[p].required)
    BY <1>2, <1>3 DEF Covers
  <1>8. QED
    BY <1>1, <1>2, <1>3, <1>4, <1>6, <1>7

Row == [task : Tasks, phase : Phases, required : SUBSET Names,
        cert : Contents \union {None}, key : Contents \union {None}]

\* Process p moves to where it may be, and certificates stay as they were drawn.
MovesOne(p) ==
    /\ SansSettle /\ sans' \in [Pairs -> SUBSET Names]
    /\ proc' \in [Processes -> Row]
    /\ served' \in [Processes -> Pairs \union {None}]
    /\ disturbed' \in BOOLEAN
    /\ \A q \in Processes \ {p} : proc'[q] = proc[q] /\ served'[q] = served[q]
    /\ certFile' \in Contents /\ keyFile' \in Contents
    /\ \/ certFile' = certFile \/ certFile' \notin Pairs
       \/ proc[p].phase \in Writing /\ certFile' = proc[p].cert

\* What the process that moved needs for the invariant.
Covered(p) ==
    /\ served'[p] # None =>
           /\ proc'[p].task \in {"none", "endpoint"}
           /\ proc'[p].required \in Configs
           /\ Covers(sans', served'[p], proc'[p].required)
    /\ proc'[p].phase # "idle" => proc'[p].required \in Configs
    /\ proc'[p].phase \in Writing =>
           /\ proc'[p].cert \in Pairs /\ proc'[p].key = proc'[p].cert
           /\ sans'[proc'[p].cert] # {}
           /\ Covers(sans', proc'[p].cert, proc'[p].required)
    /\ proc'[p].phase = "resolved" =>
           proc'[p].cert \in Pairs /\ Covers(sans', proc'[p].cert, proc'[p].required)

\* It is enough to look at the process that moves and at cert.pem.
LEMMA CoverStep ==
    ASSUME CoverInv, NEW p \in Processes, MovesOne(p), Covered(p)
    PROVE  CoverInv'
  <1> USE DEF Row
  <1>1. TypeOK'
    BY DEF CoverInv, TypeOK, MovesOne, Covered
  <1>2. NamesAreConfigured'
    BY DEF CoverInv, NamesAreConfigured, Resolving, MovesOne, Covered
  <1>3. WritersCover'
    <2>1. ASSUME NEW q \in Processes, q # p, proc[q].phase \in Writing
          PROVE  /\ proc[q].cert \in Pairs /\ sans'[proc[q].cert] # {}
                 /\ Covers(sans', proc'[q].cert, proc[q].required)
      BY <2>1, CarriedSettles DEF CoverInv, WritersCover, MovesOne, SansSettle
    <2>2. QED
      BY <2>1 DEF CoverInv, WritersCover, MovesOne, Covered
  <1>4. ResolvedCovers'
    <2>1. ASSUME NEW q \in Processes, q # p, proc[q].phase = "resolved"
          PROVE  proc[q].cert \in Pairs /\ Covers(sans', proc'[q].cert, proc[q].required)
      BY <2>1, CarriedSettles DEF CoverInv, ResolvedCovers, MovesOne
    <2>2. QED
      BY <2>1 DEF ResolvedCovers, MovesOne, Covered
  <1>5. FileWasDrawn'
    BY DEF CoverInv, FileWasDrawn, WritersCover, MovesOne, SansSettle
  <1>6. ServersCover'
    <2>1. ASSUME NEW q \in Processes, q # p, served[q] # None
          PROVE  Covers(sans', served'[q], proc[q].required)
      BY <2>1, CarriedSettles DEF CoverInv, ServersCover, TypeOK, MovesOne
    <2>2. QED
      BY <2>1 DEF ServersCover, MovesOne, Covered
  <1>7. QED
    BY <1>1, <1>2, <1>3, <1>4, <1>5, <1>6 DEF CoverInv

LEMMA Init_CoverInv == Init => CoverInv
  <1> SUFFICES ASSUME Init PROVE CoverInv
    OBVIOUS
  <1>1. Idle \in Row /\ Idle.task = "none" /\ Idle.phase = "idle"
    BY DEF Idle, Row, Tasks, Phases
  <1>2. /\ \A p \in Processes : proc[p] = Idle /\ served[p] = None
        /\ certFile = Missing /\ proc \in [Processes -> Row]
    BY <1>1 DEF Init
  <1>3. TypeOK
    BY <1>2 DEF Init, TypeOK, Row, Contents
  <1>4. QED
    BY <1>1, <1>2, <1>3, CertificateAssumption
       DEF CoverInv, NamesAreConfigured, WritersCover, ResolvedCovers, FileWasDrawn, ServersCover,
           Writing, Resolving

\* Certificates are as they were, so what they carry is.
LEMMA SameSans ==
    ASSUME UNCHANGED sans
    PROVE  SansSettle
  BY DEF SansSettle

LEMMA Next_CoverInv == CoverInv /\ [Next]_vars => CoverInv'
  <1> SUFFICES ASSUME CoverInv, [Next]_vars PROVE CoverInv'
    OBVIOUS
  <1> USE DEF Row
  <1>0. /\ TypeOK /\ NamesAreConfigured /\ WritersCover /\ ResolvedCovers /\ ServersCover
        /\ proc \in [Processes -> Row]
    BY DEF CoverInv, TypeOK
  <1>1. ASSUME NEW p \in Processes, Start(p) \/ AskEndpoint(p) PROVE CoverInv'
    <2>1. PICK task \in {"boot", "command", "endpoint"}, required \in Configs :
              /\ StartTask(p, task, required)
              /\ served[p] # None => task = "endpoint" /\ required = proc[p].required
      BY <1>0, <1>1 DEF Start, AskEndpoint, NamesAreConfigured
    <2> DEFINE new == [Idle EXCEPT !.task = task, !.phase = "look", !.required = required]
    <2>2. /\ new \in Row
          /\ new.task = task /\ new.phase = "look" /\ new.required = required
      BY CertificateAssumption DEF Idle, Tasks, Phases, Writing
    <2>3. proc' = [proc EXCEPT ![p] = new]
      BY <2>1 DEF StartTask
    <2> HIDE DEF new
    <2>4. proc' \in [Processes -> Row] /\ proc'[p] = new
          /\ \A q \in Processes \ {p} : proc'[q] = proc[q]
      BY <1>0, <2>2, <2>3
    <2>5. UNCHANGED <<certFile, keyFile, sans, served, disturbed>>
      BY <1>1 DEF Start, AskEndpoint
    <2>6. SansSettle
      BY <2>5, SameSans
    <2>7. served'[p] # None =>
              /\ proc'[p].task \in {"none", "endpoint"}
              /\ proc'[p].required \in Configs
              /\ Covers(sans', served'[p], proc'[p].required)
      BY <1>0, <2>1, <2>2, <2>4, <2>5, SameSans DEF ServersCover
    <2>8. MovesOne(p)
      BY <1>0, <2>1, <2>2, <2>4, <2>5, <2>6, <2>7, SameSans DEF MovesOne, Contents, Writing, TypeOK
    <2>9. Covered(p)
      BY <1>0, <2>1, <2>2, <2>4, <2>5, <2>6, <2>7 DEF Covered, Writing, TypeOK
    <2>10. QED
      BY <2>8, <2>9, CoverStep
  <1>2. ASSUME NEW p \in Processes, Resolving(p), Generate(p), UNCHANGED <<certFile, keyFile, served>>
        PROVE  CoverInv'
    <2>1. SansSettle /\ \A q \in Processes \ {p} : proc'[q] = proc[q]
      BY <1>2, GenerateStep
    <2>2. proc'[p].required \in Configs /\ proc'[p].required = proc[p].required
      BY <1>0, <1>2, GenerateStep DEF NamesAreConfigured
    <2>3. served'[p] # None =>
              /\ proc'[p].task \in {"none", "endpoint"}
              /\ Covers(sans', served'[p], proc'[p].required)
      <3>1. ASSUME served[p] # None PROVE Covers(sans', served'[p], proc[p].required)
        BY <1>0, <2>1, <3>1, <1>2, CarriedSettles DEF ServersCover, TypeOK
      <3>2. QED
        BY <1>0, <1>2, <2>2, <3>1, GenerateStep DEF TypeOK
    <2>4. proc'[p].phase = "openCert" /\ Covers(sans', proc'[p].cert, proc'[p].required)
      BY <1>2, <2>2, GenerateStep
    <2>5. MovesOne(p)
      BY <1>0, <1>2, <2>1, <2>2, <2>3, <2>4, GenerateStep, SameSans DEF MovesOne, Contents, TypeOK
    <2>6. Covered(p)
      BY <1>0, <1>2, <2>1, <2>2, <2>3, <2>4, GenerateStep DEF Covered, TypeOK
    <2>7. QED
      BY <2>5, <2>6, CoverStep
  <1>3. ASSUME NEW p \in Processes, ReadCert(p) PROVE CoverInv'
    <2> DEFINE new == [proc[p] EXCEPT !.phase = "readKey", !.cert = certFile]
    <2>1. /\ new \in Row
          /\ new.task = proc[p].task /\ new.phase = "readKey" /\ new.required = proc[p].required
      BY <1>0 DEF TypeOK, Phases
    <2>2. proc' = [proc EXCEPT ![p] = new] /\ UNCHANGED <<certFile, keyFile, sans, served>>
          /\ proc[p].phase = "look"
      BY <1>3 DEF ReadCert
    <2> HIDE DEF new
    <2>3. proc' \in [Processes -> Row] /\ proc'[p] = new
          /\ \A q \in Processes \ {p} : proc'[q] = proc[q]
      BY <1>0, <2>1, <2>2
    <2>4. SansSettle
      BY <2>2, SameSans
    <2>5. proc[p].required \in Configs
      BY <1>0, <2>2 DEF NamesAreConfigured, Resolving
    <2>6. served'[p] # None =>
              /\ proc'[p].task \in {"none", "endpoint"}
              /\ Covers(sans', served'[p], proc'[p].required)
      BY <1>0, <2>1, <2>2, <2>3, SameSans DEF ServersCover, TypeOK
    <2>7. disturbed' \in BOOLEAN
      BY <1>3, <1>0 DEF ReadCert, TypeOK
    <2>8. MovesOne(p)
      BY <1>0, <2>1, <2>2, <2>3, <2>4, <2>5, <2>6, <2>7, SameSans DEF MovesOne, Contents, Writing, TypeOK
    <2>9. Covered(p)
      BY <1>0, <2>1, <2>2, <2>3, <2>4, <2>5, <2>6, <2>7 DEF Covered, Writing, TypeOK
    <2>10. QED
      BY <2>8, <2>9, CoverStep
  <1>4. ASSUME NEW p \in Processes, proc[p].phase = "readKey",
               certCoversDomains(proc[p].cert, proc[p].required),
               proc' = [proc EXCEPT ![p] = [@ EXCEPT !.phase = "resolved", !.key = keyFile]],
               UNCHANGED <<certFile, keyFile, sans, served, disturbed>>
        PROVE  CoverInv'
    <2> DEFINE new == [proc[p] EXCEPT !.phase = "resolved", !.key = keyFile]
    <2>1. /\ new \in Row /\ new.cert = proc[p].cert
          /\ new.task = proc[p].task /\ new.phase = "resolved" /\ new.required = proc[p].required
      BY <1>0 DEF TypeOK, Phases
    <2>2. proc' = [proc EXCEPT ![p] = new]
      BY <1>4
    <2> HIDE DEF new
    <2>3. proc' \in [Processes -> Row] /\ proc'[p] = new
          /\ \A q \in Processes \ {p} : proc'[q] = proc[q]
      BY <1>0, <2>1, <2>2
    <2>4. SansSettle
      BY <1>4, SameSans
    <2>5. proc[p].required \in Configs
      BY <1>0, <1>4 DEF NamesAreConfigured, Resolving
    <2>6. served'[p] # None =>
              /\ proc'[p].task \in {"none", "endpoint"}
              /\ Covers(sans', served'[p], proc'[p].required)
      BY <1>0, <1>4, <2>1, <2>3, SameSans DEF ServersCover, TypeOK
    <2>7. proc'[p].cert \in Pairs /\ Covers(sans', proc'[p].cert, proc'[p].required)
      <3>1. proc[p].required \in SUBSET Names
        BY <1>0
      <3>2. proc[p].cert \in Pairs /\ Covers(sans, proc[p].cert, proc[p].required)
        BY <1>4, <3>1, CoversIsCarried
      <3>3. QED
        BY <1>4, <2>1, <2>3, <3>2
    <2>8. MovesOne(p)
      BY <1>0, <1>4, <2>1, <2>3, <2>4, <2>5, <2>6, <2>7, SameSans DEF MovesOne, Contents, Writing, TypeOK
    <2>9. Covered(p)
      BY <1>0, <1>4, <2>1, <2>3, <2>4, <2>5, <2>6, <2>7 DEF Covered, Writing, TypeOK
    <2>10. QED
      BY <2>8, <2>9, CoverStep
  <1>5. ASSUME NEW p \in Processes, proc[p].phase \in Writing, NEW ph \in {"fillCert", "openKey", "fillKey", "resolved"},
               Proceed(p, ph), UNCHANGED <<sans, served>>, disturbed' \in BOOLEAN,
               certFile' \in {certFile, Torn, proc[p].cert},
               keyFile' \in {keyFile, Torn, proc[p].key}
        PROVE  CoverInv'
    <2> DEFINE new == [proc[p] EXCEPT !.phase = ph]
    <2>1. /\ new \in Row /\ new.cert = proc[p].cert /\ new.key = proc[p].key
          /\ new.task = proc[p].task /\ new.phase = ph /\ new.required = proc[p].required
      BY <1>0 DEF TypeOK, Phases, Writing
    <2>2. proc' = [proc EXCEPT ![p] = new]
      BY <1>5 DEF Proceed
    <2> HIDE DEF new
    <2>3. proc' \in [Processes -> Row] /\ proc'[p] = new
          /\ \A q \in Processes \ {p} : proc'[q] = proc[q]
      BY <1>0, <2>1, <2>2
    <2>4. SansSettle
      BY <1>5, SameSans
    <2>5. /\ proc[p].required \in Configs
          /\ proc[p].cert \in Pairs /\ proc[p].key = proc[p].cert /\ sans[proc[p].cert] # {}
          /\ Covers(sans, proc[p].cert, proc[p].required)
      BY <1>0, <1>5 DEF NamesAreConfigured, Resolving, WritersCover, Writing
    <2>6. served'[p] # None =>
              /\ proc'[p].task \in {"none", "endpoint"}
              /\ Covers(sans', served'[p], proc'[p].required)
      BY <1>0, <1>5, <2>1, <2>3, SameSans DEF ServersCover, TypeOK
    <2>7. Covers(sans', proc'[p].cert, proc'[p].required)
      BY <1>5, <2>1, <2>3, <2>5
    <2>8. /\ certFile' \in Contents /\ keyFile' \in Contents
          /\ certFile' = certFile \/ certFile' \notin Pairs \/ certFile' = proc[p].cert
      BY <1>0, <1>5, <2>5, CertificateAssumption DEF TypeOK, Contents
    <2>9. MovesOne(p)
      BY <1>0, <1>5, <2>1, <2>3, <2>4, <2>5, <2>6, <2>7, <2>8, SameSans DEF MovesOne, Contents, TypeOK
    <2>10. Covered(p)
      BY <1>0, <1>5, <2>1, <2>3, <2>4, <2>5, <2>6, <2>7, <2>8 DEF Covered, TypeOK
    <2>11. QED
      BY <2>9, <2>10, CoverStep
  <1>6. ASSUME NEW p \in Processes, NEW required \in SUBSET Names,
               proc' = [proc EXCEPT ![p] = [Idle EXCEPT !.required = required]],
               served' \in [Processes -> Pairs \union {None}],
               \A q \in Processes \ {p} : served'[q] = served[q],
               served'[p] # None => required \in Configs /\ Covers(sans, served'[p], required),
               UNCHANGED <<certFile, keyFile, sans>>, disturbed' \in BOOLEAN
        PROVE  CoverInv'
    <2> DEFINE new == [Idle EXCEPT !.required = required]
    <2>1. /\ new \in Row /\ new.task = "none" /\ new.phase = "idle" /\ new.required = required
      BY DEF Idle, Tasks, Phases
    <2>2. proc' = [proc EXCEPT ![p] = new]
      BY <1>6
    <2> HIDE DEF new
    <2>3. proc' \in [Processes -> Row] /\ proc'[p] = new
          /\ \A q \in Processes \ {p} : proc'[q] = proc[q]
      BY <1>0, <2>1, <2>2
    <2>4. SansSettle
      BY <1>6, SameSans
    <2>5. served'[p] # None =>
              /\ proc'[p].task \in {"none", "endpoint"} /\ proc'[p].required \in Configs
              /\ Covers(sans', served'[p], proc'[p].required)
      BY <1>6, <2>1, <2>3
    <2>6. MovesOne(p)
      BY <1>0, <1>6, <2>1, <2>3, <2>4, <2>5, SameSans DEF MovesOne, Contents, TypeOK, Writing
    <2>7. Covered(p)
      BY <1>0, <1>6, <2>1, <2>3, <2>4, <2>5 DEF Covered, TypeOK, Writing
    <2>8. QED
      BY <2>6, <2>7, CoverStep
  <1>7. ASSUME NEW p \in Processes, LookMissing(p) PROVE CoverInv'
    BY <1>2, <1>7 DEF LookMissing, Resolving
  <1>8. ASSUME NEW p \in Processes, ReadKey(p) PROVE CoverInv'
    BY <1>2, <1>4, <1>8 DEF ReadKey, ReuseOrGenerate, Resolving
  <1>9. ASSUME NEW p \in Processes, OpenCert(p) \/ FillCert(p) \/ OpenKey(p) \/ FillKey(p)
        PROVE  CoverInv'
    <2>1. CASE OpenCert(p)
      <3>1. disturbed' \in BOOLEAN /\ proc[p].phase \in Writing
        BY <2>1 DEF OpenCert, Overlaps, Writing
      <3>2. QED
        BY <1>5, <2>1, <3>1 DEF OpenCert
    <2>2. CASE FillCert(p)
      BY <1>0, <1>5, <2>2 DEF FillCert, Writing, TypeOK
    <2>3. CASE OpenKey(p)
      BY <1>0, <1>5, <2>3 DEF OpenKey, Writing, TypeOK
    <2>4. CASE FillKey(p)
      BY <1>0, <1>5, <2>4 DEF FillKey, Writing, TypeOK
    <2>5. QED
      BY <1>9, <2>1, <2>2, <2>3, <2>4
  <1>10. ASSUME NEW p \in Processes, Serve(p) PROVE CoverInv'
    <2>1. /\ proc[p].required \in Configs /\ proc[p].required \in SUBSET Names
          /\ proc[p].cert \in Pairs /\ Covers(sans, proc[p].cert, proc[p].required)
      BY <1>0, <1>10 DEF Serve, NamesAreConfigured, Resolving, ResolvedCovers
    <2>2. /\ served' \in [Processes -> Pairs \union {None}] /\ served'[p] = proc[p].cert
          /\ \A q \in Processes \ {p} : served'[q] = served[q]
      BY <1>0, <1>10, <2>1 DEF Serve, TypeOK
    <2>3. /\ proc' = [proc EXCEPT ![p] = [Idle EXCEPT !.required = proc[p].required]]
          /\ UNCHANGED <<certFile, keyFile, sans, disturbed>>
      BY <1>10 DEF Serve
    <2>4. QED
      BY <1>0, <1>6, <2>1, <2>2, <2>3 DEF TypeOK
  <1>11. ASSUME NEW p \in Processes, BootAborts(p) PROVE CoverInv'
    <2>1. served[p] = None
      BY <1>0, <1>11 DEF BootAborts, TypeOK
    <2>2. proc' = [proc EXCEPT ![p] = [Idle EXCEPT !.required = {}]]
      BY <1>11 DEF BootAborts, Idle
    <2>3. /\ served' \in [Processes -> Pairs \union {None}] /\ served'[p] = None
          /\ \A q \in Processes \ {p} : served'[q] = served[q]
          /\ UNCHANGED <<certFile, keyFile, sans>> /\ disturbed' \in BOOLEAN
      BY <1>0, <1>11, <2>1 DEF BootAborts, TypeOK
    <2>4. {} \in SUBSET Names
      OBVIOUS
    <2>5. QED
      BY <1>6, <2>2, <2>3, <2>4
  <1>12. ASSUME NEW p \in Processes, Answer(p) PROVE CoverInv'
    <2> DEFINE required == IF served[p] = None THEN {} ELSE proc[p].required
    <2>1. required \in SUBSET Names
      BY <1>0
    <2>2. served[p] # None => required \in Configs /\ Covers(sans, served[p], required)
      BY <1>0 DEF NamesAreConfigured, ServersCover
    <2>3. /\ proc' = [proc EXCEPT ![p] = [Idle EXCEPT !.required = required]]
          /\ UNCHANGED <<certFile, keyFile, sans, served, disturbed>>
      BY <1>12 DEF Answer
    <2> HIDE DEF required
    <2>4. QED
      BY <1>0, <1>6, <2>1, <2>2, <2>3 DEF TypeOK
  <1>13. ASSUME NEW p \in Processes, Stop(p) PROVE CoverInv'
    <2>1. proc' = [proc EXCEPT ![p] = [Idle EXCEPT !.required = {}]]
      BY <1>13 DEF Stop, Idle
    <2>2. /\ served' \in [Processes -> Pairs \union {None}] /\ served'[p] = None
          /\ \A q \in Processes \ {p} : served'[q] = served[q]
          /\ disturbed' \in BOOLEAN
      BY <1>0, <1>13 DEF Stop, TypeOK
    <2>3. UNCHANGED <<certFile, keyFile, sans>> /\ {} \in SUBSET Names
      BY <1>13 DEF Stop
    <2>4. QED
      BY <1>6, <2>1, <2>2, <2>3
  <1>14. CASE Remove \/ UNCHANGED vars
    <2>1. /\ UNCHANGED <<sans, proc, served, disturbed>> /\ keyFile' \in Contents
          /\ certFile' \in Contents /\ certFile' \in {certFile, Missing}
      BY <1>0, <1>14 DEF Remove, vars, TypeOK, Contents
    <2>2. TypeOK' /\ NamesAreConfigured' /\ FileWasDrawn'
      BY <2>1, CertificateAssumption
         DEF CoverInv, TypeOK, NamesAreConfigured, Resolving, FileWasDrawn
    <2>3. WritersCover' /\ ResolvedCovers' /\ ServersCover'
      BY <1>0, <2>1 DEF WritersCover, ResolvedCovers, ServersCover
    <2>4. QED
      BY <2>2, <2>3 DEF CoverInv
  <1>15. QED
    BY <1>1, <1>3, <1>7, <1>8, <1>9, <1>10, <1>11, <1>12, <1>13, <1>14 DEF Next

(***************************************************************************)
(* A running server's certificate carries every name the server answers    *)
(* for, whatever files it found and whoever was writing them.              *)
(***************************************************************************)
THEOREM CertificateServesNames == Spec => []ServedCovers
  <1>1. CoverInv => ServedCovers
    BY DEF CoverInv, TypeOK, ServersCover, ServedCovers, Covers, Carried
  <1>2. QED
    BY <1>1, Init_CoverInv, Next_CoverInv, PTL DEF Spec

-----------------------------------------------------------------------------
Mid == Writing \ {"openCert"}

\* Every other process is where it has not touched the files.
OthersAway(p) == \A q \in Processes \ {p} : proc[q].phase \in {"idle", "look"}

\* How far each process is with the files, when nobody disturbs it.
AtFiles(p) ==
    /\ proc[p].phase \in Mid => OthersAway(p)
    /\ proc[p].phase = "fillCert" => certFile = Torn
    /\ proc[p].phase \in {"openKey", "fillKey"} => certFile = proc[p].cert
    /\ proc[p].phase = "readKey" => proc[p].cert = certFile /\ BothExist
    /\ proc[p].phase = "resolved" => proc[p].cert = proc[p].key
    /\ proc[p].phase = "openCert" /\ certFile \in Pairs =>
           keyFile = Missing \/ ~Covers(sans, certFile, proc[p].required)

NobodyMid == \A p \in Processes : proc[p].phase \notin Mid

IsPair == certFile = keyFile /\ certFile \in Pairs

Undisturbed ==
    /\ \A p \in Processes : AtFiles(p)
    /\ BothExist /\ NobodyMid => IsPair

PairInv == CoverInv /\ (~disturbed => Undisturbed)

\* Process p moves from its phase to phase; the others stay.
Turns(p, ph) ==
    /\ proc'[p].phase = ph
    /\ \A q \in Processes \ {p} : proc'[q] = proc[q]

LEMMA Init_PairInv == Init => PairInv
  <1> SUFFICES ASSUME Init PROVE Undisturbed
    BY Init_CoverInv DEF PairInv
  <1>1. certFile = Missing /\ \A p \in Processes : proc[p].phase = "idle"
    BY DEF Init, Idle
  <1>2. QED
    BY <1>1 DEF Undisturbed, AtFiles, BothExist, Mid, Writing

LEMMA Next_PairInv == PairInv /\ [Next]_vars => PairInv'
  <1> SUFFICES ASSUME PairInv, [Next]_vars, ~disturbed' PROVE Undisturbed'
    BY Next_CoverInv DEF PairInv
  <1>0. CoverInv /\ TypeOK /\ CoverInv'
    BY Next_CoverInv DEF PairInv, CoverInv
  <1>typ. proc \in [Processes -> Row] /\ proc' \in [Processes -> Row]
    BY <1>0 DEF CoverInv, TypeOK, Row
  \* A process that comes or goes without writing.
  <1>1. ASSUME NEW p \in Processes, NEW ph \in {"idle", "look"}, Turns(p, ph),
               proc[p].phase \notin Mid, ~disturbed, UNCHANGED <<certFile, keyFile, sans>>
        PROVE  Undisturbed'
    <2>1. Undisturbed
      BY <1>1 DEF PairInv
    <2>2. \A q \in Processes : AtFiles(q)'
      BY <1>1, <2>1 DEF Undisturbed, AtFiles, Turns, OthersAway, Mid, Writing, BothExist
    <2>3. BothExist' /\ NobodyMid' => BothExist /\ NobodyMid
      BY <1>1 DEF BothExist, NobodyMid, Turns
    <2>4. QED
      BY <1>1, <2>1, <2>2, <2>3 DEF Undisturbed, IsPair
  <1>2. ASSUME NEW p \in Processes, Resolving(p), Generate(p), UNCHANGED <<certFile, keyFile>>,
               proc[p].phase \notin Mid,
               \/ ~BothExist
               \/ ~disturbed => ~Covers(sans, certFile, proc[p].required)
        PROVE  Undisturbed'
    <2>1. /\ Turns(p, "openCert") /\ proc'[p].required = proc[p].required /\ SansSettle
          /\ ~disturbed /\ OthersAway(p)
      BY <1>0, <1>2, GenerateStep DEF Turns, Overlaps, OthersAway
    <2>2. Undisturbed
      BY <2>1 DEF PairInv
    <2>3. certFile \in Pairs => sans'[certFile] = sans[certFile]
      BY <1>0, <2>1 DEF CoverInv, FileWasDrawn, SansSettle
    <2>4. AtFiles(p)'
      BY <1>2, <2>1, <2>3, CertificateAssumption
         DEF AtFiles, Turns, Mid, Writing, BothExist, Covers
    <2>5. ASSUME NEW q \in Processes \ {p} PROVE AtFiles(q)'
      BY <2>1, <2>5 DEF AtFiles, Turns, OthersAway, Mid, Writing
    <2>6. BothExist' /\ NobodyMid' => BothExist /\ NobodyMid
      BY <1>2, <2>1 DEF BothExist, NobodyMid, Turns
    <2>7. QED
      BY <1>2, <2>2, <2>4, <2>5, <2>6 DEF Undisturbed, IsPair
  <1>3. ASSUME NEW p \in Processes, ReadCert(p) PROVE Undisturbed'
    <2>1. /\ Turns(p, "readKey") /\ proc'[p].cert = certFile /\ BothExist
          /\ UNCHANGED <<certFile, keyFile, sans>> /\ proc[p].phase = "look"
          /\ ~disturbed /\ \A q \in Processes : proc[q].phase \notin Writing
      BY <1>typ, <1>3 DEF ReadCert, Turns, Row
    <2>2. Undisturbed
      BY <2>1 DEF PairInv
    <2>3. \A q \in Processes : AtFiles(q)'
      BY <2>1, <2>2 DEF Undisturbed, AtFiles, Turns, Mid, Writing, BothExist
    <2>4. NobodyMid
      BY <2>1 DEF NobodyMid, Mid
    <2>5. QED
      BY <2>1, <2>2, <2>3, <2>4 DEF Undisturbed, IsPair, BothExist
  <1>4. ASSUME NEW p \in Processes, ReadKey(p) PROVE Undisturbed'
    <2>1. proc[p].phase = "readKey" /\ UNCHANGED <<certFile, keyFile, served>>
          /\ proc[p].required \in SUBSET Names
      BY <1>typ, <1>4 DEF ReadKey, Row
    <2>2. ~disturbed => Undisturbed /\ proc[p].cert = certFile /\ BothExist
      BY <2>1 DEF PairInv, Undisturbed, AtFiles
    <2>3. ~disturbed => NobodyMid
      BY <2>1, <2>2 DEF Undisturbed, AtFiles, NobodyMid, OthersAway, Mid, Writing
    <2>4. CASE certCoversDomains(proc[p].cert, proc[p].required)
      <3>1. /\ Turns(p, "resolved") /\ proc'[p].cert = proc[p].cert /\ proc'[p].key = keyFile
            /\ UNCHANGED <<sans, disturbed>>
        <4>1. /\ proc' = [proc EXCEPT ![p] = [@ EXCEPT !.phase = "resolved", !.key = keyFile]]
              /\ UNCHANGED <<sans, disturbed>>
          BY <1>4, <2>4 DEF ReadKey, ReuseOrGenerate
        <4>2. QED
          BY <1>typ, <4>1 DEF Turns, Row
      <3>2. Undisturbed /\ NobodyMid /\ IsPair /\ proc[p].cert = certFile
        BY <2>2, <2>3, <3>1 DEF Undisturbed
      <3>3. \A q \in Processes : AtFiles(q)'
        BY <2>1, <3>1, <3>2 DEF Undisturbed, AtFiles, Turns, NobodyMid, Mid, Writing, IsPair,
                                BothExist
      <3>4. QED
        BY <2>1, <3>2, <3>3 DEF Undisturbed, IsPair
    <2>5. CASE ~certCoversDomains(proc[p].cert, proc[p].required)
      <3>1. Generate(p)
        BY <1>4, <2>5 DEF ReadKey, ReuseOrGenerate
      <3>2. ~disturbed => ~Covers(sans, certFile, proc[p].required)
        <4>1. ~disturbed => certFile \in Pairs
          BY <2>2, <2>3 DEF Undisturbed, IsPair
        <4>2. QED
          BY <2>1, <2>2, <2>5, <4>1, CoversIsCarried
      <3>3. QED
        BY <1>2, <2>1, <3>1, <3>2 DEF Mid, Writing, Resolving
    <2>6. QED
      BY <2>4, <2>5
  <1>5. ASSUME NEW p \in Processes, OpenCert(p) PROVE Undisturbed'
    <2>1. /\ Turns(p, "fillCert") /\ certFile' = Torn /\ UNCHANGED <<keyFile, sans>>
          /\ OthersAway(p)
      BY <1>typ, <1>5 DEF OpenCert, Proceed, Turns, Overlaps, OthersAway, Row
    <2>2. AtFiles(p)' /\ ~NobodyMid'
      BY <2>1 DEF AtFiles, Turns, OthersAway, NobodyMid, Mid, Writing
    <2>3. ASSUME NEW q \in Processes \ {p} PROVE AtFiles(q)'
      BY <2>1, <2>3 DEF AtFiles, Turns, OthersAway, Mid, Writing
    <2>4. QED
      BY <2>2, <2>3 DEF Undisturbed
  <1>6. ASSUME NEW p \in Processes, NEW ph \in {"openKey", "fillKey", "resolved"},
               proc[p].phase \in Mid, Turns(p, ph), ~disturbed, UNCHANGED sans,
               proc'[p].cert = proc[p].cert, proc'[p].key = proc[p].key,
               certFile' = proc[p].cert,
               ph = "resolved" => keyFile' = proc[p].key
        PROVE  Undisturbed'
    <2>1. Undisturbed /\ OthersAway(p) /\ proc[p].cert \in Pairs /\ proc[p].key = proc[p].cert
      BY <1>0, <1>6 DEF PairInv, Undisturbed, AtFiles, CoverInv, WritersCover, Mid
    <2>2. AtFiles(p)'
      BY <1>6, <2>1 DEF AtFiles, Turns, OthersAway, Mid, Writing
    <2>3. ASSUME NEW q \in Processes \ {p} PROVE AtFiles(q)'
      BY <1>6, <2>1, <2>3 DEF AtFiles, Turns, OthersAway, Mid, Writing
    <2>4. NobodyMid' => IsPair'
      BY <1>6, <2>1 DEF NobodyMid, IsPair, Turns, Mid, Writing
    <2>5. QED
      BY <2>2, <2>3, <2>4 DEF Undisturbed
  <1>7. ASSUME NEW p \in Processes, FillCert(p) \/ OpenKey(p) \/ FillKey(p) PROVE Undisturbed'
    <2>1. PICK ph \in {"openKey", "fillKey", "resolved"} :
              /\ Proceed(p, ph) /\ proc[p].phase \in Mid /\ UNCHANGED <<sans, disturbed>>
              /\ ph = "resolved" => keyFile' = proc[p].key
              /\ \/ proc[p].phase = "fillCert" /\ certFile' = proc[p].cert
                 \/ proc[p].phase \in {"openKey", "fillKey"} /\ certFile' = certFile
      BY <1>7 DEF FillCert, OpenKey, FillKey, Mid, Writing
    <2>2. /\ Turns(p, ph)
          /\ proc'[p].cert = proc[p].cert /\ proc'[p].key = proc[p].key
      BY <1>typ, <2>1 DEF Proceed, Turns, Row
    <2>3. certFile' = proc[p].cert
      BY <2>1 DEF PairInv, Undisturbed, AtFiles
    <2>4. QED
      BY <1>6, <2>1, <2>2, <2>3
  <1>8. ASSUME NEW p \in Processes, Serve(p) \/ BootAborts(p) \/ Answer(p) \/ Stop(p)
        PROVE  Undisturbed'
    <2>1. Turns(p, "idle")
      BY <1>typ, <1>8 DEF Serve, BootAborts, Answer, Stop, Turns, Idle
    <2>2. proc[p].phase \notin Mid /\ ~disturbed /\ UNCHANGED <<certFile, keyFile, sans>>
      <3>1. CASE Stop(p)
        BY <3>1 DEF Stop, Mid
      <3>2. CASE Serve(p) \/ BootAborts(p) \/ Answer(p)
        BY <3>2 DEF Serve, BootAborts, Answer, Mid, Writing
      <3>3. QED
        BY <1>8, <3>1, <3>2
    <2>3. QED
      BY <1>1, <2>1, <2>2
  <1>9. ASSUME NEW p \in Processes, Start(p) \/ AskEndpoint(p) PROVE Undisturbed'
    <2>1. Turns(p, "look")
      BY <1>typ, <1>9 DEF Start, AskEndpoint, StartTask, Turns, Idle
    <2>2. proc[p].phase \notin Mid /\ ~disturbed /\ UNCHANGED <<certFile, keyFile, sans>>
      BY <1>9 DEF Start, AskEndpoint, Resolving, Mid, Writing
    <2>3. QED
      BY <1>1, <2>1, <2>2
  <1>10. ASSUME NEW p \in Processes, LookMissing(p) PROVE Undisturbed'
    BY <1>2, <1>10 DEF LookMissing, Resolving, Mid, Writing
  <1>11. CASE Remove
    <2>1. /\ \A p \in Processes : proc[p].phase = "idle" /\ proc'[p].phase = "idle"
          /\ ~BothExist'
      BY <1>11 DEF Remove, Resolving, BothExist
    <2>2. QED
      BY <2>1 DEF Undisturbed, AtFiles, Mid, Writing
  <1>12. CASE UNCHANGED vars
    BY <1>12 DEF vars, PairInv, Undisturbed, AtFiles, OthersAway, NobodyMid, IsPair, BothExist
  <1>13. QED
    BY <1>3, <1>4, <1>5, <1>7, <1>8, <1>9, <1>10, <1>11, <1>12 DEF Next

(***************************************************************************)
(* The two files are one pair, but for a killed writer or a second one.    *)
(***************************************************************************)
THEOREM SoundPair == Spec => []PairSound
  <1>1. PairInv => PairSound
    BY DEF PairInv, CoverInv, Undisturbed, PairSound, UndisturbedPair, BothExist, NobodyMid, IsPair,
           Mid
  <1>2. QED
    BY <1>1, Init_PairInv, Next_PairInv, PTL DEF Spec

(***************************************************************************)
(* What clients trust is replaced only for a name it lacks or a lost key.  *)
(***************************************************************************)
THEOREM KeepsCertificate == Spec => CertificateKept
  <1>1. PairInv /\ [Next]_vars => [ReplacedForCause]_vars
    <2> SUFFICES ASSUME PairInv, Next, certFile \in Pairs, certFile' # certFile, ~disturbed
                 PROVE  \/ certFile' = Missing
                        \/ keyFile = Missing
                        \/ \E p \in Processes :
                              /\ proc[p].phase = "openCert"
                              /\ ~(proc[p].required \subseteq Carried(certFile))
      BY DEF ReplacedForCause
    <2>1. CASE \E p \in Processes : OpenCert(p)
      <3>1. PICK p \in Processes : proc[p].phase = "openCert"
        BY <2>1 DEF OpenCert
      <3>2. keyFile = Missing \/ ~Covers(sans, certFile, proc[p].required)
        BY <3>1 DEF PairInv, Undisturbed, AtFiles
      <3>3. Covers(sans, certFile, proc[p].required)
                <=> \A name \in proc[p].required :
                        name \in sans[certFile] \/ WildcardOf[name] \in sans[certFile]
        BY DEF Covers
      <3>4. QED
        BY <3>1, <3>2, <3>3 DEF Carried
    <2>2. CASE \E p \in Processes : FillCert(p)
      BY <2>2, CertificateAssumption DEF FillCert, PairInv, Undisturbed, AtFiles
    <2>3. CASE Remove
      BY <2>3 DEF Remove
    <2>4. QED
      BY <2>1, <2>2, <2>3
         DEF Next, Start, AskEndpoint, LookMissing, ReadCert, ReadKey, OpenKey, FillKey, Serve,
             BootAborts, Answer, Stop
  <1>2. QED
    BY <1>1, Init_PairInv, Next_PairInv, PTL DEF Spec, CertificateKept

(***************************************************************************)
(* Only a disturbed write keeps a server from starting.                    *)
(***************************************************************************)
THEOREM StartsUndisturbed == Spec => BootAbortsForCause
  <1>1. PairInv /\ [Next]_vars => [AbortsForCause]_vars
    BY DEF AbortsForCause, BootAborts, PairInv, Undisturbed, AtFiles
  <1>2. QED
    BY <1>1, Init_PairInv, Next_PairInv, PTL DEF Spec, BootAbortsForCause

-----------------------------------------------------------------------------
(* The signing keys. *)

\* A key a response was or is being signed with has not left the table but by a reset.
SignedWithRows ==
    /\ delivered \subseteq Rows \cup wiped
    /\ \A m \in Slots : minting[m] # NotMinting =>
          minting[m].kid \in Rows \cup wiped /\ minting[m].signed \subseteq Rows \cup wiped

AtMostOneActive == \A j, k \in Active : j = k

\* KeysTypeOK /\ SignedWithRows is inductive: TokensVerify says nothing of the keys of responses
\* that are not delivered yet, and so is not inductive by itself.
KeysInv == KeysTypeOK /\ SignedWithRows

-----------------------------------------------------------------------------
\* Inserting a key adds a row and makes it the only active one.
LEMMA InsertKeepsRows ==
    ASSUME KeysTypeOK, NEW k \in Kids, Insert(k)
    PROVE  Rows' = Rows \cup {k} /\ Active' = {k}
  BY DEF KeysTypeOK, Insert, Rows, Active

\* A reset removes rows only into wiped, and then all of them; otherwise it leaves them alone.
LEMMA ResetWipesRows ==
    ASSUME KeysTypeOK, NEW p \in Servers, NEW reseed \in BOOLEAN, NEW resetKeys \in BOOLEAN,
           Reset(p, reseed, resetKeys)
    PROVE  /\ Rows \cup wiped \subseteq Rows' \cup wiped'
           /\ \/ Active' = {} /\ ~bootstrapped' /\ Rows \subseteq wiped'
              \/ signing_keys' = signing_keys
  BY DEF KeysTypeOK, Reset, Rows, Active

\* The inductive invariant holds of a new database and servers that are down.
LEMMA Init_KeysInv == KeysInit => KeysInv
  BY KeysAssumption DEF KeysInit, KeysInv, KeysTypeOK, SignedWithRows, Rows, Response

\* Every step of a process, of a response under way and of the admin API keeps it.
LEMMA Next_KeysInv == KeysInv /\ [KeysNext]_keysVars => KeysInv'
  <1> SUFFICES ASSUME KeysInv, [KeysNext]_keysVars
               PROVE  KeysInv'
    OBVIOUS
  <1> USE KeysAssumption
  <1>1. ASSUME NEW p \in Servers, NEW s \in SeedOnStart, Boot(p, s)
        PROVE  KeysInv'
    BY <1>1 DEF KeysInv, KeysTypeOK, SignedWithRows, Rows, Active, Boot
  <1>2. ASSUME NEW p \in Servers, NEW k \in Kids, Generated(p, k)
        PROVE  KeysInv'
    <2>1. Rows' = Rows \cup {k}
      BY <1>2, InsertKeepsRows DEF KeysInv, Generated
    <2>2. KeysTypeOK'
      BY <1>2 DEF KeysInv, KeysTypeOK, Generated, Insert
    <2>3. QED
      BY <1>2, <2>1, <2>2 DEF KeysInv, SignedWithRows, Generated
  <1>3. ASSUME NEW p \in Servers, StopServer(p)
        PROVE  KeysInv'
    BY <1>3 DEF KeysInv, KeysTypeOK, SignedWithRows, Rows, StopServer
  <1>4. ASSUME NEW m \in Slots, NEW p \in Servers, NEW k \in Kids, MintAccess(m, p, k)
        PROVE  KeysInv'
    <2>1. minting' \in [Slots -> Response \cup {NotMinting}]
      BY <1>4 DEF KeysInv, KeysTypeOK, MintAccess, Response
    <2>2. QED
      BY <1>4, <2>1 DEF KeysInv, KeysTypeOK, SignedWithRows, Rows, Active, MintAccess
  <1>5. ASSUME NEW m \in Slots, NEW k \in Kids, MintId(m, k)
        PROVE  KeysInv'
    <2>1. minting[m] \in Response
      BY <1>5 DEF KeysInv, KeysTypeOK, MintId
    <2>2. minting' = [minting EXCEPT ![m] = [process |-> minting[m].process, kid |-> k,
                                             signed |-> {minting[m].kid}]]
      BY <1>5 DEF MintId
    <2>3. minting' \in [Slots -> Response \cup {NotMinting}]
      BY <2>1, <2>2 DEF KeysInv, KeysTypeOK, Response
    <2>4. Rows' = Rows /\ k \in Rows
      BY <1>5 DEF MintId, Rows, Active
    <2>5. minting[m].kid \in Rows \cup wiped
      BY <1>5 DEF KeysInv, SignedWithRows, MintId
    <2>6. SignedWithRows'
      <3>1. ASSUME NEW n \in Slots, minting'[n] # NotMinting
            PROVE  minting'[n].kid \in Rows \cup wiped /\ minting'[n].signed \subseteq Rows \cup wiped
        <4>1. CASE n = m
          BY <4>1, <2>2, <2>4, <2>5 DEF KeysInv, KeysTypeOK
        <4>2. CASE n # m
          BY <3>1, <4>2, <2>2 DEF KeysInv, KeysTypeOK, SignedWithRows
        <4>3. QED
          BY <4>1, <4>2
      <3>2. QED
        BY <1>5, <2>4, <3>1 DEF KeysInv, SignedWithRows, MintId
    <2>7. QED
      BY <1>5, <2>3, <2>6 DEF KeysInv, KeysTypeOK, MintId
  <1>6. ASSUME NEW m \in Slots, MintIdFails(m)
        PROVE  KeysInv'
    BY <1>6 DEF KeysInv, KeysTypeOK, SignedWithRows, Rows, MintIdFails
  <1>7. ASSUME NEW m \in Slots, Respond(m)
        PROVE  KeysInv'
    <2>1. minting[m] \in Response
      BY <1>7 DEF KeysInv, KeysTypeOK, Respond
    <2>2. QED
      BY <1>7, <2>1 DEF KeysInv, KeysTypeOK, SignedWithRows, Rows, Respond, Response
  <1>8. ASSUME NEW p \in Servers, NEW k \in Kids, FindVerificationKey(p, k)
        PROVE  KeysInv'
    BY <1>8 DEF KeysInv, KeysTypeOK, SignedWithRows, Rows, FindVerificationKey
  <1>9. ASSUME NEW p \in Servers, NEW k \in Kids, CacheVerificationKey(p, k)
        PROVE  KeysInv'
    BY <1>9 DEF KeysInv, KeysTypeOK, SignedWithRows, Rows, CacheVerificationKey
  <1>10. ASSUME NEW p \in Servers, NEW reseed \in BOOLEAN, NEW resetKeys \in BOOLEAN,
                Reset(p, reseed, resetKeys)
         PROVE  KeysInv'
    <2>1. Rows \cup wiped \subseteq Rows' \cup wiped'
      BY <1>10, ResetWipesRows DEF KeysInv
    <2>2. KeysTypeOK'
      BY <1>10 DEF KeysInv, KeysTypeOK, Reset, Rows
    <2>3. QED
      BY <1>10, <2>1, <2>2 DEF KeysInv, SignedWithRows, Reset
  <1>11. ASSUME NEW p \in Servers, Seed(p)
         PROVE  KeysInv'
    BY <1>11 DEF KeysInv, KeysTypeOK, SignedWithRows, Rows, Seed
  <1>12. CASE UNCHANGED keysVars
    BY <1>12 DEF KeysInv, KeysTypeOK, SignedWithRows, Rows, keysVars
  <1>13. QED
    BY <1>1, <1>2, <1>3, <1>4, <1>5, <1>6, <1>7, <1>8, <1>9, <1>10, <1>11, <1>12 DEF KeysNext

\* The table, the caches and the responses under way keep their shape, whichever process
\* does what.
THEOREM KeysTypeCorrect == KeysSpec => []KeysTypeOK
  BY Init_KeysInv, Next_KeysInv, PTL DEF KeysSpec, KeysInv

\* A token handed to a client is listed in the JWK set and accepted by every process that
\* is up, unless its key was deleted by a reset with resetKeys.
THEOREM DeliveredTokensVerify == KeysSpec => []TokensVerify
  <1>1. KeysInv => TokensVerify
    BY DEF KeysInv, SignedWithRows, TokensVerify, Jwks, Accepts
  <1>2. QED
    BY <1>1, Init_KeysInv, Next_KeysInv, PTL DEF KeysSpec

-----------------------------------------------------------------------------
\* Only the end of a bootstrap and a reset of the keys touch the active key.
LEMMA ActiveChanges ==
    ASSUME KeysInv, [KeysNext]_keysVars
    PROVE  \/ signing_keys' = signing_keys /\ (bootstrapped' => bootstrapped \/ Active # {})
           \/ \E p \in Servers, k \in Kids : Generated(p, k)
           \/ Active' = {} /\ ~bootstrapped' /\ Rows \subseteq wiped'
  <1>1. ASSUME NEW p \in Servers, NEW reseed \in BOOLEAN, NEW resetKeys \in BOOLEAN,
               Reset(p, reseed, resetKeys)
        PROVE  \/ signing_keys' = signing_keys /\ (bootstrapped' => bootstrapped)
               \/ Active' = {} /\ ~bootstrapped' /\ Rows \subseteq wiped'
    BY <1>1, ResetWipesRows DEF KeysInv, Reset
  <1>2. ASSUME NEW p \in Servers, NEW s \in SeedOnStart, Boot(p, s)
        PROVE  signing_keys' = signing_keys /\ (bootstrapped' => bootstrapped \/ Active # {})
    BY <1>2 DEF Boot
  <1>3. QED
    BY <1>1, <1>2 DEF KeysNext, keysVars, StopServer, MintAccess, MintId, MintIdFails, Respond,
       FindVerificationKey, CacheVerificationKey, Seed

\* Two bootstraps that both found no active key leave one between them.
THEOREM SingleActiveKey == KeysSpec => []OneActiveKey
  <1>1. KeysInit => AtMostOneActive
    BY DEF KeysInit, AtMostOneActive, Active
  <1>2. KeysInv /\ AtMostOneActive /\ [KeysNext]_keysVars => AtMostOneActive'
    <2> SUFFICES ASSUME KeysInv, AtMostOneActive, [KeysNext]_keysVars
                 PROVE  AtMostOneActive'
      OBVIOUS
    <2>1. ASSUME NEW p \in Servers, NEW k \in Kids, Generated(p, k)
          PROVE  AtMostOneActive'
      <3>1. Active' = {k}
        BY <2>1, InsertKeepsRows DEF KeysInv, Generated
      <3>2. QED
        BY <3>1 DEF AtMostOneActive
    <2>2. CASE signing_keys' = signing_keys
      BY <2>2 DEF AtMostOneActive, Active
    <2>3. CASE Active' = {}
      BY <2>3 DEF AtMostOneActive
    <2>4. QED
      BY <2>1, <2>2, <2>3, ActiveChanges
  <1>3. AtMostOneActive => OneActiveKey
    <2> SUFFICES ASSUME AtMostOneActive
                 PROVE  Cardinality(Active) <= 1
      BY DEF OneActiveKey
    <2>1. CASE Active = {}
      BY <2>1, FS_EmptySet
    <2>2. CASE Active # {}
      <3>1. PICK k \in Active : TRUE
        BY <2>2
      <3>2. Active = {k}
        BY <3>1 DEF AtMostOneActive
      <3>3. QED
        BY <3>2, FS_Singleton
    <2>3. QED
      BY <2>1, <2>2
  <1>4. QED
    BY <1>1, <1>2, <1>3, Init_KeysInv, Next_KeysInv, PTL DEF KeysSpec

\* Once a bootstrap has ended there is a key to sign with, until a reset with resetKeys.
THEOREM KeyStays == KeysSpec => []KeyUntilWiped
  <1>1. KeysInit => KeyUntilWiped
    BY DEF KeysInit, KeyUntilWiped
  <1>2. KeysInv /\ KeyUntilWiped /\ [KeysNext]_keysVars => KeyUntilWiped'
    <2> SUFFICES ASSUME KeysInv, KeyUntilWiped, [KeysNext]_keysVars
                 PROVE  KeyUntilWiped'
      OBVIOUS
    <2>1. ASSUME NEW p \in Servers, NEW k \in Kids, Generated(p, k)
          PROVE  KeyUntilWiped'
      <3>1. Active' = {k}
        BY <2>1, InsertKeepsRows DEF KeysInv, Generated
      <3>2. QED
        BY <3>1 DEF KeyUntilWiped
    <2>2. CASE signing_keys' = signing_keys /\ (bootstrapped' => bootstrapped \/ Active # {})
      BY <2>2 DEF KeyUntilWiped, Active
    <2>3. CASE ~bootstrapped'
      BY <2>3 DEF KeyUntilWiped
    <2>4. QED
      BY <2>1, <2>2, <2>3, ActiveChanges
  <1>3. QED
    BY <1>1, <1>2, Init_KeysInv, Next_KeysInv, PTL DEF KeysSpec

\* The key table keeps its shape, with one active key at most, however many bootstraps race.
THEOREM SoundKeys == KeysSpec => []KeysSound
  <1>1. KeysTypeOK /\ OneActiveKey => KeysSound
    BY DEF KeysSound
  <1>2. QED
    BY <1>1, KeysTypeCorrect, SingleActiveKey, PTL

\* The life of a key: a bootstrap leaves one to sign with, and only a reset of the keys or
\* a bootstrap that raced takes it out of use.
THEOREM LifeOfKeys == KeysSpec => KeyLifecycle
  <1>1. ASSUME KeysInv, [KeysNext]_keysVars, NEW k \in Active, k \notin Active'
        PROVE  \/ k \in wiped'
               \/ \E p \in Servers : phase[p] = "generating" /\ phase'[p] = "up"
    <2>1. ASSUME NEW p \in Servers, NEW j \in Kids, Generated(p, j)
          PROVE  \E q \in Servers : phase[q] = "generating" /\ phase'[q] = "up"
      BY <1>1, <2>1 DEF KeysInv, KeysTypeOK, Generated
    <2>2. k \in Rows
      BY <1>1 DEF Active, Rows
    <2>3. signing_keys' # signing_keys
      BY <1>1 DEF Active
    <2>4. QED
      BY <1>1, <2>1, <2>2, <2>3, ActiveChanges
  <1>2. KeysInv /\ KeyUntilWiped' /\ [KeysNext]_keysVars =>
            [/\ KeyUntilWiped'
             /\ \A k \in Active : k \notin Active' =>
                    \/ k \in wiped'
                    \/ \E p \in Servers : phase[p] = "generating" /\ phase'[p] = "up"]_keysVars
    BY <1>1
  <1>3. QED
    BY <1>2, KeyStays, Init_KeysInv, Next_KeysInv, PTL DEF KeysSpec, KeyLifecycle

-----------------------------------------------------------------------------
(* Which handler answers. *)

\* The endpoints, segment by segment.
LEMMA Endpoints ==
    /\ TenantHandlers = {"discovery", "jwks", "authorize", "token", "logout", "devicecode", "verify"}
    /\ Endpoint["discovery"] = <<"v2.0", ".well-known", "openid-configuration">>
    /\ Endpoint["jwks"] = <<"discovery", "v2.0", "keys">>
    /\ Endpoint["authorize"] = <<"oauth2", "v2.0", "authorize">>
    /\ Endpoint["token"] = <<"oauth2", "v2.0", "token">>
    /\ Endpoint["logout"] = <<"oauth2", "v2.0", "logout">>
    /\ Endpoint["devicecode"] = <<"oauth2", "v2.0", "devicecode">>
    /\ Endpoint["verify"] = <<"oauth2", "v2.0", "devicecode", "verify">>
  BY DEF TenantHandlers, Endpoint

\* What a request's path and a route's pattern are made of.
Parts == Segments \cup PathSegments \cup {TenantId, AnySegment}

\* Endpoints, paths and the spelled segments are sequences of parts, and parts.
LEMMA PartsOfRoutes ==
    /\ \A h \in TenantHandlers : Endpoint[h] \in Seq(Segments) /\ Endpoint[h] \in Seq(Parts)
    /\ TenantId \in Parts /\ AnySegment \in Parts /\ "graph" \in Parts
    /\ \A path \in Paths : path \in Seq(Parts)
  <1>1. \A h \in TenantHandlers : Endpoint[h] \in Seq(Segments)
    <2>1. Endpoint["discovery"] \in Seq(Segments)
      BY Endpoints DEF Segments
    <2>2. Endpoint["jwks"] \in Seq(Segments)
      BY Endpoints DEF Segments
    <2>3. Endpoint["authorize"] \in Seq(Segments)
      BY Endpoints DEF Segments
    <2>4. Endpoint["token"] \in Seq(Segments)
      BY Endpoints DEF Segments
    <2>5. Endpoint["logout"] \in Seq(Segments)
      BY Endpoints DEF Segments
    <2>6. Endpoint["devicecode"] \in Seq(Segments)
      BY Endpoints DEF Segments
    <2>7. Endpoint["verify"] \in Seq(Segments)
      BY Endpoints DEF Segments
    <2>8. QED
      BY <2>1, <2>2, <2>3, <2>4, <2>5, <2>6, <2>7, Endpoints
  <1>2. Segments \subseteq Parts /\ PathSegments \subseteq Parts
    BY DEF Parts
  <1>3. \A h \in TenantHandlers : Endpoint[h] \in Seq(Parts)
    BY <1>1, <1>2, SeqMonotonic
  <1>4. TenantId \in Parts /\ AnySegment \in Parts /\ "graph" \in Parts
    BY DEF Parts, Segments
  <1>5. \A path \in Paths : path \in Seq(Parts)
    BY <1>2, DomainsAssumption, SeqMonotonic
  <1>6. QED
    BY <1>1, <1>3, <1>4, <1>5

\* A sequence with an element before it, by position.
LEMMA Behind ==
    ASSUME NEW S, NEW x \in S, NEW s \in Seq(S)
    PROVE  /\ <<x>> \o s \in Seq(S)
           /\ Len(<<x>> \o s) = Len(s) + 1
           /\ (<<x>> \o s)[1] = x
           /\ \A i \in 1..Len(s) : (<<x>> \o s)[i + 1] = s[i]
           /\ Tail(<<x>> \o s) = s
           /\ <<x>> \o s # <<>>
  OBVIOUS

\* A path that fits the route of an endpoint is a segment and the endpoint.
LEMMA FitsEndpoint ==
    ASSUME NEW h \in TenantHandlers, NEW path \in Seq(Parts), Fits(<<AnySegment>> \o Endpoint[h], path)
    PROVE  path # <<>> /\ Tail(path) = Endpoint[h]
  <1> DEFINE pattern == <<AnySegment>> \o Endpoint[h]
  <1>1. Endpoint[h] \in Seq(Parts) /\ Endpoint[h] \in Seq(Segments) /\ AnySegment \in Parts
    BY PartsOfRoutes
  <1>2. /\ pattern \in Seq(Parts) /\ Len(pattern) = Len(Endpoint[h]) + 1
        /\ \A i \in 1..Len(Endpoint[h]) : pattern[i + 1] = Endpoint[h][i]
    BY <1>1, Behind
  <1>3. /\ Len(path) = Len(Endpoint[h]) + 1
        /\ \A i \in 1..Len(Endpoint[h]) : path[i + 1] = Endpoint[h][i]
    <2>0. Len(path) = Len(pattern) /\ \A i \in DOMAIN pattern : pattern[i] \in {AnySegment, path[i]}
      BY DEF Fits
    <2> HIDE DEF pattern
    <2>1. Len(path) = Len(pattern) /\ \A i \in 1..Len(pattern) : pattern[i] \in {AnySegment, path[i]}
      BY <1>2, <2>0
    <2>2. ASSUME NEW i \in 1..Len(Endpoint[h])
          PROVE  path[i + 1] = Endpoint[h][i]
      <3>1. Endpoint[h][i] \in Segments /\ i + 1 \in 1..Len(pattern)
        BY <1>1, <1>2
      <3>2. pattern[i + 1] = path[i + 1]
        BY <1>2, <2>1, <3>1, RoutingAssumption
      <3>3. QED
        BY <1>2, <3>2
    <2>3. QED
      BY <1>2, <2>1, <2>2
  <1>4. /\ Tail(path) \in Seq(Parts) /\ Len(Tail(path)) = Len(Endpoint[h])
        /\ \A i \in 1..Len(Endpoint[h]) : Tail(path)[i] = path[i + 1]
    BY <1>1, <1>3
  <1>5. QED
    BY <1>1, <1>3, <1>4, SeqEqual
\* What a route is.
LEMMA RouteShapes ==
    ASSUME NEW r \in Routes
    PROVE  \/ r.handler = "userinfo" /\ r.pattern = <<"graph", "oidc", "userinfo">>
           \/ r.handler = "users" /\ r.pattern = <<"graph", "v1.0", "users">>
           \/ r.handler = "members"
              /\ r.pattern = <<"graph", "v1.0", "groups", AnySegment, "members">>
           \/ r.handler = "memberOf" /\ r.pattern = <<"graph", "v1.0", "me", "memberOf">>
           \/ r.handler = "health" /\ r.pattern = <<"health">>
           \/ r.handler = "admin" /\ r.pattern = <<"admin", "api", "users">>
           \/ r.handler \in TenantHandlers /\ r.pattern = <<AnySegment>> \o Endpoint[r.handler]
  <1>1. CASE r \in GraphRoutes
    BY <1>1 DEF GraphRoutes
  <1>2. CASE r \in OwnRoutes
    BY <1>2 DEF OwnRoutes
  <1>3. CASE r \in UNION {TenantRoutes(h) : h \in TenantHandlers}
    <2>1. PICK h \in TenantHandlers : r \in TenantRoutes(h)
      BY <1>3
    <2>2. QED
      BY <2>1 DEF TenantRoutes
  <1>4. QED
    BY <1>1, <1>2, <1>3 DEF Routes

\* What stands for any segment is none that a route spells out.
LEMMA Spelled ==
    AnySegment \notin {"graph", "oidc", "userinfo", "v1.0", "users", "groups", "members", "me",
                       "memberOf", "health", "admin", "api"}
  BY RoutingAssumption DEF Segments

\* Fits, for sequences.
LEMMA FitsMeans ==
    ASSUME NEW S, NEW pattern \in Seq(S), NEW path \in Seq(S), Fits(pattern, path)
    PROVE  /\ Len(pattern) = Len(path)
           /\ \A i \in 1..Len(pattern) : pattern[i] = AnySegment \/ pattern[i] = path[i]
  BY DEF Fits

\* Which paths the route of a handler fits.
Goes(handler, path) ==
    \/ handler = "userinfo" /\ path = <<"graph", "oidc", "userinfo">>
    \/ handler = "users" /\ path = <<"graph", "v1.0", "users">>
    \/ /\ handler = "members" /\ Len(path) = 5
       /\ path[1] = "graph" /\ path[2] = "v1.0" /\ path[3] = "groups"
    \/ handler = "memberOf" /\ path = <<"graph", "v1.0", "me", "memberOf">>
    \/ handler = "health" /\ path = <<"health">>
    \/ handler = "admin" /\ path = <<"admin", "api", "users">>
    \/ handler \in TenantHandlers /\ path # <<>> /\ Tail(path) = Endpoint[handler]

\* A route only fits the paths its handler goes by.
LEMMA FittingGoes ==
    ASSUME NEW r \in Routes, NEW path \in Seq(Parts), Fits(r.pattern, path)
    PROVE  Goes(r.handler, path)
  <1>1. CASE r.handler = "userinfo" /\ r.pattern = <<"graph", "oidc", "userinfo">>
    <2> DEFINE p == <<"graph", "oidc", "userinfo">>
    <2>1. /\ p \in Seq(Parts)
          /\ Len(p) = 3 /\ p[1] = "graph" /\ p[2] = "oidc" /\ p[3] = "userinfo"
      BY DEF Parts, Segments
    <2>2. Fits(p, path)
      BY <1>1
    <2> HIDE DEF p
    <2>3. Len(path) = 3 /\ path[1] = "graph" /\ path[2] = "oidc" /\ path[3] = "userinfo"
      BY <2>1, <2>2, FitsMeans, Spelled
    <2>4. QED
      BY <1>1, <2>3 DEF Goes
  <1>2. CASE r.handler = "users" /\ r.pattern = <<"graph", "v1.0", "users">>
    <2> DEFINE p == <<"graph", "v1.0", "users">>
    <2>1. /\ p \in Seq(Parts)
          /\ Len(p) = 3 /\ p[1] = "graph" /\ p[2] = "v1.0" /\ p[3] = "users"
      BY DEF Parts, Segments
    <2>2. Fits(p, path)
      BY <1>2
    <2> HIDE DEF p
    <2>3. Len(path) = 3 /\ path[1] = "graph" /\ path[2] = "v1.0" /\ path[3] = "users"
      BY <2>1, <2>2, FitsMeans, Spelled
    <2>4. QED
      BY <1>2, <2>3 DEF Goes
  <1>3. CASE r.handler = "members" /\ r.pattern = <<"graph", "v1.0", "groups", AnySegment, "members">>
    <2> DEFINE p == <<"graph", "v1.0", "groups", AnySegment, "members">>
    <2>1. /\ p \in Seq(Parts)
          /\ Len(p) = 5 /\ p[1] = "graph" /\ p[2] = "v1.0" /\ p[3] = "groups"
      BY DEF Parts, Segments
    <2>2. Fits(p, path)
      BY <1>3
    <2> HIDE DEF p
    <2>3. Len(path) = 5 /\ path[1] = "graph" /\ path[2] = "v1.0" /\ path[3] = "groups"
      BY <2>1, <2>2, FitsMeans, Spelled
    <2>4. QED
      BY <1>3, <2>3 DEF Goes
  <1>4. CASE r.handler = "memberOf" /\ r.pattern = <<"graph", "v1.0", "me", "memberOf">>
    <2> DEFINE p == <<"graph", "v1.0", "me", "memberOf">>
    <2>1. /\ p \in Seq(Parts)
          /\ Len(p) = 4 /\ p[1] = "graph" /\ p[2] = "v1.0" /\ p[3] = "me" /\ p[4] = "memberOf"
      BY DEF Parts, Segments
    <2>2. Fits(p, path)
      BY <1>4
    <2> HIDE DEF p
    <2>3. Len(path) = 4 /\ path[1] = "graph" /\ path[2] = "v1.0" /\ path[3] = "me" /\ path[4] = "memberOf"
      BY <2>1, <2>2, FitsMeans, Spelled
    <2>4. QED
      BY <1>4, <2>3 DEF Goes
  <1>5. CASE r.handler = "health" /\ r.pattern = <<"health">>
    <2> DEFINE p == <<"health">>
    <2>1. /\ p \in Seq(Parts)
          /\ Len(p) = 1 /\ p[1] = "health"
      BY DEF Parts, Segments
    <2>2. Fits(p, path)
      BY <1>5
    <2> HIDE DEF p
    <2>3. Len(path) = 1 /\ path[1] = "health"
      BY <2>1, <2>2, FitsMeans, Spelled
    <2>4. QED
      BY <1>5, <2>3 DEF Goes
  <1>6. CASE r.handler = "admin" /\ r.pattern = <<"admin", "api", "users">>
    <2> DEFINE p == <<"admin", "api", "users">>
    <2>1. /\ p \in Seq(Parts)
          /\ Len(p) = 3 /\ p[1] = "admin" /\ p[2] = "api" /\ p[3] = "users"
      BY DEF Parts, Segments
    <2>2. Fits(p, path)
      BY <1>6
    <2> HIDE DEF p
    <2>3. Len(path) = 3 /\ path[1] = "admin" /\ path[2] = "api" /\ path[3] = "users"
      BY <2>1, <2>2, FitsMeans, Spelled
    <2>4. QED
      BY <1>6, <2>3 DEF Goes
  <1>7. CASE r.handler \in TenantHandlers /\ r.pattern = <<AnySegment>> \o Endpoint[r.handler]
    BY <1>7, FitsEndpoint DEF Goes
  <1>8. QED
    BY <1>1, <1>2, <1>3, <1>4, <1>5, <1>6, <1>7, RouteShapes

\* The routes that take a request.
Fitting(method, path) == {r \in Routes : r.method = method /\ Fits(r.pattern, path)}

\* The Graph handlers, by name.
LEMMA HandlersOfGraph ==
    GraphHandlers = {"userinfo", "users", "members", "memberOf"}
  <1>1. \A r \in GraphRoutes : r.handler \in {"userinfo", "users", "members", "memberOf"}
    BY DEF GraphRoutes
  <1>2. \A h \in {"userinfo", "users", "members", "memberOf"} : \E r \in GraphRoutes : r.handler = h
    <2> DEFINE R(p, h) == [method |-> "GET", pattern |-> p, handler |-> h]
    <2>1. /\ R(<<"graph", "oidc", "userinfo">>, "userinfo") \in GraphRoutes
          /\ R(<<"graph", "v1.0", "users">>, "users") \in GraphRoutes
          /\ R(<<"graph", "v1.0", "groups", AnySegment, "members">>, "members") \in GraphRoutes
          /\ R(<<"graph", "v1.0", "me", "memberOf">>, "memberOf") \in GraphRoutes
      BY DEF GraphRoutes
    <2>2. \A p, h : R(p, h).handler = h
      OBVIOUS
    <2>3. QED
      BY <2>1, <2>2
  <1>3. QED
    BY <1>1, <1>2 DEF GraphHandlers

\* What the answer of the routes says of the path.
LEMMA RoutedMeans ==
    ASSUME NEW method, NEW path \in Seq(Parts), NEW a, a = Routed(method, path)
    PROVE  /\ a \in TenantHandlers \cup GraphHandlers \cup {"health", "admin"} => Goes(a, path)
           /\ a \in TenantHandlers => IsAllowedTenant(path[1])
           /\ a = "portal" => method = "GET" /\ ~IsReservedApiPath(path)
  <1> DEFINE handler == (CHOOSE r \in Fitting(method, path) : TRUE).handler
  <1>1. \/ Fitting(method, path) = {} /\ a = Fallback(method, path)
        \/ /\ Fitting(method, path) # {}
           /\ handler \in TenantHandlers /\ ~IsAllowedTenant(path[1]) /\ a = "unknown tenant"
        \/ /\ Fitting(method, path) # {}
           /\ handler \in TenantHandlers => IsAllowedTenant(path[1])
           /\ a = handler
    BY DEF Routed, Fitting
  <1>2. CASE Fitting(method, path) = {} /\ a = Fallback(method, path)
    BY <1>2, HandlersOfGraph, Endpoints DEF Fallback
  <1>3. CASE a = "unknown tenant"
    BY <1>3, HandlersOfGraph, Endpoints
  <1>4. CASE /\ Fitting(method, path) # {}
             /\ handler \in TenantHandlers => IsAllowedTenant(path[1])
             /\ a = handler
    <2>1. PICK r \in Fitting(method, path) : a = r.handler
      BY <1>4
    <2>2. Goes(a, path)
      BY <2>1, FittingGoes DEF Fitting
    <2>3. a # "portal"
      BY <2>2, Endpoints DEF Goes
    <2>4. QED
      BY <1>4, <2>2, <2>3
  <1>5. QED
    BY <1>1, <1>2, <1>3, <1>4

\* The handler of the one route a path fits answers.
LEMMA RoutedTo ==
    ASSUME NEW r \in Routes, NEW path \in Seq(Parts), Fits(r.pattern, path),
           \A h : Goes(h, path) => h = r.handler,
           r.handler \in TenantHandlers => IsAllowedTenant(path[1])
    PROVE  Routed(r.method, path) = r.handler
  <1> DEFINE handler == (CHOOSE s \in Fitting(r.method, path) : TRUE).handler
  <1>1. r \in Fitting(r.method, path)
    BY DEF Fitting
  <1>2. PICK s \in Fitting(r.method, path) : handler = s.handler
    BY <1>1
  <1>3. handler = r.handler
    BY <1>2, FittingGoes DEF Fitting
  <1>4. \/ Fitting(r.method, path) = {}
        \/ handler \in TenantHandlers /\ ~IsAllowedTenant(path[1])
        \/ Routed(r.method, path) = handler
    BY DEF Routed, Fitting
  <1>5. QED
    BY <1>1, <1>3, <1>4

\* The hosts of a server are those of its surfaces.
LEMMA HostsOfSurfaces ==
    ASSUME NEW c
    PROVE  Hosts(c) = {HostOf(c, "login"), HostOf(c, "portal"), HostOf(c, "graph")}
  BY DEF Hosts, Surfaces

\* Three hostnames are different ones.
LEMMA DistinctMeans ==
    ASSUME NEW c, Distinct(c)
    PROVE  /\ HostOf(c, "login") # HostOf(c, "portal")
           /\ HostOf(c, "portal") # HostOf(c, "graph")
           /\ HostOf(c, "login") # HostOf(c, "graph")
  <1>1. ASSUME NEW a, NEW b, Hosts(c) = {a, b}
        PROVE  FALSE
    <2>1. IsFiniteSet({a}) /\ Cardinality({a}) = 1
      BY FS_Singleton
    <2>2. {a} \cup {b} = {a, b}
      OBVIOUS
    <2>3. Cardinality({a} \cup {b}) \in {1, 2}
      BY <2>1, FS_AddElement
    <2>4. QED
      BY <1>1, <2>2, <2>3 DEF Distinct
  <1>2. QED
    BY <1>1, HostsOfSurfaces

\* One origin is every surface's.
LEMMA OneOriginMeans ==
    ASSUME NEW c, OneOrigin(c)
    PROVE  c.origins["login"] = c.origins["portal"] /\ c.origins["portal"] = c.origins["graph"]
  <1> DEFINE O == {c.origins[s] : s \in Surfaces}
  <1>1. O = {c.origins["login"], c.origins["portal"], c.origins["graph"]}
    BY DEF Surfaces
  <1>2. IsFiniteSet(O)
    <2>1. O = ({c.origins["login"]} \cup {c.origins["portal"]}) \cup {c.origins["graph"]}
      BY <1>1
    <2>2. IsFiniteSet({c.origins["login"]})
      BY FS_Singleton
    <2>3. IsFiniteSet({c.origins["login"]} \cup {c.origins["portal"]})
      BY <2>2, FS_AddElement
    <2>4. IsFiniteSet(({c.origins["login"]} \cup {c.origins["portal"]}) \cup {c.origins["graph"]})
      BY <2>3, FS_AddElement
    <2>5. QED
      BY <2>1, <2>4
  <1>3. \A x, y \in O : x = y
    BY <1>2, FS_Singleton DEF OneOrigin
  <1>4. QED
    BY <1>1, <1>3

\* The role of a host, where hosts tell the surfaces apart.
LEMMA RolesOfHosts ==
    ASSUME NEW c, Distinct(c), NEW host
    PROVE  /\ host = HostOf(c, "login") => Role(c, host) = "login"
           /\ host = HostOf(c, "portal") => Role(c, host) = "portal"
           /\ host = HostOf(c, "graph") => Role(c, host) = "graph"
           /\ Role(c, host) = "graph" => host = HostOf(c, "graph")
  BY DistinctMeans, HostsOfSurfaces DEF Role, Collapsed

\* The segments a route begins with name no tenant.
LEMMA NoTenant == ~IsAllowedTenant("graph") /\ ~IsAllowedTenant("admin")
  BY RoutingAssumption DEF IsAllowedTenant, TenantAliases, Segments

\* What the hosts' guards see of a path that goes to a handler of each surface.
LEMMA GoesToGraph ==
    ASSUME NEW path \in Seq(Parts), NEW h \in GraphHandlers, Goes(h, path)
    PROVE  /\ Under("graph", path) /\ ~Under("admin", path) /\ path # <<"health">>
           /\ ~IsLoginPath(path) /\ ~IsDiscoveryPath(path)
  <1>1. /\ Len(path) >= 3 /\ path[1] = "graph" /\ path[2] \in {"oidc", "v1.0"}
    <2>1. \/ path = <<"graph", "oidc", "userinfo">>
          \/ path = <<"graph", "v1.0", "users">>
          \/ Len(path) = 5 /\ path[1] = "graph" /\ path[2] = "v1.0" /\ path[3] = "groups"
          \/ path = <<"graph", "v1.0", "me", "memberOf">>
      BY HandlersOfGraph, Endpoints DEF Goes
    <2>2. QED
      BY <2>1
  <1>2. Tail(path) \in Seq(Parts) /\ Tail(path)[1] = path[2]
    BY <1>1
  <1>3. Tail(path) # Endpoint.discovery
    BY <1>1, <1>2, Endpoints
  <1>4. QED
    BY <1>1, <1>3 DEF Under, IsLoginPath, IsDiscoveryPath, TenantApiSegments

\* What goes to a tenant endpoint is a sign-in path, and discovery alone a discovery path.
LEMMA GoesToTenant ==
    ASSUME NEW path \in Seq(Parts), NEW h \in TenantHandlers, Goes(h, path)
    PROVE  /\ path # <<>> /\ IsLoginPath(path) /\ path # <<"health">>
           /\ IsDiscoveryPath(path) <=> h = "discovery"
  <1>1. path # <<>> /\ Tail(path) = Endpoint[h]
    BY Endpoints DEF Goes
  <1>2. Len(Endpoint[h]) \in {3, 4} /\ Endpoint[h][1] \in {"v2.0", "discovery", "oauth2"}
    <2> DEFINE Fine(s) == Len(s) \in {3, 4} /\ s[1] \in {"v2.0", "discovery", "oauth2"}
    <2>1. Fine(Endpoint["discovery"])
      BY Endpoints
    <2>2. Fine(Endpoint["jwks"])
      BY Endpoints
    <2>3. Fine(Endpoint["authorize"])
      BY Endpoints
    <2>4. Fine(Endpoint["token"])
      BY Endpoints
    <2>5. Fine(Endpoint["logout"])
      BY Endpoints
    <2>6. Fine(Endpoint["devicecode"])
      BY Endpoints
    <2>7. Fine(Endpoint["verify"])
      BY Endpoints
    <2>8. QED
      BY <2>1, <2>2, <2>3, <2>4, <2>5, <2>6, <2>7, Endpoints
  <1>3. Len(path) = Len(Endpoint[h]) + 1 /\ path[2] = Endpoint[h][1]
    BY <1>1, <1>2
  <1>4. Endpoint[h] = Endpoint["discovery"] <=> h = "discovery"
    BY Endpoints
  <1>5. QED
    BY <1>1, <1>2, <1>3, <1>4 DEF IsLoginPath, IsDiscoveryPath, TenantApiSegments

\* What goes to the health check or the Admin API is neither a Graph nor a sign-in path.
LEMMA GoesToOwn ==
    ASSUME NEW path \in Seq(Parts), NEW h \in {"health", "admin"}, Goes(h, path)
    PROVE  ~Under("graph", path) /\ ~IsLoginPath(path)
  BY HandlersOfGraph, Endpoints DEF Goes, Under, IsLoginPath, TenantApiSegments

\* An answer of a handler comes from the routes, past the guard of the host.
LEMMA ServedMeans ==
    ASSUME NEW c, NEW host, NEW method, NEW path \in Seq(Parts), NEW a,
           a = Served(c, host, method, path), a \notin {"descriptor", "not found"}
    PROVE  /\ RewriteUrl(c, host, path) \in Seq(Parts)
           /\ Allowed(Role(c, host), method, RewriteUrl(c, host, path))
           /\ a = Routed(method, RewriteUrl(c, host, path))
           /\ RewriteUrl(c, host, path) # path =>
                Role(c, host) = "graph" /\ RewriteUrl(c, host, path)[1] = "graph"
  <1>1. RewriteUrl(c, host, path) \in Seq(Parts)
    BY Behind, PartsOfRoutes DEF RewriteUrl
  <1>2. RewriteUrl(c, host, path) # path =>
                Role(c, host) = "graph" /\ RewriteUrl(c, host, path)[1] = "graph"
    BY Behind, PartsOfRoutes DEF RewriteUrl
  <1>3. QED
    BY <1>1, <1>2 DEF Served

\* Which surface answers on which host, whatever is asked.
LEMMA KeptApart ==
    ASSUME NEW c, NEW host, NEW method, NEW path \in Seq(Parts), NEW a,
           a = Served(c, host, method, path)
    PROVE  /\ a \in TenantHandlers => IsAllowedTenant(path[1])
           /\ Distinct(c) =>
                /\ a \in GraphHandlers => host # HostOf(c, "login") /\ host # HostOf(c, "portal")
                /\ a \in TenantHandlers \ {"discovery"} =>
                        host # HostOf(c, "graph") /\ host # HostOf(c, "portal")
                /\ a = "discovery" => host # HostOf(c, "graph")
                /\ a \in {"admin", "health", "portal"} =>
                        host # HostOf(c, "graph") /\ host # HostOf(c, "login")
  <1> DEFINE role == Role(c, host)
             to == RewriteUrl(c, host, path)
  <1>1. /\ TenantHandlers \cap (GraphHandlers \cup {"admin", "health", "portal", "descriptor", "not found"}) = {}
        /\ GraphHandlers \cap {"admin", "health", "portal", "descriptor", "not found"} = {}
        /\ "discovery" \in TenantHandlers
    BY HandlersOfGraph, Endpoints
  <1>2. CASE a \notin TenantHandlers \cup GraphHandlers \cup {"admin", "health", "portal"}
    BY <1>1, <1>2
  <1>3. CASE a \in TenantHandlers \cup GraphHandlers \cup {"admin", "health", "portal"}
    <2>1. a \notin {"descriptor", "not found"}
      BY <1>1, <1>3
    <2>2. /\ to \in Seq(Parts) /\ Allowed(role, method, to) /\ a = Routed(method, to)
          /\ to # path => role = "graph" /\ to[1] = "graph"
      BY <2>1, ServedMeans
    <2> HIDE DEF role, to
    <2>3. /\ a # "portal" => Goes(a, to)
          /\ a \in TenantHandlers => IsAllowedTenant(to[1])
          /\ a = "portal" => method = "GET" /\ ~IsReservedApiPath(to)
      BY <2>2, <1>3, RoutedMeans
    <2>4. a \in TenantHandlers => to = path /\ ~Under("graph", to) /\ ~Under("admin", to)
      BY <2>2, <2>3, NoTenant DEF Under
    <2>5. Distinct(c) => /\ host = HostOf(c, "login") => role = "login"
                         /\ host = HostOf(c, "portal") => role = "portal"
                         /\ host = HostOf(c, "graph") => role = "graph"
      BY RolesOfHosts DEF role
    <2>6. a \in GraphHandlers => role # "login" /\ role # "portal"
      BY <1>1, <2>2, <2>3, GoesToGraph DEF Allowed
    <2>7. a \in TenantHandlers =>
            role # "graph" /\ (role = "portal" => a = "discovery")
      BY <1>1, <2>2, <2>3, <2>4, GoesToTenant DEF Allowed
    <2>8. a \in {"admin", "health", "portal"} => role # "graph" /\ role # "login"
      BY <1>1, <2>2, <2>3, GoesToOwn DEF Allowed, IsReservedApiPath
    <2>9. QED
      BY <1>1, <2>3, <2>4, <2>5, <2>6, <2>7, <2>8
  <1>4. QED
    BY <1>2, <1>3

\* A sequence fits itself.
LEMMA FitsItself == ASSUME NEW path PROVE Fits(path, path)
  BY DEF Fits

\* The endpoints differ.
LEMMA EndpointsDiffer ==
    ASSUME NEW g \in TenantHandlers, NEW h \in TenantHandlers, Endpoint[g] = Endpoint[h]
    PROVE  g = h
  <1>1. Len(Endpoint["discovery"]) = 3 /\ Endpoint["discovery"][3] = "openid-configuration"
    BY Endpoints
  <1>2. Len(Endpoint["jwks"]) = 3 /\ Endpoint["jwks"][3] = "keys"
    BY Endpoints
  <1>3. Len(Endpoint["authorize"]) = 3 /\ Endpoint["authorize"][3] = "authorize"
    BY Endpoints
  <1>4. Len(Endpoint["token"]) = 3 /\ Endpoint["token"][3] = "token"
    BY Endpoints
  <1>5. Len(Endpoint["logout"]) = 3 /\ Endpoint["logout"][3] = "logout"
    BY Endpoints
  <1>6. Len(Endpoint["devicecode"]) = 3 /\ Endpoint["devicecode"][3] = "devicecode"
    BY Endpoints
  <1>7. Len(Endpoint["verify"]) = 4 /\ Endpoint["verify"][3] = "devicecode"
    BY Endpoints
  <1>8. QED
    BY <1>1, <1>2, <1>3, <1>4, <1>5, <1>6, <1>7, Endpoints

\* The path of a tenant's endpoint, as it is advertised.
TenantPath(h) == <<TenantId>> \o Endpoint[h]

\* An endpoint's advertised path goes to that endpoint, for each of its methods.
LEMMA TenantPaths ==
    ASSUME NEW h \in TenantHandlers
    PROVE  /\ TenantPath(h) \in Seq(Parts) /\ TenantPath(h) # <<>>
           /\ Goes(h, TenantPath(h)) /\ ~Under("graph", TenantPath(h))
           /\ ~Under("v1.0", TenantPath(h)) /\ ~Under("oidc", TenantPath(h))
           /\ \A m \in MethodsOf[h] : Routed(m, TenantPath(h)) = h
  <1> DEFINE path == TenantPath(h)
             pattern == <<AnySegment>> \o Endpoint[h]
  <1>1. Endpoint[h] \in Seq(Parts) /\ TenantId \in Parts /\ AnySegment \in Parts
    BY PartsOfRoutes
  <1>2. /\ path \in Seq(Parts) /\ path # <<>> /\ path[1] = TenantId
        /\ Len(path) = Len(Endpoint[h]) + 1
        /\ \A i \in 1..Len(Endpoint[h]) : path[i + 1] = Endpoint[h][i]
        /\ Tail(path) = Endpoint[h]
    BY <1>1, Behind DEF TenantPath
  <1>3. /\ pattern \in Seq(Parts) /\ pattern[1] = AnySegment
        /\ Len(pattern) = Len(Endpoint[h]) + 1
        /\ \A i \in 1..Len(Endpoint[h]) : pattern[i + 1] = Endpoint[h][i]
    BY <1>1, Behind
  <1>4. Len(Endpoint[h]) \in Nat
    BY <1>1
  <1> HIDE DEF path, pattern
  <1>5. Fits(pattern, path)
    <2>2. ASSUME NEW i \in 1..Len(pattern)
          PROVE  pattern[i] \in {AnySegment, path[i]}
      <3>1. CASE i = 1
        BY <3>1, <1>3
      <3>2. CASE i # 1
        <4>1. i - 1 \in 1..Len(Endpoint[h]) /\ (i - 1) + 1 = i
          BY <3>2, <1>3, <1>4
        <4>2. pattern[(i - 1) + 1] = Endpoint[h][i - 1] /\ path[(i - 1) + 1] = Endpoint[h][i - 1]
          BY <4>1, <1>2, <1>3
        <4>3. QED
          BY <4>1, <4>2
      <3>3. QED
        BY <3>1, <3>2
    <2>3. DOMAIN pattern = 1..Len(pattern)
      BY <1>3
    <2>4. QED
      BY <2>2, <2>3, <1>2, <1>3 DEF Fits
  <1>6. Goes(h, path)
    BY <1>2 DEF Goes
  <1>7. TenantId \notin {"graph", "v1.0", "oidc", "health", "admin"}
    BY RoutingAssumption DEF Segments
  <1>8. ~Under("graph", path) /\ ~Under("v1.0", path) /\ ~Under("oidc", path)
    BY <1>2, <1>7 DEF Under
  <1>9. ASSUME NEW g, Goes(g, path)
        PROVE  g = h
    <2>1. CASE g \in TenantHandlers
      <3>1. Tail(path) = Endpoint[g]
        BY <2>1, <1>9, Endpoints DEF Goes
      <3>2. QED
        BY <2>1, <3>1, <1>2, EndpointsDiffer
    <2>2. CASE g \notin TenantHandlers
      <3>1. path[1] \in {"graph", "health", "admin"}
        BY <2>2, <1>9 DEF Goes
      <3>2. QED
        BY <3>1, <1>2, <1>7
    <2>3. QED
      BY <2>1, <2>2
  <1>10. ASSUME NEW m \in MethodsOf[h]
         PROVE  Routed(m, path) = h
    <2> DEFINE r == [method |-> m, pattern |-> pattern, handler |-> h]
    <2>1. r \in Routes
      <3>1. r \in TenantRoutes(h)
        BY DEF TenantRoutes, pattern
      <3>2. QED
        BY <3>1 DEF Routes
    <2>2. r.method = m /\ r.pattern = pattern /\ r.handler = h
      OBVIOUS
    <2>3. IsAllowedTenant(path[1])
      BY <1>2 DEF IsAllowedTenant
    <2> HIDE DEF r
    <2>4. QED
      BY <2>1, <2>2, <2>3, <1>2, <1>5, <1>9, RoutedTo
  <1>11. QED
    BY <1>2, <1>6, <1>8, <1>10 DEF path

\* The path of a Graph route goes to its handler, and Graph's prefix is all a Graph host drops.
LEMMA GraphPaths ==
    ASSUME NEW r \in GraphRoutes
    PROVE  /\ r.pattern \in Seq(Parts) /\ Routed(r.method, r.pattern) = r.handler
           /\ Under("graph", r.pattern) /\ ~Under("v1.0", r.pattern) /\ ~Under("oidc", r.pattern)
           /\ Under("v1.0", Tail(r.pattern)) \/ Under("oidc", Tail(r.pattern))
           /\ <<"graph">> \o Tail(r.pattern) = r.pattern
  <1>1. r \in Routes /\ r.handler \in GraphHandlers
    BY DEF Routes, GraphHandlers
  <1>2. \/ r.handler = "userinfo" /\ r.pattern = <<"graph", "oidc", "userinfo">>
        \/ r.handler = "users" /\ r.pattern = <<"graph", "v1.0", "users">>
        \/ r.handler = "members"
           /\ r.pattern = <<"graph", "v1.0", "groups", AnySegment, "members">>
        \/ r.handler = "memberOf" /\ r.pattern = <<"graph", "v1.0", "me", "memberOf">>
    BY DEF GraphRoutes
  <1>3. /\ r.pattern \in Seq(Parts)
        /\ Len(r.pattern) >= 3 /\ r.pattern[1] = "graph" /\ r.pattern[2] \in {"oidc", "v1.0"}
    <2>1. ASSUME r.handler = "userinfo" /\ r.pattern = <<"graph", "oidc", "userinfo">>
          PROVE  /\ r.pattern \in Seq(Parts)
                 /\ Len(r.pattern) >= 3 /\ r.pattern[1] = "graph" /\ r.pattern[2] \in {"oidc", "v1.0"}
      BY <2>1 DEF Parts, Segments
    <2>2. ASSUME r.handler = "users" /\ r.pattern = <<"graph", "v1.0", "users">>
          PROVE  /\ r.pattern \in Seq(Parts)
                 /\ Len(r.pattern) >= 3 /\ r.pattern[1] = "graph" /\ r.pattern[2] \in {"oidc", "v1.0"}
      BY <2>2 DEF Parts, Segments
    <2>3. ASSUME /\ r.handler = "members"
                 /\ r.pattern = <<"graph", "v1.0", "groups", AnySegment, "members">>
          PROVE  /\ r.pattern \in Seq(Parts)
                 /\ Len(r.pattern) >= 3 /\ r.pattern[1] = "graph" /\ r.pattern[2] \in {"oidc", "v1.0"}
      BY <2>3 DEF Parts, Segments
    <2>4. ASSUME r.handler = "memberOf" /\ r.pattern = <<"graph", "v1.0", "me", "memberOf">>
          PROVE  /\ r.pattern \in Seq(Parts)
                 /\ Len(r.pattern) >= 3 /\ r.pattern[1] = "graph" /\ r.pattern[2] \in {"oidc", "v1.0"}
      BY <2>4 DEF Parts, Segments
    <2>5. QED
      BY <2>1, <2>2, <2>3, <2>4, <1>2
  <1>4. Goes(r.handler, r.pattern)
    BY <1>1, <1>3, FitsItself, FittingGoes
  <1>5. ~IsLoginPath(r.pattern) /\ Under("graph", r.pattern)
    BY <1>1, <1>3, <1>4, GoesToGraph
  <1>6. ASSUME NEW h, Goes(h, r.pattern)
        PROVE  h = r.handler
    <2>1. h \notin TenantHandlers
      BY <1>3, <1>5, <1>6, GoesToTenant
    <2>2. h \notin {"health", "admin"}
      BY <1>3, <1>5, <1>6, GoesToOwn
    <2>3. CASE r.handler = "userinfo" /\ r.pattern = <<"graph", "oidc", "userinfo">>
      BY <2>1, <2>2, <2>3, <1>6 DEF Goes
    <2>4. CASE r.handler = "users" /\ r.pattern = <<"graph", "v1.0", "users">>
      BY <2>1, <2>2, <2>4, <1>6 DEF Goes
    <2>5. CASE /\ r.handler = "members"
               /\ r.pattern = <<"graph", "v1.0", "groups", AnySegment, "members">>
      BY <2>1, <2>2, <2>5, <1>6 DEF Goes
    <2>6. CASE r.handler = "memberOf" /\ r.pattern = <<"graph", "v1.0", "me", "memberOf">>
      BY <2>1, <2>2, <2>6, <1>6 DEF Goes
    <2>7. QED
      BY <2>3, <2>4, <2>5, <2>6, <1>2
  <1>7. Routed(r.method, r.pattern) = r.handler
    <2>1. r.handler \notin TenantHandlers
      BY <1>1, HandlersOfGraph, Endpoints
    <2>2. QED
      BY <2>1, <1>1, <1>3, <1>6, FitsItself, RoutedTo
  <1>8. /\ ~Under("v1.0", r.pattern) /\ ~Under("oidc", r.pattern)
    BY <1>5 DEF Under
  <1>10. /\ Tail(r.pattern) \in Seq(Parts) /\ Len(Tail(r.pattern)) = Len(r.pattern) - 1
         /\ \A i \in 1..Len(r.pattern) - 1 : Tail(r.pattern)[i] = r.pattern[i + 1]
    BY <1>3
  <1>11. Under("v1.0", Tail(r.pattern)) \/ Under("oidc", Tail(r.pattern))
    <2> DEFINE rest == Tail(r.pattern)
    <2>0. rest \in Seq(Parts) /\ Len(rest) >= 2
      BY <1>3, <1>10
    <2>1. rest # <<>> /\ rest[1] = r.pattern[1 + 1]
      <3>1. 1 \in 1..Len(r.pattern) - 1
        BY <1>3
      <3>2. rest[1] = r.pattern[1 + 1]
        BY <3>1, <1>10
      <3> HIDE DEF rest
      <3>3. QED
        BY <3>2, <2>0
    <2>2. QED
      BY <2>1, <1>3 DEF Under
  <1>12. <<"graph">> \o Tail(r.pattern) = r.pattern
    <2> DEFINE again == <<"graph">> \o Tail(r.pattern)
    <2>1. /\ again \in Seq(Parts) /\ Len(again) = Len(r.pattern) /\ again[1] = "graph"
          /\ \A i \in 1..Len(r.pattern) - 1 : again[i + 1] = Tail(r.pattern)[i]
      BY <1>3, <1>10, PartsOfRoutes, Behind
    <2> HIDE DEF again
    <2>2. ASSUME NEW i \in 1..Len(r.pattern)
          PROVE  again[i] = r.pattern[i]
      <3>1. CASE i = 1
        BY <3>1, <2>1, <1>3
      <3>2. CASE i # 1
        <4>1. i - 1 \in 1..Len(r.pattern) - 1 /\ (i - 1) + 1 = i
          BY <3>2, <1>3
        <4>2. again[(i - 1) + 1] = Tail(r.pattern)[i - 1] /\ Tail(r.pattern)[i - 1] = r.pattern[(i - 1) + 1]
          BY <4>1, <2>1, <1>10
        <4>3. QED
          BY <4>1, <4>2
      <3>3. QED
        BY <3>1, <3>2
    <2>3. again = r.pattern
      BY <2>1, <2>2, <1>3, SeqEqual
    <2>4. QED
      BY <2>3 DEF again
  <1>13. QED
    BY <1>3, <1>5, <1>7, <1>8, <1>11, <1>12

\* The portal's page and the Admin API answer on the paths the portal asks for.
LEMMA PortalPaths ==
    /\ Routed("GET", <<>>) = "portal"
    /\ <<"admin", "api", "users">> \in Seq(Parts)
    /\ Routed("GET", <<"admin", "api", "users">>) = "admin"
  <1>1. Routed("GET", <<>>) = "portal"
    <2>1. <<>> \in Seq(Parts)
      OBVIOUS
    <2>2. \A h : ~Goes(h, <<>>)
      BY DEF Goes
    <2>3. Fitting("GET", <<>>) = {}
      BY <2>1, <2>2, FittingGoes DEF Fitting
    <2>4. ~IsReservedApiPath(<<>>)
      BY DEF IsReservedApiPath, Under, IsLoginPath
    <2>5. QED
      BY <2>3, <2>4 DEF Routed, Fitting, Fallback
  <1>2. <<"admin", "api", "users">> \in Seq(Parts)
    BY DEF Parts, Segments
  <1>3. Routed("GET", <<"admin", "api", "users">>) = "admin"
    <2> DEFINE r == [method |-> "GET", pattern |-> <<"admin", "api", "users">>, handler |-> "admin"]
               path == <<"admin", "api", "users">>
    <2>1. r \in Routes
      <3>1. r \in OwnRoutes
        BY DEF OwnRoutes
      <3>2. QED
        BY <3>1 DEF Routes
    <2>2. r.method = "GET" /\ r.pattern = path /\ r.handler = "admin"
      OBVIOUS
    <2>3. path \in Seq(Parts) /\ path[1] = "admin" /\ path # <<>>
      BY <1>2
    <2>4. path # <<"health">>
      OBVIOUS
    <2> HIDE DEF r, path
    <2>5. Fits(path, path) /\ Goes("admin", path)
      BY <2>1, <2>2, <2>3, FitsItself, FittingGoes
    <2>6. ~IsLoginPath(path) /\ ~Under("graph", path)
      BY <2>3, <2>5, GoesToOwn
    <2>7. ASSUME NEW h, Goes(h, path)
          PROVE  h = "admin"
      <3>1. h \notin TenantHandlers
        BY <2>3, <2>6, <2>7, GoesToTenant
      <3>2. h \notin GraphHandlers
        BY <2>3, <2>6, <2>7, GoesToGraph
      <3>3. QED
        BY <3>1, <3>2, <2>4, <2>7, HandlersOfGraph DEF Goes
    <2>8. "admin" \notin TenantHandlers
      BY Endpoints
    <2>9. Routed("GET", path) = "admin"
      BY <2>1, <2>2, <2>3, <2>5, <2>7, <2>8, RoutedTo
    <2>10. QED
      BY <2>9 DEF path
  <1>4. QED
    BY <1>1, <1>2, <1>3

\* A configuration whose origins can be told apart, or are one.
LEMMA HostsTold ==
    ASSUME NEW c, Distinct(c) \/ OneOrigin(c)
    PROVE  /\ Role(c, HostOf(c, "login")) \in {"compat", "login"}
           /\ Role(c, HostOf(c, "portal")) \in {"compat", "portal"}
           /\ \/ /\ c.origins["graph"] = c.origins["login"]
                 /\ Role(c, HostOf(c, "graph")) = "compat"
              \/ /\ c.origins["graph"] # c.origins["login"]
                 /\ Role(c, HostOf(c, "graph")) = "graph"
  <1>1. CASE Distinct(c)
    <2>1. c.origins["graph"] # c.origins["login"]
      BY <1>1, DistinctMeans DEF HostOf
    <2>2. QED
      BY <2>1, <1>1, RolesOfHosts
  <1>2. CASE OneOrigin(c)
    BY <1>2, OneOriginMeans DEF Role, Collapsed, HostOf
  <1>3. QED
    BY <1>1, <1>2

\* The URLs the server hands out are answered by the handlers they are meant for.
LEMMA Reached ==
    ASSUME NEW c, Distinct(c) \/ OneOrigin(c), NEW link \in Advertised(c)
    PROVE  Served(c, link.host, link.method, link.path) = link.handler
  <1>1. CASE \E r \in GraphRoutes :
                link = Link(c, "graph", r.method, GraphPublicPath(c, r.pattern), r.handler)
    <2>1. PICK r \in GraphRoutes :
             link = Link(c, "graph", r.method, GraphPublicPath(c, r.pattern), r.handler)
      BY <1>1
    <2> DEFINE host == HostOf(c, "graph")
               path == GraphPublicPath(c, r.pattern)
    <2>2. link.host = host /\ link.method = r.method /\ link.path = path /\ link.handler = r.handler
      BY <2>1 DEF Link
    <2>3. RewriteUrl(c, host, path) = r.pattern /\ Role(c, host) \in {"compat", "graph"}
      BY HostsTold, GraphPaths DEF RewriteUrl, GraphPublicPath
    <2>4. Allowed(Role(c, host), r.method, r.pattern) /\ Routed(r.method, r.pattern) = r.handler
      BY <2>3, GraphPaths DEF Allowed
    <2> HIDE DEF host, path
    <2>5. QED
      BY <2>2, <2>3, <2>4 DEF Served
  <1>2. CASE \E h \in TenantHandlers : \E m \in MethodsOf[h] :
                link = Link(c, "login", m, TenantPath(h), h)
    <2>0. PICK h \in TenantHandlers : \E m \in MethodsOf[h] : link = Link(c, "login", m, TenantPath(h), h)
      BY <1>2
    <2>1. PICK m \in MethodsOf[h] : link = Link(c, "login", m, TenantPath(h), h)
      BY <2>0
    <2> DEFINE host == HostOf(c, "login")
    <2>2. link.host = host /\ link.method = m /\ link.path = TenantPath(h) /\ link.handler = h
      BY <2>1 DEF Link
    <2>3. RewriteUrl(c, host, TenantPath(h)) = TenantPath(h)
      BY TenantPaths DEF RewriteUrl
    <2>4. Allowed(Role(c, host), m, TenantPath(h)) /\ Routed(m, TenantPath(h)) = h
      BY HostsTold, TenantPaths, GoesToTenant DEF Allowed
    <2> HIDE DEF host
    <2>5. QED
      BY <2>2, <2>3, <2>4 DEF Served
  <1> DEFINE portal == HostOf(c, "portal")
  <1>3. ASSUME NEW path \in Seq(Parts), NEW h, link = Link(c, "portal", "GET", path, h),
               Role(c, portal) = "portal" => Allowed("portal", "GET", path),
               Routed("GET", path) = h
        PROVE  link.handler = Served(c, link.host, link.method, link.path)
    <2>1. link.host = portal /\ link.method = "GET" /\ link.path = path /\ link.handler = h
      BY <1>3 DEF Link
    <2>2. Role(c, portal) \in {"compat", "portal"}
      BY HostsTold
    <2>3. RewriteUrl(c, portal, path) = path
      BY <2>2 DEF RewriteUrl
    <2>4. Allowed(Role(c, portal), "GET", path)
      BY <2>2, <1>3 DEF Allowed
    <2> HIDE DEF portal
    <2>5. QED
      BY <2>1, <2>3, <2>4, <1>3 DEF Served
  <1>4. CASE link = Link(c, "portal", "GET", <<>>, "portal")
    <2>1. Allowed("portal", "GET", <<>>)
      BY DEF Allowed, IsLoginPath, Under
    <2>2. <<>> \in Seq(Parts)
      OBVIOUS
    <2>3. QED
      BY <1>3, <1>4, <2>1, <2>2, PortalPaths
  <1>5. CASE link = Link(c, "portal", "GET", <<"admin", "api", "users">>, "admin")
    <2>1. Allowed("portal", "GET", <<"admin", "api", "users">>)
      BY DEF Allowed, Under
    <2>3. QED
      BY <1>3, <1>5, <2>1, PortalPaths
  <1>6. CASE link = Link(c, "portal", "GET", TenantPath("discovery"), "discovery")
    <2>1. "discovery" \in TenantHandlers /\ "GET" \in MethodsOf["discovery"]
      BY Endpoints DEF MethodsOf
    <2>2. /\ TenantPath("discovery") \in Seq(Parts) /\ IsDiscoveryPath(TenantPath("discovery"))
          /\ Routed("GET", TenantPath("discovery")) = "discovery"
      BY <2>1, TenantPaths, GoesToTenant
    <2>3. QED
      BY <1>3, <1>6, <2>2 DEF Allowed
  <1>7. QED
    BY <1>1, <1>2, <1>4, <1>5, <1>6 DEF Advertised, TenantPath

-----------------------------------------------------------------------------
(* The hosts file. *)

\* A set of natural numbers that is not empty has a least one.
LEMMA MinOfNat ==
    ASSUME NEW T, T \subseteq Nat, T # {}
    PROVE  Min(T) \in T /\ \A y \in T : Min(T) <= y
  <1> DEFINE R == OpToRel(<, Nat)
  <1>0. IsWellFoundedOn(R, Nat) /\ \A x, y \in Nat : y < x => <<y, x>> \in R
    BY NatLessThanWellFounded DEF OpToRel
  <1> HIDE DEF R
  <1>1. PICK x \in T : \A y \in T : ~(<<y, x>> \in R)
    BY <1>0, WFMin
  <1>2. ASSUME NEW y \in T
        PROVE  x <= y
    <2>1. x \in Nat /\ y \in Nat
      OBVIOUS
    <2>2. ~(y < x)
      BY <2>1, <1>0, <1>1
    <2>3. QED
      BY <2>1, <2>2
  <1>3. QED
    BY <1>2 DEF Min

\* FirstFrom finds the first one, from position a on.
LEMMA FirstFound ==
    ASSUME NEW S, NEW f \in Seq(S), NEW m, NEW a \in Nat \ {0}
    PROVE  \/ /\ FirstFrom(f, m, a) = 0
              /\ \A i \in a..Len(f) : f[i] # m
           \/ /\ FirstFrom(f, m, a) \in a..Len(f) /\ f[FirstFrom(f, m, a)] = m
              /\ \A i \in a..Len(f) : f[i] = m => FirstFrom(f, m, a) <= i
  <1> DEFINE places == {i \in a..Len(f) : f[i] = m}
  <1>1. FirstFrom(f, m, a) = IF places = {} THEN 0 ELSE Min(places)
    BY DEF FirstFrom
  <1>2. CASE places = {}
    BY <1>1, <1>2
  <1>3. CASE places # {}
    <2>1. places \subseteq Nat
      OBVIOUS
    <2>2. Min(places) \in places /\ \A i \in places : Min(places) <= i
      BY <2>1, <1>3, MinOfNat
    <2>3. QED
      BY <1>1, <1>3, <2>2
  <1>4. QED
    BY <1>2, <1>3

\* Without, element by element.
LEMMA WithoutElements ==
    ASSUME NEW S, NEW f \in Seq(S), NEW a \in 1..Len(f), NEW b \in a..Len(f)
    PROVE  /\ Without(f, a, b) \in Seq(S)
           /\ Len(Without(f, a, b)) = Len(f) - (b - a + 1)
           /\ \A i \in 1..a - 1 : Without(f, a, b)[i] = f[i]
           /\ \A i \in a..Len(f) - (b - a + 1) : Without(f, a, b)[i] = f[i + (b - a + 1)]
  <1> DEFINE before == SubSeq(f, 1, a - 1)
             after == SubSeq(f, b + 1, Len(f))
  <1>1. /\ before \in Seq(S) /\ Len(before) = a - 1
        /\ \A i \in 1..a - 1 : before[i] = f[i]
    BY SubSeqProperties
  <1>2. /\ after \in Seq(S) /\ Len(after) = Len(f) - b
        /\ \A i \in 1..Len(f) - b : after[i] = f[b + i]
    BY SubSeqProperties
  <1> HIDE DEF before, after
  <1>3. /\ before \o after \in Seq(S)
        /\ Len(before \o after) = (a - 1) + (Len(f) - b)
        /\ \A i \in 1..(a - 1) + (Len(f) - b) :
             (before \o after)[i] = IF i <= a - 1 THEN before[i] ELSE after[i - (a - 1)]
    <2>1. /\ before \o after \in Seq(S)
          /\ Len(before \o after) = Len(before) + Len(after)
          /\ \A i \in 1..Len(before) + Len(after) :
               (before \o after)[i] = IF i <= Len(before) THEN before[i] ELSE after[i - Len(before)]
      BY <1>1, <1>2, ConcatProperties
    <2>2. QED
      BY <2>1, <1>1, <1>2
  <1>4. Without(f, a, b) = before \o after
    BY DEF Without, before, after
  <1> DEFINE g == Without(f, a, b)
  <1> HIDE DEF g
  <1>5. /\ g \in Seq(S)
        /\ Len(g) = (a - 1) + (Len(f) - b)
        /\ \A i \in 1..(a - 1) + (Len(f) - b) :
             g[i] = IF i <= a - 1 THEN before[i] ELSE after[i - (a - 1)]
    BY <1>3, <1>4 DEF g
  <1>6. ASSUME NEW i \in 1..a - 1
        PROVE  g[i] = f[i]
    BY <1>1, <1>5
  <1>7. ASSUME NEW i \in a..Len(f) - (b - a + 1)
        PROVE  g[i] = f[i + (b - a + 1)]
    <2>1. i - (a - 1) \in 1..Len(f) - b /\ i > a - 1 /\ b + (i - (a - 1)) = i + (b - a + 1)
      OBVIOUS
    <2>2. g[i] = after[i - (a - 1)]
      BY <2>1, <1>5
    <2>3. after[i - (a - 1)] = f[b + (i - (a - 1))]
      BY <2>1, <1>2
    <2>4. QED
      BY <2>1, <2>2, <2>3
  <1>8. QED
    BY <1>5, <1>6, <1>7 DEF g

\* What is left of a sequence without a part of it is what stood outside of that part.
LEMMA WithoutRange ==
    ASSUME NEW S, NEW f \in Seq(S), NEW a \in 1..Len(f), NEW b \in a..Len(f)
    PROVE  /\ \A i \in 1..Len(f) : i < a \/ b < i =>
                 \E j \in 1..Len(Without(f, a, b)) : Without(f, a, b)[j] = f[i]
           /\ \A j \in 1..Len(Without(f, a, b)) :
                 \E i \in 1..Len(f) : (i < a \/ b < i) /\ Without(f, a, b)[j] = f[i]
  <1> DEFINE g == Without(f, a, b)
             k == b - a + 1
  <1>1. /\ Len(g) = Len(f) - k
        /\ \A i \in 1..a - 1 : g[i] = f[i]
        /\ \A i \in a..Len(f) - k : g[i] = f[i + k]
    BY WithoutElements
  <1> HIDE DEF g
  <1>2. ASSUME NEW i \in 1..Len(f), i < a \/ b < i
        PROVE  \E j \in 1..Len(g) : g[j] = f[i]
    <2>1. CASE i < a
      BY <2>1, <1>1
    <2>2. CASE b < i
      <3>1. i - k \in a..Len(f) - k /\ (i - k) + k = i /\ i - k \in 1..Len(f) - k
        BY <2>2
      <3>2. g[i - k] = f[(i - k) + k]
        BY <3>1, <1>1
      <3>3. QED
        BY <3>1, <3>2, <1>1
    <2>3. QED
      BY <1>2, <2>1, <2>2
  <1>3. ASSUME NEW j \in 1..Len(g)
        PROVE  \E i \in 1..Len(f) : (i < a \/ b < i) /\ g[j] = f[i]
    <2>1. CASE j < a
      BY <2>1, <1>1
    <2>2. CASE a <= j
      <3>1. j + k \in 1..Len(f) /\ b < j + k /\ j \in a..Len(f) - k
        BY <2>2, <1>1
      <3>2. QED
        BY <3>1, <1>1
    <2>3. QED
      BY <2>1, <2>2
  <1>4. QED
    BY <1>2, <1>3 DEF g

\* What may stand in a file: the lines, the markers, and the entries of a configuration.
Entries == {DesiredNames(AssembleConfig(raw)) : raw \in Raws}
Elements == Lines \cup {BEGIN, END} \cup Entries

\* What every file is, cut off or not: what is not a line of a user has a BEGIN at or before it, and
\* only lines follow an END.
Tidy(f) ==
    /\ f \in Seq(Elements)
    /\ \A i \in 1..Len(f) : f[i] \in Lines \/ \E b \in 1..i : f[b] = BEGIN
    /\ \A e \in 1..Len(f), i \in 1..Len(f) : f[e] = END /\ e < i => f[i] \in Lines

\* No part of a block is missing.
Whole(f) ==
    \A b \in 1..Len(f) : f[b] = BEGIN =>
        b + 2 <= Len(f) /\ f[b + 1] \in Entries /\ f[b + 2] = END

\* Lines, markers and entries are told apart.
LEMMA ElementsDiffer ==
    /\ BEGIN # END /\ BEGIN \notin Lines /\ END \notin Lines
    /\ Entries \cap (Lines \cup {BEGIN, END}) = {}
  BY HostsFileAssumption, DomainsAssumption DEF Entries

\* A file of lines alone.
LEMMA OnlyLines ==
    ASSUME NEW f \in Seq(Elements), \A i \in 1..Len(f) : f[i] \in Lines
    PROVE  f \in Seq(Lines)
  OBVIOUS

\* The lines of a file, by position.
LEMMA LinesByPosition ==
    ASSUME NEW f \in Seq(Elements), NEW l \in Lines
    PROVE  l \in LinesOf(f) <=> \E i \in 1..Len(f) : f[i] = l
  BY DEF LinesOf

\* Users' own lines are a whole and tidy file.
LEMMA OwnLinesTidy ==
    ASSUME NEW f \in Seq(Lines)
    PROVE  Tidy(f) /\ Whole(f)
  <1>1. f \in Seq(Elements) /\ \A i \in 1..Len(f) : f[i] \in Lines
    BY SeqMonotonic DEF Elements
  <1>2. QED
    BY <1>1, ElementsDiffer DEF Tidy, Whole

\* Where no END stands, nothing is stripped; elsewhere lines remain, and of a whole file all of them.
LEMMA StripTidy ==
    ASSUME NEW f, Tidy(f)
    PROVE  /\ (\A i \in 1..Len(f) : f[i] # END) => Strip(f) = f
           /\ (\E i \in 1..Len(f) : f[i] = END) => Strip(f) \in Seq(Lines)
           /\ Whole(f) => Strip(f) \in Seq(Lines) /\ LinesOf(Strip(f)) = LinesOf(f)
  <1> DEFINE b == FirstFrom(f, BEGIN, 1)
             e == FirstFrom(f, END, b)
  <1>1. f \in Seq(Elements) /\ Len(f) \in Nat
    BY DEF Tidy
  <1>2. \/ b = 0 /\ \A i \in 1..Len(f) : f[i] # BEGIN
        \/ b \in 1..Len(f) /\ f[b] = BEGIN /\ \A i \in 1..Len(f) : f[i] = BEGIN => b <= i
    BY <1>1, FirstFound
  <1>3. Strip(f) = IF b = 0 \/ e = 0 THEN f ELSE Without(f, b, e)
    BY DEF Strip
  <1>4. CASE b = 0
    <2>1. \A i \in 1..Len(f) : f[i] \in Lines
      BY <1>2, <1>4 DEF Tidy
    <2>2. f \in Seq(Lines)
      BY <1>1, <2>1, OnlyLines
    <2>3. Strip(f) = f
      BY <1>3, <1>4
    <2>4. QED
      BY <2>2, <2>3
  <1>5. CASE b # 0
    <2>1. b \in 1..Len(f) /\ f[b] = BEGIN /\ \A i \in 1..Len(f) : f[i] = BEGIN => b <= i
      BY <1>2, <1>5
    <2>2. b \in Nat \ {0}
      BY <2>1
    <2>3. \/ e = 0 /\ \A i \in b..Len(f) : f[i] # END
          \/ e \in b..Len(f) /\ f[e] = END /\ \A i \in b..Len(f) : f[i] = END => e <= i
      BY <1>1, <2>2, FirstFound
    <2> HIDE DEF b, e
    <2>4. ASSUME NEW i \in 1..Len(f), i < b
          PROVE  f[i] \in Lines
      BY <2>1, <2>4 DEF Tidy
    <2>5. \A i \in 1..Len(f) : f[i] = END => b <= i
      BY <2>1, <2>4, ElementsDiffer
    <2>6. CASE e = 0
      <3>1. \A i \in 1..Len(f) : f[i] # END
        BY <2>1, <2>3, <2>5, <2>6
      <3>2. Strip(f) = f
        BY <1>3, <2>6
      <3>3. ~Whole(f)
        BY <2>1, <3>1 DEF Whole
      <3>4. QED
        BY <3>1, <3>2, <3>3
    <2>7. CASE e # 0
      <3>1. e \in b..Len(f) /\ f[e] = END
        BY <2>3, <2>7
      <3>2. ASSUME NEW i \in 1..Len(f), e < i
            PROVE  f[i] \in Lines
        BY <2>1, <3>1, <3>2 DEF Tidy
      <3>3. Strip(f) = Without(f, b, e)
        BY <1>3, <1>5, <2>7
      <3>4. /\ Without(f, b, e) \in Seq(Elements)
            /\ \A i \in 1..Len(f) : i < b \/ e < i =>
                 \E j \in 1..Len(Without(f, b, e)) : Without(f, b, e)[j] = f[i]
            /\ \A j \in 1..Len(Without(f, b, e)) :
                 \E i \in 1..Len(f) : (i < b \/ e < i) /\ Without(f, b, e)[j] = f[i]
        BY <1>1, <2>1, <3>1, WithoutRange, WithoutElements
      <3> DEFINE g == Strip(f)
      <3>5. /\ g \in Seq(Elements)
            /\ \A i \in 1..Len(f) : i < b \/ e < i => \E j \in 1..Len(g) : g[j] = f[i]
            /\ \A j \in 1..Len(g) : \E i \in 1..Len(f) : (i < b \/ e < i) /\ g[j] = f[i]
        BY <3>3, <3>4
      <3> HIDE DEF g
      <3>6. g \in Seq(Lines)
        <4>1. \A j \in 1..Len(g) : g[j] \in Lines
          BY <2>4, <3>2, <3>5
        <4>2. g \in Seq(Elements)
          BY <3>5
        <4>3. QED
          BY <4>1, <4>2, OnlyLines
      <3>7. ASSUME Whole(f), NEW l \in Lines
            PROVE  l \in LinesOf(g) <=> l \in LinesOf(f)
        <4>1. f[b + 1] \in Entries /\ b + 2 \in 1..Len(f) /\ f[b + 2] = END
          BY <3>7, <2>1 DEF Whole
        <4>2. e = b + 2
          <5>1. e <= b + 2
            BY <2>1, <2>3, <2>7, <4>1
          <5>2. e # b /\ e # b + 1
            BY <2>1, <3>1, <4>1, ElementsDiffer
          <5>3. QED
            BY <5>1, <5>2, <3>1, <2>1
        <4>3. \A i \in 1..Len(f) : i < b \/ e < i \/ f[i] \notin Lines
          <5>1. \A i \in 1..Len(f) : i < b \/ e < i \/ i = b \/ i = b + 1 \/ i = b + 2
            BY <4>2, <2>1
          <5>2. QED
            BY <5>1, <4>1, <2>1, ElementsDiffer
        <4>4. (\E j \in 1..Len(g) : g[j] = l) <=> (\E i \in 1..Len(f) : f[i] = l)
          BY <4>3, <3>5
        <4>5. QED
          BY <4>4, <1>1, <3>5, LinesByPosition
      <3>8. Whole(f) => LinesOf(g) = LinesOf(f)
        <4>1. LinesOf(g) \subseteq Lines /\ LinesOf(f) \subseteq Lines
          BY DEF LinesOf
        <4>2. QED
          BY <3>7, <4>1
      <3>9. \E i \in 1..Len(f) : f[i] = END
        BY <2>1, <3>1
      <3>10. QED
        BY <3>6, <3>8, <3>9 DEF g
    <2>8. QED
      BY <2>6, <2>7
  <1>6. QED
    BY <1>4, <1>5

\* A file with a block behind it, by position.
LEMMA BlockElements ==
    ASSUME NEW f \in Seq(Elements), NEW names \in Entries
    PROVE  /\ f \o Block(names) \in Seq(Elements)
           /\ Len(f \o Block(names)) = Len(f) + 3
           /\ \A i \in 1..Len(f) : (f \o Block(names))[i] = f[i]
           /\ (f \o Block(names))[Len(f) + 1] = BEGIN
           /\ (f \o Block(names))[Len(f) + 2] = names
           /\ (f \o Block(names))[Len(f) + 3] = END
  <1> DEFINE s == Block(names)
             g == f \o s
  <1>1. s \in Seq(Elements) /\ Len(s) = 3 /\ s[1] = BEGIN /\ s[2] = names /\ s[3] = END
    BY DEF Block, Elements
  <1> HIDE DEF s
  <1>2. /\ g \in Seq(Elements) /\ Len(g) = Len(f) + 3
        /\ \A i \in 1..Len(f) + 3 : g[i] = IF i <= Len(f) THEN f[i] ELSE s[i - Len(f)]
    <2>1. /\ g \in Seq(Elements) /\ Len(g) = Len(f) + Len(s)
          /\ \A i \in 1..Len(f) + Len(s) : g[i] = IF i <= Len(f) THEN f[i] ELSE s[i - Len(f)]
      BY <1>1, ConcatProperties
    <2> HIDE DEF g
    <2>2. QED
      BY <2>1, <1>1
  <1> HIDE DEF g
  <1>3. Len(f) \in Nat
    OBVIOUS
  <1>4. \A i \in 1..Len(f) : g[i] = f[i]
    BY <1>2, <1>3
  <1>5. g[Len(f) + 1] = s[1] /\ g[Len(f) + 2] = s[2] /\ g[Len(f) + 3] = s[3]
    <2>1. /\ (Len(f) + 1) - Len(f) = 1 /\ (Len(f) + 2) - Len(f) = 2 /\ (Len(f) + 3) - Len(f) = 3
      BY <1>3
    <2>2. g[Len(f) + 1] = s[(Len(f) + 1) - Len(f)]
      BY <1>2, <1>3
    <2>3. g[Len(f) + 2] = s[(Len(f) + 2) - Len(f)]
      BY <1>2, <1>3
    <2>4. g[Len(f) + 3] = s[(Len(f) + 3) - Len(f)]
      BY <1>2, <1>3
    <2>5. QED
      BY <2>1, <2>2, <2>3, <2>4
  <1>6. QED
    BY <1>1, <1>2, <1>4, <1>5 DEF g, s

\* A block behind a file without an END.
LEMMA BlockAppended ==
    ASSUME NEW f, Tidy(f), \A i \in 1..Len(f) : f[i] # END, NEW names \in Entries
    PROVE  /\ Tidy(f \o Block(names))
           /\ \E i \in 1..Len(f \o Block(names)) : (f \o Block(names))[i] = END
           /\ \E i \in 1..Len(f \o Block(names)) : (f \o Block(names))[i] = names
           /\ LinesOf(f \o Block(names)) = LinesOf(f)
           /\ f \in Seq(Lines) => Whole(f \o Block(names)) /\ Strip(f \o Block(names)) = f
  <1> DEFINE g == f \o Block(names)
             n == Len(f)
  <1>1. f \in Seq(Elements) /\ n \in Nat
    BY DEF Tidy
  <1>2. /\ g \in Seq(Elements) /\ Len(g) = n + 3
        /\ \A i \in 1..n : g[i] = f[i]
        /\ g[n + 1] = BEGIN /\ g[n + 2] = names /\ g[n + 3] = END
    BY <1>1, BlockElements
  <1> HIDE DEF g
  <1>3. \A i \in 1..Len(g) : i \in 1..n \/ i = n + 1 \/ i = n + 2 \/ i = n + 3
    BY <1>1, <1>2
  <1>4. Tidy(g)
    <2>1. ASSUME NEW i \in 1..Len(g)
          PROVE  g[i] \in Lines \/ \E b \in 1..i : g[b] = BEGIN
      <3>1. CASE i \in 1..n
        <4>1. f[i] \in Lines \/ \E b \in 1..i : f[b] = BEGIN
          BY <3>1 DEF Tidy
        <4>2. \A b \in 1..i : b \in 1..n
          BY <3>1, <1>1
        <4>3. QED
          BY <4>1, <4>2, <3>1, <1>2
      <3>2. CASE i > n
        <4>1. n + 1 \in 1..i
          BY <3>2, <1>1
        <4>2. QED
          BY <4>1, <1>2
      <3>3. QED
        BY <3>1, <3>2, <1>1
    <2>2. ASSUME NEW e \in 1..Len(g), NEW i \in 1..Len(g), g[e] = END, e < i
          PROVE  g[i] \in Lines
      <3>1. e \notin 1..n
        BY <2>2, <1>2
      <3>2. e # n + 1 /\ e # n + 2
        BY <2>2, <1>2, ElementsDiffer
      <3>3. QED
        BY <3>1, <3>2, <2>2, <1>1, <1>2
    <2>3. QED
      BY <2>1, <2>2, <1>2 DEF Tidy
  <1>5. n + 2 \in 1..Len(g) /\ n + 3 \in 1..Len(g)
    BY <1>1, <1>2
  <1>6. LinesOf(g) = LinesOf(f)
    <2>1. ASSUME NEW l \in Lines
          PROVE  (\E i \in 1..Len(g) : g[i] = l) <=> (\E i \in 1..n : f[i] = l)
      <3>1. \A i \in 1..n : i \in 1..Len(g)
        BY <1>1, <1>2
      <3>2. \A i \in 1..Len(g) : g[i] = l => i \in 1..n
        BY <1>2, <1>3, ElementsDiffer
      <3>3. QED
        BY <3>1, <3>2, <1>2
    <2>2. \A l \in Lines : l \in LinesOf(g) <=> l \in LinesOf(f)
      BY <2>1, <1>1, <1>2, LinesByPosition
    <2>3. LinesOf(g) \subseteq Lines /\ LinesOf(f) \subseteq Lines
      BY DEF LinesOf
    <2>4. QED
      BY <2>2, <2>3
  <1>7. ASSUME f \in Seq(Lines)
        PROVE  Whole(g) /\ Strip(g) = f
    <2>1. \A i \in 1..n : g[i] \in Lines
      BY <1>7, <1>2
    <2>2. \A i \in 1..Len(g) : g[i] = BEGIN => i = n + 1
      BY <2>1, <1>2, <1>3, ElementsDiffer
    <2>3. \A i \in 1..Len(g) : g[i] = END => i = n + 3
      BY <2>1, <1>2, <1>3, ElementsDiffer
    <2>4. Whole(g)
      <3>1. /\ (n + 1) + 2 <= Len(g) /\ g[(n + 1) + 1] = names /\ g[(n + 1) + 2] = END
        BY <1>1, <1>2
      <3>2. QED
        BY <3>1, <2>2 DEF Whole
    <2> DEFINE b == FirstFrom(g, BEGIN, 1)
               e == FirstFrom(g, END, b)
    <2>5. b = n + 1
      <3>1. n + 1 \in 1..Len(g)
        BY <1>1, <1>2
      <3> HIDE DEF b
      <3>2. \/ b = 0 /\ \A i \in 1..Len(g) : g[i] # BEGIN
            \/ b \in 1..Len(g) /\ g[b] = BEGIN
        BY <1>2, FirstFound DEF b
      <3>3. QED
        BY <3>1, <3>2, <2>2, <1>2
    <2>6. e = n + 3
      <3>1. n + 3 \in b..Len(g) /\ b \in Nat \ {0} /\ b..Len(g) \subseteq 1..Len(g)
        BY <2>5, <1>1, <1>2
      <3> HIDE DEF b, e
      <3>2. \/ e = 0 /\ \A i \in b..Len(g) : g[i] # END
            \/ e \in b..Len(g) /\ g[e] = END
        BY <1>2, <3>1, FirstFound DEF e
      <3>3. QED
        BY <3>1, <3>2, <2>3, <1>2
    <2>7. Strip(g) = Without(g, n + 1, n + 3)
      <3>1. Strip(g) = IF b = 0 \/ e = 0 THEN g ELSE Without(g, b, e)
        BY DEF Strip
      <3> HIDE DEF b, e
      <3>2. QED
        BY <3>1, <2>5, <2>6, <1>1
    <2>8. /\ Without(g, n + 1, n + 3) \in Seq(Elements)
          /\ Len(Without(g, n + 1, n + 3)) = n
          /\ \A i \in 1..n : Without(g, n + 1, n + 3)[i] = g[i]
      <3>1. n + 1 \in 1..Len(g) /\ n + 3 \in n + 1..Len(g)
        BY <1>1, <1>2
      <3> DEFINE h == Without(g, n + 1, n + 3)
      <3>2. /\ h \in Seq(Elements) /\ Len(h) = Len(g) - ((n + 3) - (n + 1) + 1)
            /\ \A i \in 1..(n + 1) - 1 : h[i] = g[i]
        BY <3>1, <1>2, WithoutElements
      <3> HIDE DEF h
      <3>3. (n + 1) - 1 = n /\ Len(g) - ((n + 3) - (n + 1) + 1) = n
        BY <1>1, <1>2
      <3>4. h \in Seq(Elements) /\ Len(h) = n /\ \A i \in 1..n : h[i] = g[i]
        BY <3>2, <3>3
      <3>5. QED
        BY <3>4 DEF h
    <2>9. Without(g, n + 1, n + 3) = f
      BY <2>8, <1>1, <1>2, SeqEqual
    <2>10. QED
      BY <2>4, <2>7, <2>9
  <1>8. QED
    BY <1>2, <1>4, <1>5, <1>6, <1>7 DEF g

\* What a command writes.
LEMMA Rewritten ==
    ASSUME NEW f, Tidy(f), NEW names \in Entries, NEW action
    PROVE  /\ Tidy(NewContent(f, names, action))
           /\ Whole(f) => /\ Whole(NewContent(f, names, action))
                          /\ LinesOf(NewContent(f, names, action)) = LinesOf(f)
           /\ action # "remove" /\ names # {} =>
                \E i \in 1..Len(NewContent(f, names, action)) : NewContent(f, names, action)[i] = names
  <1>1. /\ Tidy(Strip(f)) /\ \A i \in 1..Len(Strip(f)) : Strip(f)[i] # END
        /\ Whole(f) => Whole(Strip(f)) /\ Strip(f) \in Seq(Lines) /\ LinesOf(Strip(f)) = LinesOf(f)
    <2>1. \/ Strip(f) \in Seq(Lines)
          \/ Strip(f) = f /\ \A i \in 1..Len(f) : f[i] # END
      BY StripTidy
    <2>2. CASE Strip(f) \in Seq(Lines)
      <3>1. Tidy(Strip(f)) /\ Whole(Strip(f))
        BY <2>2, OwnLinesTidy
      <3>2. \A i \in 1..Len(Strip(f)) : Strip(f)[i] # END
        BY <2>2, ElementsDiffer
      <3>3. QED
        BY <3>1, <3>2, <2>2, StripTidy
    <2>3. CASE Strip(f) = f /\ \A i \in 1..Len(f) : f[i] # END
      BY <2>3, StripTidy
    <2>4. QED
      BY <2>1, <2>2, <2>3
  <1>2. CASE action = "remove" \/ names = {}
    BY <1>1, <1>2 DEF NewContent
  <1>3. CASE ~(action = "remove" \/ names = {})
    <2>1. NewContent(f, names, action) = Strip(f) \o Block(names)
      BY <1>3 DEF NewContent
    <2>2. /\ Tidy(Strip(f) \o Block(names))
          /\ \E i \in 1..Len(Strip(f) \o Block(names)) : (Strip(f) \o Block(names))[i] = names
          /\ LinesOf(Strip(f) \o Block(names)) = LinesOf(Strip(f))
          /\ Strip(f) \in Seq(Lines) => Whole(Strip(f) \o Block(names))
      BY <1>1, BlockAppended
    <2>3. QED
      BY <2>1, <2>2, <1>1
  <1>4. QED
    BY <1>2, <1>3

\* What a write leaves that is cut off.
LEMMA PrefixTidy ==
    ASSUME NEW f, Tidy(f), NEW k \in 0..Len(f)
    PROVE  Tidy(SubSeq(f, 1, k))
  <1> DEFINE g == SubSeq(f, 1, k)
  <1>1. f \in Seq(Elements) /\ Len(f) \in Nat
    BY DEF Tidy
  <1>2. g \in Seq(Elements) /\ Len(g) = k /\ \A i \in 1..k : g[i] = f[i]
    <2>1. \A i \in 1..k : f[i] \in Elements
      BY <1>1
    <2>2. /\ g \in Seq(Elements) /\ Len(g) = IF 1 <= k THEN k - 1 + 1 ELSE 0
          /\ \A i \in 1..k - 1 + 1 : g[i] = f[1 + i - 1]
      BY <2>1, SubSeqProperties
    <2> HIDE DEF g
    <2>3. QED
      BY <2>2, <1>1
  <1> HIDE DEF g
  <1>3. ASSUME NEW i \in 1..Len(g)
        PROVE  g[i] \in Lines \/ \E b \in 1..i : g[b] = BEGIN
    <2>1. i \in 1..Len(f) /\ \A b \in 1..i : b \in 1..k
      BY <1>1, <1>2
    <2>2. f[i] \in Lines \/ \E b \in 1..i : f[b] = BEGIN
      BY <2>1 DEF Tidy
    <2>3. QED
      BY <2>1, <2>2, <1>2
  <1>4. ASSUME NEW e \in 1..Len(g), NEW i \in 1..Len(g), g[e] = END, e < i
        PROVE  g[i] \in Lines
    <2>1. i \in 1..Len(f) /\ e \in 1..Len(f) /\ g[i] = f[i] /\ g[e] = f[e]
      BY <1>1, <1>2
    <2>2. QED
      BY <2>1, <1>4 DEF Tidy
  <1>5. QED
    BY <1>2, <1>3, <1>4 DEF Tidy, g

\* A file with one more line, somewhere.
Adds(g, f, l, at) ==
    /\ g \in Seq(Elements) /\ Len(g) = Len(f) + 1
    /\ at \in 1..Len(f) + 1
    /\ \A i \in 1..at - 1 : g[i] = f[i]
    /\ g[at] = l
    /\ \A i \in at..Len(f) : g[i + 1] = f[i]

\* A line before everything else.
LEMMA AddedInFront ==
    ASSUME NEW f \in Seq(Elements), NEW l \in Lines
    PROVE  Adds(<<l>> \o f, f, l, 1)
  <1>1. l \in Elements
    BY DEF Elements
  <1>2. QED
    BY <1>1, Behind DEF Adds

\* A line after everything else.
LEMMA AddedBehind ==
    ASSUME NEW f \in Seq(Elements), NEW l \in Lines
    PROVE  Adds(Append(f, l), f, l, Len(f) + 1)
  <1>1. l \in Elements
    BY DEF Elements
  <1>2. QED
    BY <1>1, AppendProperties DEF Adds

\* Where a block stands in a file with one line more: at the first positions that are not the line's.
LEMMA LineAdded ==
    ASSUME NEW f, Tidy(f), NEW g, NEW l \in Lines, NEW at, Adds(g, f, l, at), at = 1 \/ at = Len(f) + 1
    PROVE  /\ Tidy(g)
           /\ Whole(f) => Whole(g)
           /\ LinesOf(g) = LinesOf(f) \cup {l}
           /\ \A i \in 1..Len(f) : \E j \in 1..Len(g) : g[j] = f[i]
  <1>1. /\ f \in Seq(Elements) /\ Len(f) \in Nat /\ g \in Seq(Elements) /\ Len(g) = Len(f) + 1
        /\ l # BEGIN /\ l # END
    BY ElementsDiffer DEF Tidy, Adds
  \* The position in f of what stands at j in g.
  <1> DEFINE from(j) == IF j < at THEN j ELSE j - 1
             to(i) == IF i < at THEN i ELSE i + 1
  <1>2. ASSUME NEW i \in 1..Len(f)
        PROVE  to(i) \in 1..Len(g) /\ to(i) # at /\ g[to(i)] = f[i]
    BY <1>1 DEF Adds
  <1>3. ASSUME NEW j \in 1..Len(g), j # at
        PROVE  from(j) \in 1..Len(f) /\ g[j] = f[from(j)] /\ to(from(j)) = j
    <2>1. CASE j < at
      BY <2>1, <1>1 DEF Adds
    <2>2. CASE at < j
      <3>1. j - 1 \in at..Len(f) /\ (j - 1) + 1 = j /\ at \in Nat /\ at >= 1
        BY <2>2, <1>1 DEF Adds
      <3>2. g[(j - 1) + 1] = f[j - 1]
        BY <3>1 DEF Adds
      <3>3. QED
        BY <3>1, <3>2, <2>2
    <2>3. QED
      BY <2>1, <2>2, <1>3, <1>1 DEF Adds
  <1>4. g[at] = l /\ at \in 1..Len(g)
    BY <1>1 DEF Adds
  <1>5. Tidy(g)
    <2>1. ASSUME NEW j \in 1..Len(g)
          PROVE  g[j] \in Lines \/ \E b \in 1..j : g[b] = BEGIN
      <3>1. CASE j = at
        BY <3>1, <1>4
      <3>2. CASE j # at /\ g[j] \notin Lines
        <4>1. from(j) \in 1..Len(f) /\ g[j] = f[from(j)]
          BY <3>2, <1>3
        <4>2. PICK b \in 1..from(j) : f[b] = BEGIN
          BY <4>1, <3>2 DEF Tidy
        <4>3. b \in 1..Len(f) /\ g[to(b)] = BEGIN
          BY <4>1, <4>2, <1>2
        <4>4. to(b) \in 1..j
          BY <4>1, <4>2, <1>1, <1>4
        <4>5. QED
          BY <4>3, <4>4
      <3>3. QED
        BY <3>1, <3>2
    <2>2. ASSUME NEW e \in 1..Len(g), NEW j \in 1..Len(g), g[e] = END, e < j
          PROVE  g[j] \in Lines
      <3>1. CASE j = at
        BY <3>1, <1>4
      <3>2. CASE j # at
        <4>1. e # at
          BY <2>2, <1>1, <1>4
        <4>2. from(e) \in 1..Len(f) /\ f[from(e)] = END /\ from(j) \in 1..Len(f) /\ g[j] = f[from(j)]
          BY <4>1, <3>2, <2>2, <1>3
        <4>3. from(e) < from(j)
          BY <4>1, <3>2, <2>2, <1>1, <1>4
        <4>4. QED
          BY <4>2, <4>3 DEF Tidy
      <3>3. QED
        BY <3>1, <3>2
    <2>3. QED
      BY <2>1, <2>2, <1>1 DEF Tidy
  <1>6. ASSUME Whole(f), NEW j \in 1..Len(g), g[j] = BEGIN
        PROVE  j + 2 <= Len(g) /\ g[j + 1] \in Entries /\ g[j + 2] = END
    <2>1. j # at
      BY <1>6, <1>1, <1>4
    <2> DEFINE b == from(j)
    <2>2. b \in 1..Len(f) /\ f[b] = BEGIN /\ to(b) = j
      BY <2>1, <1>6, <1>3
    <2>3. b + 2 <= Len(f) /\ f[b + 1] \in Entries /\ f[b + 2] = END
      BY <2>2, <1>6 DEF Whole
    <2>4. b + 1 \in 1..Len(f) /\ b + 2 \in 1..Len(f) /\ to(b + 1) = j + 1 /\ to(b + 2) = j + 2
      BY <2>2, <2>3, <1>1, <1>4
    <2> HIDE DEF b
    <2>5. g[to(b + 1)] = f[b + 1] /\ g[to(b + 2)] = f[b + 2] /\ to(b + 2) \in 1..Len(g)
      BY <2>4, <1>2
    <2> HIDE DEF to
    <2>6. QED
      BY <2>3, <2>4, <2>5, <1>1
  <1>7. LinesOf(g) = LinesOf(f) \cup {l}
    <2>1. ASSUME NEW m \in Lines
          PROVE  (\E j \in 1..Len(g) : g[j] = m) <=> m = l \/ (\E i \in 1..Len(f) : f[i] = m)
      <3>1. ASSUME NEW j \in 1..Len(g), g[j] = m
            PROVE  m = l \/ \E i \in 1..Len(f) : f[i] = m
        BY <3>1, <1>3, <1>4
      <3>2. ASSUME NEW i \in 1..Len(f), f[i] = m
            PROVE  \E j \in 1..Len(g) : g[j] = m
        BY <3>2, <1>2
      <3>3. QED
        BY <3>1, <3>2, <1>4
    <2>2. \A m \in Lines : m \in LinesOf(g) <=> m \in LinesOf(f) \cup {l}
      BY <2>1, <1>1, LinesByPosition
    <2>3. LinesOf(g) \subseteq Lines /\ LinesOf(f) \subseteq Lines
      BY DEF LinesOf
    <2>4. QED
      BY <2>2, <2>3
  <1>8. QED
    BY <1>2, <1>5, <1>6, <1>7 DEF Whole

\* A file with one line less.
LEMMA LineRemoved ==
    ASSUME NEW f, Tidy(f), NEW at \in 1..Len(f), NEW l \in Lines, f[at] = l
    PROVE  /\ Tidy(Without(f, at, at))
           /\ Whole(f) => Whole(Without(f, at, at))
           /\ LinesOf(f) = LinesOf(Without(f, at, at)) \cup {l}
           /\ \A i \in 1..Len(f) : f[i] \notin Lines =>
                 \E j \in 1..Len(Without(f, at, at)) : Without(f, at, at)[j] = f[i]
  <1> DEFINE g == Without(f, at, at)
             from(j) == IF j < at THEN j ELSE j + 1
             to(i) == IF i < at THEN i ELSE i - 1
  <1>1. f \in Seq(Elements) /\ Len(f) \in Nat /\ l # BEGIN /\ l # END /\ at \in at..Len(f)
    BY ElementsDiffer DEF Tidy
  <1>2. /\ g \in Seq(Elements) /\ Len(g) = Len(f) - 1
        /\ \A i \in 1..at - 1 : g[i] = f[i]
        /\ \A i \in at..Len(f) - 1 : g[i] = f[i + 1]
    <2>1. /\ g \in Seq(Elements) /\ Len(g) = Len(f) - (at - at + 1)
          /\ \A i \in 1..at - 1 : g[i] = f[i]
          /\ \A i \in at..Len(f) - (at - at + 1) : g[i] = f[i + (at - at + 1)]
      BY <1>1, WithoutElements
    <2>2. at - at + 1 = 1
      OBVIOUS
    <2> HIDE DEF g
    <2>3. QED
      BY <2>1, <2>2
  <1> HIDE DEF g
  <1>3. ASSUME NEW j \in 1..Len(g)
        PROVE  from(j) \in 1..Len(f) /\ from(j) # at /\ g[j] = f[from(j)] /\ to(from(j)) = j
    BY <1>1, <1>2
  <1>4. ASSUME NEW i \in 1..Len(f), i # at
        PROVE  to(i) \in 1..Len(g) /\ g[to(i)] = f[i] /\ from(to(i)) = i
    <2>1. CASE i < at
      BY <2>1, <1>1, <1>2
    <2>2. CASE at < i
      <3>1. i - 1 \in at..Len(f) - 1 /\ (i - 1) + 1 = i
        BY <2>2, <1>1
      <3>2. g[i - 1] = f[(i - 1) + 1]
        BY <3>1, <1>2
      <3>3. QED
        BY <3>1, <3>2, <2>2, <1>1, <1>2
    <2>3. QED
      BY <2>1, <2>2, <1>4
  <1>5. Tidy(g)
    <2>1. ASSUME NEW j \in 1..Len(g), g[j] \notin Lines
          PROVE  \E b \in 1..j : g[b] = BEGIN
      <3>1. from(j) \in 1..Len(f) /\ g[j] = f[from(j)]
        BY <1>3
      <3>2. PICK b \in 1..from(j) : f[b] = BEGIN
        BY <3>1, <2>1 DEF Tidy
      <3>3. b \in 1..Len(f) /\ b # at
        BY <3>1, <3>2, <1>1
      <3>4. g[to(b)] = BEGIN
        BY <3>2, <3>3, <1>4
      <3>5. to(b) \in 1..j
        BY <3>1, <3>2, <3>3, <1>1
      <3>6. QED
        BY <3>4, <3>5
    <2>2. ASSUME NEW e \in 1..Len(g), NEW j \in 1..Len(g), g[e] = END, e < j
          PROVE  g[j] \in Lines
      <3>1. from(e) \in 1..Len(f) /\ f[from(e)] = END /\ from(j) \in 1..Len(f) /\ g[j] = f[from(j)]
        BY <2>2, <1>3
      <3>2. from(e) < from(j)
        BY <2>2, <1>1, <1>2
      <3>3. QED
        BY <3>1, <3>2 DEF Tidy
    <2>3. QED
      BY <2>1, <2>2, <1>2 DEF Tidy
  <1>6. ASSUME Whole(f), NEW j \in 1..Len(g), g[j] = BEGIN
        PROVE  j + 2 <= Len(g) /\ g[j + 1] \in Entries /\ g[j + 2] = END
    <2> DEFINE b == from(j)
    <2>1. b \in 1..Len(f) /\ f[b] = BEGIN /\ to(b) = j /\ b # at
      BY <1>6, <1>3
    <2>2. b + 2 <= Len(f) /\ f[b + 1] \in Entries /\ f[b + 2] = END
      BY <2>1, <1>6 DEF Whole
    <2>3. b + 1 # at /\ b + 2 # at
      BY <2>2, ElementsDiffer
    <2>4. b + 1 \in 1..Len(f) /\ b + 2 \in 1..Len(f) /\ to(b + 1) = j + 1 /\ to(b + 2) = j + 2
      BY <2>1, <2>2, <2>3, <1>1
    <2> HIDE DEF b
    <2>5. g[to(b + 1)] = f[b + 1] /\ g[to(b + 2)] = f[b + 2] /\ to(b + 2) \in 1..Len(g)
      BY <2>3, <2>4, <1>4
    <2> HIDE DEF to
    <2>6. QED
      BY <2>2, <2>4, <2>5, <1>1, <1>2
  <1>7. LinesOf(f) = LinesOf(g) \cup {l}
    <2>1. ASSUME NEW m \in Lines
          PROVE  (\E i \in 1..Len(f) : f[i] = m) <=> m = l \/ (\E j \in 1..Len(g) : g[j] = m)
      <3>1. ASSUME NEW j \in 1..Len(g), g[j] = m
            PROVE  \E i \in 1..Len(f) : f[i] = m
        BY <3>1, <1>3
      <3>2. ASSUME NEW i \in 1..Len(f), f[i] = m
            PROVE  m = l \/ \E j \in 1..Len(g) : g[j] = m
        BY <3>2, <1>4
      <3>3. QED
        BY <3>1, <3>2
    <2>2. \A m \in Lines : m \in LinesOf(f) <=> m \in LinesOf(g) \cup {l}
      BY <2>1, <1>1, <1>2, LinesByPosition
    <2>3. LinesOf(g) \subseteq Lines /\ LinesOf(f) \subseteq Lines
      BY DEF LinesOf
    <2>4. QED
      BY <2>2, <2>3
  <1>8. ASSUME NEW i \in 1..Len(f), f[i] \notin Lines
        PROVE  \E j \in 1..Len(g) : g[j] = f[i]
    BY <1>4, <1>8
  <1>9. QED
    BY <1>5, <1>6, <1>7, <1>8 DEF Whole, g

\* An entry of the file is mapped.
LEMMA EntryMapped ==
    ASSUME NEW f \in Seq(Elements), NEW names \in Entries, \E i \in 1..Len(f) : f[i] = names
    PROVE  names \subseteq Mapped(f)
  <1>1. PICK i \in 1..Len(f) : f[i] = names
    OBVIOUS
  <1>2. i \in {j \in DOMAIN f : f[j] \notin Lines \cup {BEGIN, END}}
    BY <1>1, ElementsDiffer
  <1>3. QED
    BY <1>1, <1>2 DEF Mapped

\* A file of lines alone is not changed by remove, and gets the one block from apply.
LEMMA OnLines ==
    ASSUME NEW f \in Seq(Lines), NEW names \in Entries
    PROVE  /\ Strip(f) = f
           /\ names = {} => NewContent(f, names, "apply") = f
           /\ names # {} => /\ NewContent(f, names, "apply") = f \o Block(names)
                            /\ Strip(f \o Block(names)) = f
  <1>1. Tidy(f) /\ \A i \in 1..Len(f) : f[i] # END
    BY OwnLinesTidy, ElementsDiffer
  <1>2. Strip(f) = f
    BY <1>1, StripTidy
  <1>3. Strip(f \o Block(names)) = f
    BY <1>1, BlockAppended
  <1>4. QED
    BY <1>2, <1>3 DEF NewContent

\* What the command writes onto a tidy file, again and again.
LEMMA Converging ==
    ASSUME NEW f, Tidy(f), NEW names \in Entries,
           NEW once, once = NewContent(f, names, "apply"),
           NEW twice, twice = NewContent(once, names, "apply")
    PROVE  /\ names \subseteq Mapped(once)
           /\ NewContent(twice, names, "apply") = twice
           /\ Whole(f) => twice = once /\ Mapped(Strip(f)) = {}
  <1>1. Tidy(once) /\ (names # {} => \E i \in 1..Len(once) : once[i] = names)
    BY Rewritten
  <1>2. names \subseteq Mapped(once)
    <2>1. CASE names = {}
      BY <2>1
    <2>2. CASE names # {}
      <3>1. once \in Seq(Elements)
        BY <1>1 DEF Tidy
      <3>2. QED
        BY <3>1, <2>2, <1>1, EntryMapped
    <2>3. QED
      BY <2>1, <2>2
  \* From a file whose lines are all that stripping leaves, one apply is enough.
  <1>3. ASSUME NEW g, NEW h, Strip(g) \in Seq(Lines), h = NewContent(g, names, "apply")
        PROVE  NewContent(h, names, "apply") = h /\ Strip(h) \in Seq(Lines)
    <2>1. CASE names = {}
      <3>1. h = Strip(g)
        BY <2>1, <1>3 DEF NewContent
      <3>2. QED
        BY <3>1, <2>1, <1>3, OnLines
    <2>2. CASE names # {}
      <3>1. h = Strip(g) \o Block(names) /\ Strip(h) = Strip(g)
        BY <2>2, <1>3, OnLines DEF NewContent
      <3>2. QED
        BY <3>1, <2>2, <1>3 DEF NewContent
    <2>3. QED
      BY <2>1, <2>2
  <1>4. NewContent(twice, names, "apply") = twice
    <2>1. CASE Strip(f) \in Seq(Lines)
      BY <2>1, <1>3
    <2>2. CASE Strip(f) \notin Seq(Lines)
      <3>1. Strip(f) = f /\ \A i \in 1..Len(f) : f[i] # END
        BY <2>2, StripTidy
      <3>2. CASE names = {}
        BY <3>1, <3>2 DEF NewContent
      <3>3. CASE names # {}
        <4>1. once = f \o Block(names)
          BY <3>1, <3>3 DEF NewContent
        <4>2. \E i \in 1..Len(once) : once[i] = END
          BY <3>1, <4>1, BlockAppended
        <4>3. Strip(once) \in Seq(Lines)
          BY <4>2, <1>1, StripTidy
        <4>4. QED
          BY <4>3, <1>3
      <3>4. QED
        BY <3>2, <3>3
    <2>3. QED
      BY <2>1, <2>2
  <1>5. ASSUME Whole(f)
        PROVE  twice = once /\ Mapped(Strip(f)) = {}
    <2>1. Strip(f) \in Seq(Lines)
      BY <1>5, StripTidy
    <2>2. Mapped(Strip(f)) = {}
      <3>1. {j \in DOMAIN Strip(f) : Strip(f)[j] \notin Lines \cup {BEGIN, END}} = {}
        BY <2>1
      <3>2. QED
        BY <3>1 DEF Mapped
    <2>3. QED
      BY <2>1, <2>2, <1>3
  <1>6. QED
    BY <1>2, <1>4, <1>5

-----------------------------------------------------------------------------
\* A text with the lines their owners want, but for those nobody answers for.
Good(text, wanted, except, cut) ==
    /\ Tidy(text)
    /\ cut = 0 => Whole(text)
    /\ \A l \in Lines \ except : l \in wanted <=> l \in LinesOf(text)

\* A command between its read and its write.
Running(c, wanted, except, cut) ==
    /\ c # NoCommand
    /\ c.action \in {"apply", "remove"} /\ c.names \in Entries
    /\ c.action = "apply" => c.names # {}
    /\ c.text = Unread \/ Good(c.text, wanted, except, cut)

CommandsInv ==
    /\ cmd = [p \in Procs |-> cmd[p]]
    /\ \A p \in Procs : cmd[p] = NoCommand \/ Running(cmd[p], own, excused, torn)

FileInv ==
    /\ Good(file, own, excused, torn)
    /\ applied # {} => applied \in Entries /\ \E i \in 1..Len(file) : file[i] = applied

WitnessInv ==
    /\ own \subseteq Lines /\ excused \subseteq Lines
    /\ torn # 0 => excused = Lines
    /\ torn \in 0..MaxTorn /\ commands \in 0..MaxCommands /\ edits \in 0..MaxEdits

HostsInv == CommandsInv /\ FileInv /\ WitnessInv

\* The file as it is found.
LEMMA HostsInitInv == HostsInit => HostsInv
  <1> SUFFICES ASSUME HostsInit PROVE HostsInv
    OBVIOUS
  <1> USE DEF HostsInit
  <1>1. CommandsInv
    BY DEF CommandsInv
  <1>2. FileInv
    <2>1. Tidy(file) /\ Whole(file)
      BY HostsFileAssumption, OwnLinesTidy
    <2>2. QED
      BY <2>1 DEF FileInv, Good
  <1>3. WitnessInv
    BY HostsFileAssumption DEF WitnessInv, LinesOf
  <1>4. QED
    BY <1>1, <1>2, <1>3 DEF HostsInv

\* A command reads the file.
LEMMA CommandInv ==
    ASSUME HostsInv, NEW p \in Procs, NEW action \in {"apply", "remove"}, NEW wanted \in Entries,
           NEW readable \in BOOLEAN, Command(p, action, wanted, readable)
    PROVE  HostsInv'
  <1> USE DEF Command
  <1>1. UNCHANGED <<file, own, excused, torn, applied, edits>> /\ commands' = commands + 1
    OBVIOUS
  <1>2. PICK c : /\ c = [step |-> "read", action |-> action, names |-> wanted,
                         text |-> IF readable THEN file ELSE Unread]
                 /\ cmd' = [cmd EXCEPT ![p] = c]
    OBVIOUS
  <1>3. FileInv'
    BY <1>1 DEF HostsInv, FileInv
  <1>4. WitnessInv'
    BY <1>1, HostsFileAssumption DEF HostsInv, WitnessInv
  <1>5. Running(c, own, excused, torn)
    <2>1. c.step = "read" /\ NoCommand.step = "idle"
      BY <1>2 DEF NoCommand
    <2>2. c.action = action /\ c.names = wanted /\ c.text = IF readable THEN file ELSE Unread
      BY <1>2
    <2>3. action = "apply" => wanted # {}
      OBVIOUS
    <2>4. QED
      BY <2>1, <2>2, <2>3 DEF HostsInv, FileInv, Running
  <1>6. cmd' = [q \in Procs |-> cmd'[q]] /\ cmd'[p] = c /\ \A q \in Procs \ {p} : cmd'[q] = cmd[q]
    BY <1>2 DEF HostsInv, CommandsInv
  <1>7. CommandsInv'
    BY <1>1, <1>5, <1>6 DEF HostsInv, CommandsInv
  <1>8. QED
    BY <1>3, <1>4, <1>7 DEF HostsInv

\* A command ends without a write.
LEMMA NothingWrittenInv ==
    ASSUME HostsInv, NEW p \in Procs, NothingWritten(p)
    PROVE  HostsInv'
  <1> USE DEF NothingWritten
  <1>1. UNCHANGED <<file, own, excused, torn, applied, commands, edits>>
    OBVIOUS
  <1>2. CommandsInv'
    BY <1>1 DEF HostsInv, CommandsInv
  <1>3. QED
    BY <1>1, <1>2 DEF HostsInv, FileInv, WitnessInv

\* The text a command writes, of a whole, tidy file whole and tidy, with the lines it read.
LEMMA UpdatedGood ==
    ASSUME HostsInv, NEW p \in Procs, cmd[p] # NoCommand
    PROVE  /\ cmd[p].text # Unread => Good(Updated(p), own, excused, torn)
           /\ Good(Updated(p), own, excused \cup own, torn)
           /\ cmd[p].action = "apply" =>
                /\ cmd[p].names \in Entries
                /\ \E i \in 1..Len(Updated(p)) : Updated(p)[i] = cmd[p].names
  <1>1. Running(cmd[p], own, excused, torn)
    BY DEF HostsInv, CommandsInv
  <1> DEFINE text == IF cmd[p].text = Unread THEN <<>> ELSE cmd[p].text
             new == NewContent(text, cmd[p].names, cmd[p].action)
  <1>2. Updated(p) = new
    BY DEF Updated
  <1>3. cmd[p].names \in Entries /\ (cmd[p].action = "apply" => cmd[p].names # {})
    BY <1>1 DEF Running
  <1>4. /\ cmd[p].text # Unread => Good(text, own, excused, torn)
        /\ Good(text, own, excused \cup own, torn)
    <2>1. CASE cmd[p].text = Unread
      <3>1. text = <<>> /\ <<>> \in Seq(Lines) /\ LinesOf(<<>>) = {}
        BY <2>1 DEF LinesOf
      <3>2. Tidy(<<>>) /\ Whole(<<>>)
        BY <3>1, OwnLinesTidy
      <3>3. Good(<<>>, own, excused \cup own, torn)
        BY <3>1, <3>2 DEF Good
      <3>4. QED
        BY <2>1, <3>1, <3>3
    <2>2. CASE cmd[p].text # Unread
      <3>1. Good(text, own, excused, torn)
        BY <2>2, <1>1 DEF Running
      <3>2. QED
        BY <3>1 DEF Good
    <2>3. QED
      BY <2>1, <2>2
  <1> HIDE DEF text
  <1>5. /\ Tidy(text) => Tidy(new)
        /\ Tidy(text) /\ Whole(text) => Whole(new) /\ LinesOf(new) = LinesOf(text)
        /\ Tidy(text) /\ cmd[p].action = "apply" => \E i \in 1..Len(new) : new[i] = cmd[p].names
    BY <1>3, Rewritten
  <1> HIDE DEF new
  <1>6. torn # 0 => excused = Lines
    BY DEF HostsInv, WitnessInv
  <1>7. ASSUME NEW except, Good(text, own, except, torn), torn # 0 => Lines \subseteq except
        PROVE  Good(new, own, except, torn)
    BY <1>5, <1>7 DEF Good
  <1>8. QED
    BY <1>2, <1>3, <1>4, <1>5, <1>6, <1>7 DEF Good

\* A command writes the whole file back.
LEMMA WriteInv ==
    ASSUME HostsInv, NEW p \in Procs, Write(p)
    PROVE  HostsInv'
  <1> USE DEF Write
  <1>1. /\ cmd[p] # NoCommand /\ file' = Updated(p)
        /\ excused' = excused \cup (IF cmd[p].text = Unread THEN own ELSE {})
        /\ applied' = IF cmd[p].action = "apply" THEN cmd[p].names ELSE {}
        /\ UNCHANGED <<own, torn, commands, edits>>
    OBVIOUS
  <1>2. FileInv'
    <2>1. Good(Updated(p), own, excused', torn)
      <3>1. CASE cmd[p].text = Unread
        BY <3>1, <1>1, UpdatedGood
      <3>2. CASE cmd[p].text # Unread
        <4>1. excused' = excused
          BY <3>2, <1>1
        <4>2. QED
          BY <3>2, <4>1, <1>1, UpdatedGood
      <3>3. QED
        BY <3>1, <3>2
    <2>2. applied' # {} => applied' \in Entries /\ \E i \in 1..Len(file') : file'[i] = applied'
      BY <1>1, UpdatedGood
    <2>3. QED
      BY <2>1, <2>2, <1>1 DEF FileInv
  <1>3. WitnessInv'
    BY <1>1 DEF HostsInv, WitnessInv
  <1>4. CommandsInv'
    <2>1. /\ cmd' = [q \in Procs |-> cmd'[q]] /\ cmd'[p] = NoCommand
          /\ \A q \in Procs \ {p} : cmd'[q] = cmd[q]
      BY DEF HostsInv, CommandsInv
    <2>2. excused \subseteq excused'
      BY <1>1
    <2>3. ASSUME NEW c, Running(c, own, excused, torn)
          PROVE  Running(c, own', excused', torn')
      BY <2>2, <2>3, <1>1 DEF Running, Good
    <2>4. QED
      BY <2>1, <2>3 DEF HostsInv, CommandsInv
  <1>5. QED
    BY <1>2, <1>3, <1>4 DEF HostsInv

\* A write is cut off.
LEMMA TornWriteInv ==
    ASSUME HostsInv, NEW p \in Procs, TornWrite(p)
    PROVE  HostsInv'
  <1> USE DEF TornWrite
  <1>1. PICK kept \in 0..Len(Updated(p)) - 1 : file' = SubSeq(Updated(p), 1, kept)
    OBVIOUS
  <1>2. /\ cmd[p] # NoCommand /\ excused' = Lines /\ applied' = {} /\ torn' = torn + 1
        /\ torn < MaxTorn /\ UNCHANGED <<own, commands, edits>>
    OBVIOUS
  <1>3. torn \in Nat /\ torn' # 0 /\ torn' \in 0..MaxTorn
    BY <1>2, HostsFileAssumption DEF HostsInv, WitnessInv
  <1>4. Tidy(file')
    <2>1. Tidy(Updated(p))
      BY <1>2, UpdatedGood DEF Good
    <2>2. kept \in 0..Len(Updated(p))
      BY <2>1 DEF Tidy
    <2>3. QED
      BY <2>1, <2>2, <1>1, PrefixTidy
  <1>5. FileInv'
    BY <1>2, <1>3, <1>4 DEF FileInv, Good
  <1>6. WitnessInv'
    BY <1>2, <1>3 DEF HostsInv, WitnessInv
  <1>7. CommandsInv'
    <2>1. /\ cmd' = [q \in Procs |-> cmd'[q]] /\ cmd'[p] = NoCommand
          /\ \A q \in Procs \ {p} : cmd'[q] = cmd[q]
      BY DEF HostsInv, CommandsInv
    <2>2. ASSUME NEW c, Running(c, own, excused, torn)
          PROVE  Running(c, own', excused', torn')
      BY <2>2, <1>2, <1>3 DEF Running, Good
    <2>3. QED
      BY <2>1, <2>2 DEF HostsInv, CommandsInv
  <1>8. QED
    BY <1>5, <1>6, <1>7 DEF HostsInv

\* A change of a line by its owner excuses the line for every command that runs.
LEMMA OthersRun ==
    ASSUME HostsInv, NEW l \in Lines, Excuse(l), UNCHANGED <<cmd, torn>>,
           \A m \in Lines \ {l} : m \in own' <=> m \in own
    PROVE  CommandsInv'
  <1>1. ASSUME NEW q \in Procs, cmd[q] # NoCommand
        PROVE  Running(cmd[q], own', excused', torn')
    <2>1. excused' = excused \cup {l} /\ Running(cmd[q], own, excused, torn) /\ torn' = torn
      BY <1>1 DEF Excuse, HostsInv, CommandsInv
    <2>2. Good(cmd[q].text, own, excused, torn) => Good(cmd[q].text, own', excused', torn')
      BY <2>1 DEF Good
    <2>3. QED
      BY <2>1, <2>2 DEF Running
  <1>2. QED
    BY <1>1 DEF HostsInv, CommandsInv

\* A user adds a line.
LEMMA OwnerAddsInv ==
    ASSUME HostsInv, NEW l \in Lines, NEW first \in BOOLEAN, OwnerAdds(l, first)
    PROVE  HostsInv'
  <1> USE DEF OwnerAdds
  <1>1. /\ file' = IF first THEN <<l>> \o file ELSE Append(file, l)
        /\ own' = own \cup {l} /\ Excuse(l) /\ edits < MaxEdits /\ edits' = edits + 1
        /\ UNCHANGED <<cmd, torn, applied, commands>>
    OBVIOUS
  <1>2. Good(file, own, excused, torn) /\ file \in Seq(Elements)
    BY DEF HostsInv, FileInv, Good, Tidy
  <1>3. PICK at : (at = 1 \/ at = Len(file) + 1) /\ Adds(file', file, l, at)
    BY <1>1, <1>2, AddedInFront, AddedBehind
  <1>4. /\ Tidy(file') /\ (Whole(file) => Whole(file')) /\ LinesOf(file') = LinesOf(file) \cup {l}
        /\ \A i \in 1..Len(file) : \E j \in 1..Len(file') : file'[j] = file[i]
    <2>1. Tidy(file)
      BY <1>2 DEF Good
    <2>2. PICK g : g = file'
      OBVIOUS
    <2>3. Adds(g, file, l, at)
      BY <1>3, <2>2
    <2>4. /\ Tidy(g) /\ (Whole(file) => Whole(g)) /\ LinesOf(g) = LinesOf(file) \cup {l}
          /\ \A i \in 1..Len(file) : \E j \in 1..Len(g) : g[j] = file[i]
      BY <2>1, <2>3, <1>3, LineAdded
    <2>5. QED
      BY <2>2, <2>4
  <1>5. FileInv'
    <2>1. excused \subseteq excused'
      BY <1>1 DEF Excuse
    <2>2. Good(file', own', excused', torn')
      BY <1>1, <1>2, <1>4, <2>1 DEF Good
    <2>3. QED
      BY <2>2, <1>1, <1>4 DEF HostsInv, FileInv
  <1>6. WitnessInv'
    BY <1>1, HostsFileAssumption DEF HostsInv, WitnessInv, Excuse
  <1>7. CommandsInv'
    BY <1>1, OthersRun
  <1>8. QED
    BY <1>5, <1>6, <1>7 DEF HostsInv

\* A user takes a line out.
LEMMA OwnerRemovesInv ==
    ASSUME HostsInv, NEW l \in Lines, OwnerRemoves(l)
    PROVE  HostsInv'
  <1> USE DEF OwnerRemoves
  <1>1. /\ own' = own \ ({l} \ LinesOf(file')) /\ Excuse(l) /\ edits < MaxEdits
        /\ edits' = edits + 1 /\ UNCHANGED <<cmd, torn, applied, commands>>
    OBVIOUS
  <1>2. Good(file, own, excused, torn) /\ file \in Seq(Elements)
    BY DEF HostsInv, FileInv, Good, Tidy
  <1>3. PICK at \in 1..Len(file) : file[at] = l /\ file' = Without(file, at, at)
    BY <1>2
  <1>4. /\ Tidy(file') /\ (Whole(file) => Whole(file')) /\ LinesOf(file) = LinesOf(file') \cup {l}
        /\ \A i \in 1..Len(file) : file[i] \notin Lines => \E j \in 1..Len(file') : file'[j] = file[i]
    BY <1>2, <1>3, LineRemoved DEF Good
  <1>5. FileInv'
    <2>1. excused \subseteq excused'
      BY <1>1 DEF Excuse
    <2>2. Good(file', own', excused', torn')
      BY <1>1, <1>2, <1>4, <2>1 DEF Good
    <2>3. applied # {} => \E j \in 1..Len(file') : file'[j] = applied
      BY <1>4, ElementsDiffer DEF HostsInv, FileInv
    <2>4. QED
      BY <2>2, <2>3, <1>1 DEF HostsInv, FileInv
  <1>6. WitnessInv'
    BY <1>1, HostsFileAssumption DEF HostsInv, WitnessInv, Excuse
  <1>7. CommandsInv'
    BY <1>1, OthersRun
  <1>8. QED
    BY <1>5, <1>6, <1>7 DEF HostsInv

\* Every step at the file keeps the invariant.
LEMMA HostsStepInv ==
    ASSUME HostsInv, NEW wanted \in Entries, HostsStep(wanted)
    PROVE  HostsInv'
  BY CommandInv, NothingWrittenInv, WriteInv, TornWriteInv, OwnerAddsInv, OwnerRemovesInv
  DEF HostsStep

\* Steps elsewhere leave the file and the commands alone.
LEMMA HostsStutter ==
    ASSUME HostsInv, UNCHANGED hosts
    PROVE  HostsInv'
  BY DEF HostsInv, CommandsInv, FileInv, WitnessInv, hosts

-----------------------------------------------------------------------------
\* A request that was made has the answer of the configuration that runs.
ExchangeInv ==
    exchange # Nothing =>
        \/ /\ exchange.followed
           /\ exchange.link \in Advertised(config)
           /\ exchange.answer = IF Resolves(exchange.link.host)
                THEN Served(config, exchange.link.host, exchange.link.method, exchange.link.path)
                ELSE "unreachable"
           /\ exchange.answer \in Answers
        \/ /\ ~exchange.followed
           /\ exchange.path \in Paths
           /\ exchange.answer = Served(config, exchange.host, exchange.method, exchange.path)

ConfigInv ==
    /\ \E raw \in Raws : config = AssembleConfig(raw)
    /\ restarts \in 0..MaxRestarts

DomainsInv == HostsInv /\ ConfigInv /\ ExchangeInv

\* The handlers are all the answers there are.
LEMMA ServedAnswers ==
    ASSUME NEW c, NEW host, NEW method, NEW path
    PROVE  Served(c, host, method, path) \in Answers
  <1>1. ASSUME NEW m, NEW to
        PROVE  Routed(m, to) \in Answers
    <2> DEFINE handler == (CHOOSE r \in Fitting(m, to) : TRUE).handler
    <2>1. \/ Routed(m, to) = Fallback(m, to)
          \/ Routed(m, to) = "unknown tenant"
          \/ Fitting(m, to) # {} /\ Routed(m, to) = handler
      BY DEF Routed, Fitting
    <2>2. Fitting(m, to) # {} => \E r \in Routes : handler = r.handler
      BY DEF Fitting
    <2>3. \A r \in Routes : r.handler \in Answers
      BY RouteShapes, HandlersOfGraph DEF Answers
    <2> HIDE DEF handler
    <2>4. QED
      BY <2>1, <2>2, <2>3 DEF Fallback, Answers
  <1>2. QED
    BY <1>1 DEF Served, Answers

\* The invariant holds at the start.
LEMMA DomainsInitInv == DomainsInit => DomainsInv
  BY HostsInitInv, DomainsAssumption DEF DomainsInit, DomainsInv, ConfigInv, ExchangeInv

\* Any request is answered by Served.
LEMMA VisitInv ==
    ASSUME DomainsInv, NEW host, NEW method, NEW path \in Paths, Visit(host, method, path)
    PROVE  DomainsInv'
  <1> USE DEF Visit
  <1>1. HostsInv' /\ ConfigInv'
    BY HostsStutter DEF DomainsInv, ConfigInv
  <1>2. ExchangeInv'
    BY DEF ExchangeInv
  <1>3. QED
    BY <1>1, <1>2 DEF DomainsInv

\* A followed URL is one the running configuration hands out.
LEMMA FollowInv ==
    ASSUME DomainsInv, NEW link \in Advertised(config), Follow(link)
    PROVE  DomainsInv'
  <1> USE DEF Follow
  <1>1. HostsInv' /\ ConfigInv'
    BY HostsStutter DEF DomainsInv, ConfigInv
  <1>2. /\ file' = file /\ config' = config
    BY DEF hosts
  <1>3. /\ exchange'.followed = TRUE /\ exchange'.link = link
        /\ exchange'.answer = IF Resolves(link.host)
                THEN Served(config, link.host, link.method, link.path) ELSE "unreachable"
    OBVIOUS
  <1>4. exchange'.answer \in Answers
    BY <1>3, ServedAnswers DEF Answers
  <1>5. ExchangeInv'
    BY <1>2, <1>3, <1>4 DEF ExchangeInv, Resolves
  <1>6. QED
    BY <1>1, <1>5 DEF DomainsInv

\* Another configuration; the file stays.
LEMMA RestartInv ==
    ASSUME DomainsInv, NEW raw \in Raws, Restart(raw)
    PROVE  DomainsInv'
  <1> USE DEF Restart
  <1>1. HostsInv' /\ ExchangeInv'
    BY HostsStutter DEF DomainsInv, ExchangeInv
  <1>2. ConfigInv'
    BY DomainsAssumption DEF DomainsInv, ConfigInv
  <1>3. QED
    BY <1>1, <1>2 DEF DomainsInv

\* The command maps the names of the running configuration.
LEMMA EditHostsInv ==
    ASSUME DomainsInv, EditHosts
    PROVE  DomainsInv'
  <1> USE DEF EditHosts
  <1>1. DesiredNames(config) \in Entries
    BY DEF DomainsInv, ConfigInv, Entries
  <1>2. HostsInv'
    BY <1>1, HostsStepInv DEF DomainsInv
  <1>3. ConfigInv' /\ ExchangeInv'
    BY DEF DomainsInv, ConfigInv, ExchangeInv, domains
  <1>4. QED
    BY <1>2, <1>3 DEF DomainsInv

\* Every step keeps the invariant.
LEMMA DomainsStepInv == DomainsInv /\ [DomainsNext]_domainsVars => DomainsInv'
  <1> SUFFICES ASSUME DomainsInv, [DomainsNext]_domainsVars
               PROVE  DomainsInv'
    OBVIOUS
  <1>1. CASE EditHosts
    BY <1>1, EditHostsInv
  <1>2. CASE \E host \in Hosts(config) \cup OtherHosts, method \in {"GET", "POST"}, path \in Paths :
                Visit(host, method, path)
    BY <1>2, VisitInv
  <1>3. CASE \E link \in Advertised(config) : Follow(link)
    BY <1>3, FollowInv
  <1>4. CASE Forget
    <2>1. HostsInv' /\ ConfigInv'
      BY <1>4, HostsStutter DEF Forget, DomainsInv, ConfigInv
    <2>2. ExchangeInv'
      BY <1>4 DEF Forget, ExchangeInv
    <2>3. QED
      BY <2>1, <2>2 DEF DomainsInv
  <1>5. CASE \E raw \in Raws : Restart(raw)
    BY <1>5, RestartInv
  <1>6. CASE UNCHANGED domainsVars
    <2>1. HostsInv'
      BY <1>6, HostsStutter DEF DomainsInv, domainsVars
    <2>2. ConfigInv' /\ ExchangeInv'
      BY <1>6 DEF domainsVars, domains, hosts, DomainsInv, ConfigInv, ExchangeInv, Resolves
    <2>3. QED
      BY <2>1, <2>2 DEF DomainsInv
  <1>7. QED
    BY <1>1, <1>2, <1>3, <1>4, <1>5, <1>6 DEF DomainsNext

\* The invariant holds throughout.
LEMMA DomainsAlways == DomainsSpec => []DomainsInv
  BY DomainsInitInv, DomainsStepInv, PTL DEF DomainsSpec

\* The hosts command costs a user no line of the hosts file and brings none back, unless the file
\* could not be read, a write was cut off, or the line changed between the read and the write.
THEOREM LinesKept == DomainsSpec => []LinesKeptForCause
  <1>1. DomainsInv => LinesKeptForCause
    BY DEF DomainsInv, HostsInv, FileInv, Good, LinesKeptForCause
  <1>2. QED
    BY <1>1, DomainsAlways, PTL

\* Whatever was written before, under whatever configuration, and wherever a write was cut off:
\* applying maps the wanted names and comes to rest.
THEOREM AppliesConverge == DomainsSpec => []ApplyConverges
  <1>1. DomainsInv => DomainsTypeOK
    <2> SUFFICES ASSUME DomainsInv PROVE DomainsTypeOK
      OBVIOUS
    <2> DEFINE Files == Seq(Lines \cup {BEGIN, END} \cup SUBSET MappableNames)
    <2>1. Elements \subseteq Lines \cup {BEGIN, END} \cup SUBSET MappableNames
      BY DEF Elements, Entries, MappableNames
    <2>2. \A f : Tidy(f) => f \in Files
      BY <2>1, SeqMonotonic DEF Tidy
    <2>3. file \in Files
      BY <2>2 DEF DomainsInv, HostsInv, FileInv, Good
    <2>4. \A p \in Procs : cmd[p] = NoCommand \/ cmd[p].text \in Files \cup {Unread}
      BY <2>2 DEF DomainsInv, HostsInv, CommandsInv, Running, Good
    <2>5. applied \subseteq MappableNames
      BY DEF DomainsInv, HostsInv, FileInv, Entries, MappableNames
    <2>6. HostsTypeOK(MappableNames)
      BY <2>3, <2>4, <2>5 DEF HostsTypeOK, DomainsInv, HostsInv, WitnessInv
    <2>7. exchange # Nothing => exchange.answer \in Answers
      BY ServedAnswers DEF DomainsInv, ExchangeInv
    <2>8. QED
      BY <2>6, <2>7 DEF DomainsTypeOK, DomainsInv, ConfigInv
  <1>2. DomainsInv => ConvergesTo(DesiredNames(config))
    <2> SUFFICES ASSUME DomainsInv PROVE ConvergesTo(DesiredNames(config))
      OBVIOUS
    <2> DEFINE names == DesiredNames(config)
               once == NewContent(file, names, "apply")
               twice == NewContent(once, names, "apply")
    <2>1. names \in Entries /\ Tidy(file) /\ (torn = 0 => Whole(file)) /\ file \in Seq(Elements)
      BY DEF DomainsInv, ConfigInv, HostsInv, FileInv, Good, Tidy, Entries
    <2>2. applied \subseteq Mapped(file)
      <3>1. CASE applied = {}
        BY <3>1
      <3>2. CASE applied # {}
        BY <3>2, <2>1, EntryMapped DEF DomainsInv, HostsInv, FileInv
      <3>3. QED
        BY <3>1, <3>2
    <2>3. /\ names \subseteq Mapped(once) /\ NewContent(twice, names, "apply") = twice
          /\ Whole(file) => twice = once /\ Mapped(Strip(file)) = {}
      BY <2>1, Converging
    <2>4. QED
      BY <2>1, <2>2, <2>3 DEF ConvergesTo
  <1>3. DomainsInv => ApplyConverges
    BY <1>1, <1>2 DEF ApplyConverges
  <1>4. QED
    BY <1>3, DomainsAlways, PTL

\* A URL the server hands out reaches the handler it names, where the names are mapped.
THEOREM LinksReach == DomainsSpec => []AdvertisedReachable
  <1>1. DomainsInv => AdvertisedReachable
    <2> SUFFICES ASSUME DomainsInv, exchange # Nothing, exchange.followed,
                        Distinct(config) \/ OneOrigin(config),
                        DesiredNames(config) \subseteq Mapped(file)
                 PROVE  exchange.answer = exchange.link.handler
      BY DEF AdvertisedReachable
    <2> DEFINE link == exchange.link
    <2>1. link \in Advertised(config)
      BY DEF DomainsInv, ExchangeInv
    <2>2. link.host \in Hosts(config)
      <3>1. \A s \in Surfaces : \A m, p, h : Link(config, s, m, p, h).host \in Hosts(config)
        BY DEF Link, Hosts
      <3>2. \E s \in Surfaces : \E m, p, h : link = Link(config, s, m, p, h)
        <4>1. "login" \in Surfaces /\ "portal" \in Surfaces /\ "graph" \in Surfaces
          BY DEF Surfaces
        <4>2. QED
          BY <2>1, <4>1 DEF Advertised
      <3>3. QED
        BY <3>1, <3>2
    <2>3. Resolves(link.host)
      BY <2>2 DEF Resolves, DesiredNames
    <2>4. QED
      BY <2>1, <2>3, Reached DEF DomainsInv, ExchangeInv
  <1>2. QED
    BY <1>1, DomainsAlways, PTL

\* Each surface answers on its own host, and no tenant route for another tenant.
THEOREM SurfacesApart == DomainsSpec => []SurfacesKeptApart
  <1>1. DomainsInv => SurfacesKeptApart
    <2> SUFFICES ASSUME DomainsInv, exchange # Nothing, ~exchange.followed
                 PROVE  SurfacesKeptApart
      BY DEF SurfacesKeptApart
    <2>1. /\ exchange.path \in Seq(Parts)
          /\ exchange.answer = Served(config, exchange.host, exchange.method, exchange.path)
      BY PartsOfRoutes DEF DomainsInv, ExchangeInv
    <2>2. QED
      BY <2>1, KeptApart DEF SurfacesKeptApart
  <1>2. QED
    BY <1>1, DomainsAlways, PTL
==============================================================================
