--------------------------- MODULE ClientsProofs ---------------------------
(* What the constructors make of TLS material and settings, proved for any key
   stores, arguments of LoadJKS, sizes, durations and lists of group balancers. *)
EXTENDS Clients, FiniteSetTheorems, TLAPS

(* Everything a script has came out of a key store. *)
LoadInv == \A m \in jks : \E cfg \in JKSConfigs : Readable(cfg) /\ m = JksToPEM(cfg)

IInv == /\ LoadInv
        /\ last.kind = "none" => last = NoCall
        /\ LoadedIdentityUsable /\ TLSAsConfigured

-----------------------------------------------------------------------------
(* Loaded material. *)

(* The certificate that LoadJKS returns first belongs to the key it returns. *)
LEMMA LoadedPairs ==
  ASSUME NEW cfg, Readable(cfg), NEW m, m = JksToPEM(cfg)
  PROVE  /\ m.clientKeyPem # None =>
              m.clientKeyPem[1] = "key" /\ Leaf(m) = <<"cert", m.clientKeyPem[2]>>
         /\ m.serverCaPem # None => m.serverCaPem[1] = "cert"
<1> DEFINE entries == KeyStores[cfg.path].entries
           keyed == cfg.clientKeyAlias # ""
           entry == entries[cfg.clientKeyAlias]
<1>1. /\ m.clientKeyPem = IF keyed THEN <<"key", entry.identity>> ELSE None
      /\ m.clientCertsPem = IF keyed THEN entry.chain ELSE <<>>
      /\ m.serverCaPem = IF cfg.serverCaAlias # "" THEN <<"cert", entries[cfg.serverCaAlias].identity>> ELSE None
  BY DEF JksToPEM, Material, ClientChain
<1>2. keyed => entry.chain # <<>> /\ entry.chain[1] = <<"cert", entry.identity>>
  BY ChainAssumption DEF Readable, Has
<1> HIDE DEF entries, keyed, entry
<1>3. ASSUME m.serverCaPem # None
      PROVE  m.serverCaPem[1] = "cert"
  <2>1. m.serverCaPem = <<"cert", entries[cfg.serverCaAlias].identity>>
    BY <1>1, <1>3
  <2> QED BY <2>1
<1>4. ASSUME m.clientKeyPem # None
      PROVE  m.clientKeyPem[1] = "key" /\ Leaf(m) = <<"cert", m.clientKeyPem[2]>>
  <2>1. keyed /\ m.clientKeyPem = <<"key", entry.identity>> /\ m.clientCertsPem = entry.chain
    BY <1>1, <1>4
  <2>2. Leaf(m) = <<"cert", entry.identity>>
    BY <1>2, <2>1 DEF Leaf
  <2> QED BY <2>1, <2>2
<1> QED BY <1>3, <1>4

-----------------------------------------------------------------------------
(* The options of a client. *)

(* The fields of the outcomes of tlsConfigFrom, and of Go's default. *)
LEMMA TLSFields ==
  /\ NoTLS.on = FALSE
  /\ DefaultTLS.on = TRUE /\ DefaultTLS.identity = "" /\ DefaultTLS.ca = ""
  /\ \A tc : /\ TlsConfigFrom(tc).on = TRUE
             /\ TlsConfigFrom(tc).identity = tc.clientCertPem[2]
             /\ TlsConfigFrom(tc).ca = tc.serverCaPem[2]
<1>1. DefaultTLS.on = TRUE /\ DefaultTLS.identity = "" /\ DefaultTLS.ca = ""
  BY DEF NoTLS, DefaultTLS
<1>2. /\ NoTLS.on = FALSE
      /\ \A tc : /\ TlsConfigFrom(tc).on = TRUE
                 /\ TlsConfigFrom(tc).identity = tc.clientCertPem[2]
                 /\ TlsConfigFrom(tc).ca = tc.serverCaPem[2]
  BY Zenon DEF NoTLS, TlsConfigFrom
<1> QED BY <1>1, <1>2

(* What a section makes of a client that uses it. *)
FromSection(tls, tc) ==
  /\ tls.ca = tc.serverCaPem[2]
  /\ IF tc.clientKeyPem = None THEN tls.identity = ""
     ELSE tc.clientKeyPem[1] = "key" /\ tc.clientKeyPem[2] = tls.identity

(* A section that is accepted has no certificate but the one of its key. *)
LEMMA SectionUsed ==
  ASSUME NEW tc, TlsValid(tc), NEW tls, tls = TlsConfigFrom(tc)
  PROVE  /\ tls.on = TRUE /\ FromSection(tls, tc)
         /\ tls.identity = tc.clientCertPem[2]
<1>1. tls.on = TRUE /\ tls.identity = tc.clientCertPem[2] /\ tls.ca = tc.serverCaPem[2]
  BY TLSFields
<1>2. CASE tc.clientKeyPem = None
  <2>1. None[1] = "none" /\ None[2] = ""
    BY DEF None
  <2>2. tc.clientCertPem = None
    BY <1>2, <2>1 DEF TlsValid, KeyPair
  <2> QED BY <1>1, <1>2, <2>1, <2>2 DEF FromSection
<1>3. CASE tc.clientKeyPem # None
  <2>1. KeyPair(tc.clientCertPem, tc.clientKeyPem)
    BY <1>3 DEF TlsValid
  <2> QED BY <1>1, <1>3, <2>1 DEF FromSection, KeyPair
<1> QED BY <1>2, <1>3

(* A Kafka client encrypts exactly when its tls section is enabled, with the
   section's identity and CA, and always under sasl_ssl. *)
LEMMA KafkaTLS ==
  ASSUME NEW cfg, NEW hooked, ClientValid(cfg), NEW tls, tls = ClientOptions(cfg, hooked).tls
  PROVE  /\ cfg.sasl # NoSection /\ cfg.sasl.algorithm = "sasl_ssl" => tls.on
         /\ tls.on <=> cfg.tls # NoSection /\ cfg.tls.enableTLS
         /\ tls.on \in BOOLEAN
         /\ tls.on => FromSection(tls, cfg.tls) /\ tls.identity = cfg.tls.clientCertPem[2]
<1>1. tls = IF WantsTLS(cfg.tls) THEN TlsConfigFrom(cfg.tls) ELSE NoTLS
  BY DEF ClientOptions
<1>2. CASE WantsTLS(cfg.tls)
  <2>1. tls = TlsConfigFrom(cfg.tls) /\ TlsValid(cfg.tls)
    BY <1>1, <1>2 DEF ClientValid
  <2>2. tls.on = TRUE /\ FromSection(tls, cfg.tls) /\ tls.identity = cfg.tls.clientCertPem[2]
    BY <2>1, SectionUsed
  <2> QED BY <1>2, <2>2 DEF WantsTLS
<1>3. CASE ~WantsTLS(cfg.tls)
  <2>1. tls.on = FALSE
    <3>1. tls = NoTLS
      BY <1>1, <1>3
    <3> QED BY <3>1, TLSFields
  <2>2. ~(cfg.sasl # NoSection /\ cfg.sasl.algorithm = "sasl_ssl")
    BY <1>3 DEF ClientValid, SaslValid
  <2> QED BY <1>3, <2>1, <2>2 DEF WantsTLS
<1> QED BY <1>2, <1>3

(* The settings a section is made of. *)
LEMMA SectionParts ==
  ASSUME NEW t \in Sections
  PROVE  t.minVersion \in {"", "tlsv1.2", "sslv3"}
<1>1. \E on \in BOOLEAN, min \in MinVersions, cert \in Certs, key \in Keys, ca \in CAs :
        t = Section(on, min, cert, key, ca)
  BY DEF Sections
<1>2. \A on, min, cert, key, ca : Section(on, min, cert, key, ca).minVersion = min
  BY DEF Section
<1>3. t.minVersion \in MinVersions
  BY <1>1, <1>2
<1> QED BY <1>3 DEF MinVersions

(* A section with a key that LoadJKS returned, and the certificate and CA that
   came with it, is a valid one. *)
LEMMA LoadedIsValid ==
  ASSUME LoadInv, NEW m \in jks, NEW t \in Sections, m.clientKeyPem # None,
         t.clientKeyPem = m.clientKeyPem, t.clientCertPem = Leaf(m),
         t.serverCaPem = m.serverCaPem, t.minVersion # "sslv3"
  PROVE  TlsValid(t) /\ t.clientCertPem[2] = m.clientKeyPem[2]
<1>1. /\ m.clientKeyPem[1] = "key" /\ Leaf(m) = <<"cert", m.clientKeyPem[2]>>
      /\ m.serverCaPem # None => m.serverCaPem[1] = "cert"
  BY LoadedPairs DEF LoadInv
<1>2. t.minVersion \in {"", "tlsv1.2", "sslv3"}
  BY SectionParts
<1>3. t.minVersion \in TlsVersions \cup {""}
  BY <1>2 DEF TlsVersions
<1>4. KeyPair(t.clientCertPem, t.clientKeyPem)
  BY <1>1 DEF KeyPair
<1>5. t.clientCertPem[2] = m.clientKeyPem[2]
  BY <1>1
<1>6. TlsValid(t)
  BY <1>1, <1>3, <1>4 DEF TlsValid
<1> QED BY <1>5, <1>6

-----------------------------------------------------------------------------
(* The configurations of scripts. *)

(* The sections that go with SASL settings have no key. *)
LEMMA PlainHasNoKey == \A t \in Plain : t # NoSection => t.clientKeyPem = None
<1>1. \A on : Section(on, "", None, None, None).clientKeyPem = None
  BY DEF Section
<1> QED BY <1>1 DEF Plain

(* What Secured makes of a default. *)
LEMMA SecuredForms ==
  ASSUME NEW d, NEW cfg \in Secured(d)
  PROVE  \/ \E t \in Sections : cfg = WithTLS(d, t)
         \/ \E t \in Plain, a \in SaslConfigs : cfg = WithSASL(d, t, a)
BY DEF Secured

(* A configuration that Secured makes of a default and that has a key is the
   default with a section. *)
LEMMA SecuredWithKey ==
  ASSUME NEW d, NEW cfg \in Secured(d), cfg.tls # NoSection, cfg.tls.clientKeyPem # None,
         \A t, a : WithSASL(d, t, a).tls = t
  PROVE  \E t \in Sections : cfg = WithTLS(d, t)
<1>1. ASSUME NEW t \in Plain, NEW a \in SaslConfigs, cfg = WithSASL(d, t, a)
      PROVE  FALSE
  <2>1. cfg.tls = t
    BY <1>1
  <2> QED BY <2>1, PlainHasNoKey
<1> QED BY <1>1, SecuredForms

(* A writer's configuration that has a key is the default with a section. *)
LEMMA WriterWithKey ==
  ASSUME NEW cfg \in WriterConfigs, cfg.tls # NoSection, cfg.tls.clientKeyPem # None
  PROVE  \E t \in Sections : cfg = WithTLS(DefaultWriter, t)
<1>1. \A t, a : WithSASL(DefaultWriter, t, a).tls = t
  BY DEF DefaultWriter, WithSASL
<1>2. /\ [DefaultWriter EXCEPT !.brokers = {}].tls = NoSection
      /\ \A c, b : Compressing(c, b).tls = NoSection
      /\ \A a, n, z : Acknowledged(a, n, z).tls = NoSection
      /\ \A d, w : Timed(d, w).tls = NoSection
  BY DEF DefaultWriter, Compressing, Acknowledged, Timed
<1>3. /\ \A c \in CodecSettings : c.tls = NoSection
      /\ \A c \in AckSettings : c.tls = NoSection
      /\ \A c \in TimeSettings : c.tls = NoSection
  <2>1. \A x \in CodecSettings : \E c, b : x = Compressing(c, b)
    BY DEF CodecSettings
  <2>2. \A x \in AckSettings : \E a, n, z : x = Acknowledged(a, n, z)
    BY DEF AckSettings
  <2>3. \A x \in TimeSettings : \E d, w : x = Timed(d, w)
    BY DEF TimeSettings
  <2> QED BY <1>2, <2>1, <2>2, <2>3
<1>4. cfg \in Secured(DefaultWriter)
  BY <1>2, <1>3 DEF WriterConfigs
<1> QED BY <1>1, <1>4, SecuredWithKey

(* The same for a reader. *)
LEMMA ReaderWithKey ==
  ASSUME NEW cfg \in ReaderConfigs, cfg.tls # NoSection, cfg.tls.clientKeyPem # None
  PROVE  \E t \in Sections : cfg = WithTLS(DefaultReader, t)
<1>1. \A t, a : WithSASL(DefaultReader, t, a).tls = t
  BY DEF DefaultReader, WithSASL
<1>2. /\ \A t, g, gt, b : Grouped(t, g, gt, b).tls = NoSection
      /\ \A z, y, i : Fetching(z, y, i).tls = NoSection
      /\ \A g, d : Paced(g, d).tls = NoSection
      /\ \A s, o, w, n : Started(s, o, w, n).tls = NoSection
      /\ [DefaultReader EXCEPT !.brokers = {}].tls = NoSection
  BY DEF DefaultReader, Grouped, Fetching, Paced, Started
<1>3. /\ \A c \in GroupSettings : c.tls = NoSection
      /\ \A c \in FetchSettings : c.tls = NoSection
      /\ \A c \in PaceSettings : c.tls = NoSection
      /\ \A c \in StartSettings : c.tls = NoSection
  <2>1. \A x \in GroupSettings : \E t, g, gt, b : x = Grouped(t, g, gt, b)
    BY DEF GroupSettings
  <2>2. \A x \in FetchSettings : \E z, y, i : x = Fetching(z, y, i)
    BY DEF FetchSettings
  <2>4. \A x \in PaceSettings : \E g, d : x = Paced(g, d)
    BY DEF PaceSettings
  <2>3. \A x \in StartSettings : \E s, o, w, n : x = Started(s, o, w, n)
    BY DEF StartSettings
  <2> QED BY <1>2, <2>1, <2>2, <2>3, <2>4
<1>4. cfg \in Secured(DefaultReader)
  BY <1>2, <1>3 DEF ReaderConfigs
<1> QED BY <1>1, <1>4, SecuredWithKey

(* And for a connection. *)
LEMMA ConnectionWithKey ==
  ASSUME NEW cfg \in ConnectionConfigs, cfg.tls # NoSection, cfg.tls.clientKeyPem # None
  PROVE  \E t \in Sections : cfg = WithTLS(DefaultConnection, t)
<1>1. \A t, a : WithSASL(DefaultConnection, t, a).tls = t
  BY DEF DefaultConnection, WithSASL
<1> QED BY <1>1, SecuredWithKey DEF ConnectionConfigs

-----------------------------------------------------------------------------
(* The constructors.  The two properties, of a call and its outcome. *)

UsableIn(kind, cfg, opts) ==
  cfg.tls # NoSection =>
    \A m \in jks :
      /\ m.clientKeyPem # None /\ cfg.tls.clientKeyPem = m.clientKeyPem
      /\ cfg.tls.clientCertPem = Leaf(m)
      /\ cfg.tls.serverCaPem = m.serverCaPem
      /\ cfg.tls.minVersion # "sslv3"
      /\ kind = "registry" => cfg.url # ""
      => opts # Refused /\ (opts.client.tls.on => opts.client.tls.identity = m.clientKeyPem[2])

AsConfigured(kind, cfg, opts) ==
  opts # Refused =>
    LET tls == opts.client.tls IN
    /\ cfg.sasl # NoSection /\ cfg.sasl.algorithm = "sasl_ssl" => tls.on
    /\ kind = "registry" => tls.on = (cfg.url = "https")
    /\ kind # "registry" => tls.on = (cfg.tls # NoSection /\ cfg.tls.enableTLS)
    /\ tls.on /\ cfg.tls = NoSection => tls.identity = "" /\ tls.ca = ""
    /\ tls.on /\ cfg.tls # NoSection => FromSection(tls, cfg.tls)

(* A Kafka client that is made has the TLS of its configuration. *)
LEMMA KafkaAsConfigured ==
  ASSUME NEW kind \in {"writer", "reader", "connection"}, NEW cfg, NEW opts, NEW hooked,
         opts # Refused => ClientValid(cfg) /\ opts.client = ClientOptions(cfg, hooked)
  PROVE  AsConfigured(kind, cfg, opts)
<1> SUFFICES ASSUME opts # Refused PROVE AsConfigured(kind, cfg, opts)
  BY DEF AsConfigured
<1> DEFINE tls == opts.client.tls
<1>1. tls = ClientOptions(cfg, hooked).tls /\ ClientValid(cfg)
  OBVIOUS
<1> HIDE DEF tls
<1>2. /\ cfg.sasl # NoSection /\ cfg.sasl.algorithm = "sasl_ssl" => tls.on
      /\ tls.on <=> cfg.tls # NoSection /\ cfg.tls.enableTLS
      /\ tls.on \in BOOLEAN
      /\ tls.on => FromSection(tls, cfg.tls)
  BY <1>1, KafkaTLS
<1> QED BY <1>2 DEF AsConfigured, tls

(* A client with loaded material is not refused for it, and presents the key's
   identity. *)
LEMMA LoadedOpens ==
  ASSUME LoadInv, NEW m \in jks, NEW cfg, cfg.tls \in Sections, cfg.sasl = NoSection,
         m.clientKeyPem # None, cfg.tls.clientKeyPem = m.clientKeyPem,
         cfg.tls.clientCertPem = Leaf(m), cfg.tls.serverCaPem = m.serverCaPem,
         cfg.tls.minVersion # "sslv3"
  PROVE  /\ ClientValid(cfg)
         /\ \A hooked : LET tls == ClientOptions(cfg, hooked).tls IN
                         tls.on => tls.identity = m.clientKeyPem[2]
<1>1. TlsValid(cfg.tls) /\ cfg.tls.clientCertPem[2] = m.clientKeyPem[2]
  BY LoadedIsValid
<1>2. ClientValid(cfg)
  BY <1>1 DEF ClientValid, SaslValid
<1>3. ASSUME NEW hooked, NEW tls, tls = ClientOptions(cfg, hooked).tls, tls.on
      PROVE  tls.identity = m.clientKeyPem[2]
  BY <1>1, <1>2, <1>3, KafkaTLS
<1> QED BY <1>2, <1>3

(* NewWriter keeps both properties. *)
LEMMA WriterKeeps ==
  ASSUME LoadInv, NEW cfg \in WriterConfigs
  PROVE  UsableIn("writer", cfg, OpenWriter(cfg)) /\ AsConfigured("writer", cfg, OpenWriter(cfg))
<1> DEFINE opts == OpenWriter(cfg)
<1>1. opts # Refused => ClientValid(cfg) /\ opts.client = ClientOptions(cfg, Collects)
  BY DEF OpenWriter
<1>2. AsConfigured("writer", cfg, opts)
  <2> HIDE DEF opts
  <2> QED BY <1>1, KafkaAsConfigured
<1>3. UsableIn("writer", cfg, opts)
  <2> SUFFICES ASSUME cfg.tls # NoSection, NEW m \in jks,
                      m.clientKeyPem # None, cfg.tls.clientKeyPem = m.clientKeyPem,
                      cfg.tls.clientCertPem = Leaf(m), cfg.tls.serverCaPem = m.serverCaPem,
                      cfg.tls.minVersion # "sslv3"
               PROVE  opts # Refused /\ (opts.client.tls.on => opts.client.tls.identity = m.clientKeyPem[2])
    BY DEF UsableIn
  <2>1. PICK t \in Sections : cfg = WithTLS(DefaultWriter, t)
    BY WriterWithKey
  <2>2. /\ cfg.tls = t /\ cfg.sasl = NoSection
        /\ cfg.brokers = {"b"} /\ cfg.requiredAcks = -1 /\ cfg.maxAttempts = Absent
    BY <2>1 DEF WithTLS, DefaultWriter
  <2>3. /\ ClientValid(cfg)
        /\ \A hooked : LET tls == ClientOptions(cfg, hooked).tls IN
                        tls.on => tls.identity = m.clientKeyPem[2]
    BY <2>2, LoadedOpens
  <2>4. opts.kind = "writer"
    BY <2>2, <2>3 DEF OpenWriter, NewProducerAccepts, AttemptsValid
  <2>5. Refused.kind = "refused"
    BY DEF Refused
  <2> HIDE DEF opts
  <2> QED BY <1>1, <2>3, <2>4, <2>5
<1> QED BY <1>2, <1>3

(* NewReader keeps both properties. *)
LEMMA ReaderKeeps ==
  ASSUME LoadInv, NEW cfg \in ReaderConfigs
  PROVE  UsableIn("reader", cfg, OpenReader(cfg)) /\ AsConfigured("reader", cfg, OpenReader(cfg))
<1> DEFINE opts == OpenReader(cfg)
<1>1. opts # Refused => ClientValid(cfg) /\ opts.client = ClientOptions(cfg, Collects)
  BY DEF OpenReader
<1>2. AsConfigured("reader", cfg, opts)
  <2> HIDE DEF opts
  <2> QED BY <1>1, KafkaAsConfigured
<1>3. UsableIn("reader", cfg, opts)
  <2> SUFFICES ASSUME cfg.tls # NoSection, NEW m \in jks,
                      m.clientKeyPem # None, cfg.tls.clientKeyPem = m.clientKeyPem,
                      cfg.tls.clientCertPem = Leaf(m), cfg.tls.serverCaPem = m.serverCaPem,
                      cfg.tls.minVersion # "sslv3"
               PROVE  opts # Refused /\ (opts.client.tls.on => opts.client.tls.identity = m.clientKeyPem[2])
    BY DEF UsableIn
  <2>1. PICK t \in Sections : cfg = WithTLS(DefaultReader, t)
    BY ReaderWithKey
  <2>2. /\ cfg.tls = t /\ cfg.sasl = NoSection
        /\ cfg.brokers = {"b"} /\ cfg.topic = "t" /\ cfg.offset = Absent
        /\ cfg.maxWait = "" /\ cfg.maxAttempts = Absent
    BY <2>1 DEF WithTLS, DefaultReader
  <2>3. /\ ClientValid(cfg)
        /\ \A hooked : LET tls == ClientOptions(cfg, hooked).tls IN
                        tls.on => tls.identity = m.clientKeyPem[2]
    BY <2>2, LoadedOpens, ZenonT(30)
  <2>4. opts.kind = "reader"
    <3>1. cfg.brokers # {}
      BY <2>2, Zenon
    <3>2. cfg.topic # "" /\ cfg.maxWait # "unparseable"
      BY <2>2
    <3>3. AttemptsValid(cfg.maxAttempts)
      BY <2>2, Zenon DEF AttemptsValid
    <3> QED BY <2>2, <2>3, <3>1, <3>2, <3>3 DEF OpenReader
  <2>5. Refused.kind = "refused"
    BY DEF Refused
  <2> HIDE DEF opts
  <2> QED BY <1>1, <2>3, <2>4, <2>5
<1> QED BY <1>2, <1>3

(* NewConnection keeps both properties. *)
LEMMA ConnectionKeeps ==
  ASSUME LoadInv, NEW cfg \in ConnectionConfigs
  PROVE  /\ UsableIn("connection", cfg, OpenConnection(cfg))
         /\ AsConfigured("connection", cfg, OpenConnection(cfg))
<1> DEFINE opts == OpenConnection(cfg)
<1>1. opts # Refused => ClientValid(cfg) /\ opts.client = ClientOptions(cfg, FALSE)
  BY DEF OpenConnection
<1>2. AsConfigured("connection", cfg, opts)
  <2> HIDE DEF opts
  <2> QED BY <1>1, KafkaAsConfigured
<1>3. UsableIn("connection", cfg, opts)
  <2> SUFFICES ASSUME cfg.tls # NoSection, NEW m \in jks,
                      m.clientKeyPem # None, cfg.tls.clientKeyPem = m.clientKeyPem,
                      cfg.tls.clientCertPem = Leaf(m), cfg.tls.serverCaPem = m.serverCaPem,
                      cfg.tls.minVersion # "sslv3"
               PROVE  opts # Refused /\ (opts.client.tls.on => opts.client.tls.identity = m.clientKeyPem[2])
    BY DEF UsableIn
  <2>1. PICK t \in Sections : cfg = WithTLS(DefaultConnection, t)
    BY ConnectionWithKey
  <2>2. cfg.tls = t /\ cfg.sasl = NoSection
    BY <2>1 DEF WithTLS, DefaultConnection
  <2>3. /\ ClientValid(cfg)
        /\ \A hooked : LET tls == ClientOptions(cfg, hooked).tls IN
                        tls.on => tls.identity = m.clientKeyPem[2]
    BY <2>2, LoadedOpens
  <2>4. opts.kind = "connection"
    BY <2>3 DEF OpenConnection
  <2>5. Refused.kind = "refused"
    BY DEF Refused
  <2> HIDE DEF opts
  <2> QED BY <1>1, <2>3, <2>4, <2>5
<1> QED BY <1>2, <1>3

(* NewSchemaRegistry keeps both properties: a section it is given is right, and
   in use if the url is https. *)
LEMMA RegistryKeeps ==
  ASSUME LoadInv, NEW cfg \in RegistryConfigs
  PROVE  /\ UsableIn("registry", cfg, NewSchemaRegistry(cfg))
         /\ AsConfigured("registry", cfg, NewSchemaRegistry(cfg))
<1> DEFINE opts == NewSchemaRegistry(cfg)
<1>1. /\ cfg.sasl = NoSection
      /\ \/ cfg.standalone = TRUE /\ cfg.tls = NoSection /\ cfg.url = ""
         \/ cfg.standalone = FALSE /\ cfg.tls \in RegistrySections
  <2>1. \/ cfg = StandaloneRegistry
        \/ cfg \in RegistrySettings
    BY DEF RegistryConfigs
  <2>2. CASE cfg = StandaloneRegistry
    <3>1. StandaloneRegistry.standalone = TRUE /\ StandaloneRegistry.tls = NoSection
      BY Zenon DEF StandaloneRegistry
    <3>2. StandaloneRegistry.sasl = NoSection /\ StandaloneRegistry.url = ""
      BY Zenon DEF StandaloneRegistry
    <3> QED BY <2>2, <3>1, <3>2, Zenon
  <2>3. CASE cfg \in RegistrySettings
    <3>1. PICK u \in URLs, t \in RegistrySections : cfg = RegistryAt(u, t)
      BY <2>3, SMT DEF RegistrySettings
    <3>2. /\ RegistryAt(u, t).standalone = FALSE
          /\ RegistryAt(u, t).tls = t
          /\ RegistryAt(u, t).sasl = NoSection
      BY Zenon DEF RegistryAt
    <3> QED BY <3>1, <3>2, Zenon
  <2> QED BY <2>1, <2>2, <2>3
<1>2. SUFFICES UsableIn("registry", cfg, opts) /\ AsConfigured("registry", cfg, opts)
  OBVIOUS
<1>3. CASE cfg.standalone = TRUE
  <2>1. cfg.tls = NoSection /\ cfg.url # "https"
    BY <1>1, <1>3
  <2>2. opts.client.tls = NoTLS
    BY <1>3 DEF NewSchemaRegistry
  <2>3. opts.client.tls.on = FALSE
    BY <2>2, TLSFields
  <2> HIDE DEF opts
  <2> QED BY <1>1, <2>1, <2>3 DEF UsableIn, AsConfigured
<1>4. CASE cfg.standalone = FALSE
  <2>1. cfg.tls \in RegistrySections
    BY <1>1, <1>4
  <2>2. CASE cfg.url # "" /\ (cfg.tls # NoSection => TlsValid(cfg.tls))
    <3> DEFINE tls == opts.client.tls
    <3>1. tls = RegistryTLS(cfg.url, cfg.tls)
      BY <1>4, <2>2, Zenon DEF NewSchemaRegistry
    <3>2. opts.kind = "registry" /\ Refused.kind = "refused"
      BY <1>4, <2>2 DEF NewSchemaRegistry, Refused
    <3> HIDE DEF opts, tls
    <3>3. /\ tls.on = (cfg.url = "https")
          /\ tls.on /\ cfg.tls = NoSection => tls.identity = "" /\ tls.ca = ""
          /\ tls.on /\ cfg.tls # NoSection => FromSection(tls, cfg.tls) /\ tls.identity = cfg.tls.clientCertPem[2]
      <4>1. CASE cfg.url # "https"
        <5>1. tls = NoTLS
          BY <3>1, <4>1 DEF RegistryTLS
        <5> QED BY <4>1, <5>1, TLSFields
      <4>2. CASE cfg.url = "https" /\ cfg.tls = NoSection
        <5>1. tls = DefaultTLS
          BY <3>1, <4>2 DEF RegistryTLS
        <5> QED BY <4>2, <5>1, TLSFields
      <4>3. CASE cfg.url = "https" /\ cfg.tls # NoSection
        <5>1. tls = TlsConfigFrom(cfg.tls) /\ TlsValid(cfg.tls)
          BY <2>2, <3>1, <4>3 DEF RegistryTLS
        <5> QED BY <4>3, <5>1, SectionUsed
      <4> QED BY <4>1, <4>2, <4>3
    <3>4. AsConfigured("registry", cfg, opts)
      BY <1>1, <3>3 DEF AsConfigured, tls
    <3>5. UsableIn("registry", cfg, opts)
      <4> SUFFICES ASSUME cfg.tls # NoSection, NEW m \in jks,
                          m.clientKeyPem # None, cfg.tls.clientKeyPem = m.clientKeyPem,
                          cfg.tls.clientCertPem = Leaf(m), cfg.tls.serverCaPem = m.serverCaPem,
                          cfg.tls.minVersion # "sslv3"
                   PROVE  opts # Refused /\ (tls.on => tls.identity = m.clientKeyPem[2])
        BY DEF UsableIn, tls
      <4>1. cfg.tls \in Sections
        BY <2>1 DEF RegistrySections
      <4>2. cfg.tls.clientCertPem[2] = m.clientKeyPem[2]
        BY <4>1, LoadedIsValid
      <4> QED BY <3>2, <3>3, <4>2
    <3> QED BY <3>4, <3>5
  <2>3. CASE cfg.url = ""
    <3>1. opts = Refused
      BY <1>4, <2>3 DEF NewSchemaRegistry
    <3> HIDE DEF opts
    <3> QED BY <2>3, <3>1 DEF UsableIn, AsConfigured
  <2>4. CASE cfg.tls # NoSection /\ ~TlsValid(cfg.tls)
    <3>1. opts = Refused
      BY <1>4, <2>4 DEF NewSchemaRegistry
    <3>2. cfg.tls \in Sections
      BY <2>1, <2>4 DEF RegistrySections
    <3> HIDE DEF opts
    <3>3. AsConfigured("registry", cfg, opts)
      BY <3>1 DEF AsConfigured
    <3>4. UsableIn("registry", cfg, opts)
      BY <2>4, <3>2, LoadedIsValid DEF UsableIn
    <3> QED BY <3>3, <3>4
  <2> QED BY <2>2, <2>3, <2>4
<1> QED BY <1>1, <1>3, <1>4

-----------------------------------------------------------------------------
(* Settings. *)

(* The elements of a finite set of numbers have the ranks 1, 2, ... *)
LEMMA Ranked ==
  ASSUME NEW I, I \subseteq Int, IsFiniteSet(I), NEW k \in 1 .. Cardinality(I)
  PROVE  \E i \in I : Cardinality({j \in I : j <= i}) = k
<1> DEFINE B(i) == {j \in I : j <= i}
           T    == 1 .. Cardinality(I)
           f    == [i \in I |-> Cardinality(B(i))]
<1>1. Cardinality(I) \in Nat
  BY FS_CardinalityType
<1>2. IsFiniteSet(T) /\ Cardinality(T) = Cardinality(I)
  BY <1>1, FS_Interval
<1>3. \A i \in I : IsFiniteSet(B(i)) /\ Cardinality(B(i)) \in Nat /\ Cardinality(B(i)) <= Cardinality(I)
  <2> TAKE i \in I
  <2>1. B(i) \in SUBSET I
    OBVIOUS
  <2> HIDE DEF B
  <2>2. IsFiniteSet(B(i)) /\ Cardinality(B(i)) <= Cardinality(I)
    BY <2>1, FS_Subset
  <2> QED BY <2>2, FS_CardinalityType
<1>4. \A i \in I : Cardinality(B(i)) # 0
  <2> TAKE i \in I
  <2>1. i \in B(i)
    OBVIOUS
  <2> HIDE DEF B
  <2> QED BY <1>3, <2>1, FS_EmptySet
<1>5. f \in [I -> T]
  <2> HIDE DEF B
  <2> QED BY <1>1, <1>3, <1>4
<1>6. \A a, b \in I : f[a] = f[b] => a = b
  <2>1. ASSUME NEW a \in I, NEW b \in I, a < b PROVE f[a] # f[b]
    <3>1. a \in Int /\ b \in Int /\ \A j \in I : j \in Int
      OBVIOUS
    <3>2. (\A j \in I : j <= a => j <= b) /\ b <= b /\ ~(b <= a)
      BY <2>1, <3>1
    <3>3. B(a) \in SUBSET B(b) /\ b \in B(b) /\ b \notin B(a)
      BY <3>2
    <3> HIDE DEF B
    <3>4. Cardinality(B(a)) # Cardinality(B(b))
      BY <1>3, <3>3, FS_Subset
    <3> QED BY <3>4
  <2> HIDE DEF f
  <2>2. \A a, b \in I : a = b \/ a < b \/ b < a
    OBVIOUS
  <2> QED BY <2>1, <2>2
<1> HIDE DEF B, T, f
<1>7. f \in Injection(I, T)
  BY <1>5, <1>6 DEF Injection, IsInjective
<1>8. f \in Surjection(I, T)
  BY <1>2, <1>7, FS_Injection
<1>9. PICK i \in I : f[i] = k
  BY <1>8 DEF Surjection, T
<1> QED BY <1>9 DEF f, B

(* Whatever names a script gives, a group has a balancer and only eager ones. *)
LEMMA BalancersEager ==
  ASSUME NEW names \in Seq(STRING), NEW named, named = EffectiveGroupBalancers(names)
  PROVE  named # <<>> /\ \A i \in DOMAIN named : named[i] \in Eager
<1> DEFINE kept == {i \in DOMAIN names : names[i] \in GroupBalancers \ {"group_balancer_rack_affinity"}}
<1>1. kept \subseteq Int /\ IsFiniteSet(kept)
  <2>1. DOMAIN names = 1 .. Len(names) /\ Len(names) \in Nat
    OBVIOUS
  <2>2. IsFiniteSet(1 .. Len(names))
    BY <2>1, FS_Interval
  <2>3. kept \in SUBSET (1 .. Len(names))
    BY <2>1
  <2>4. kept \subseteq Int
    BY <2>1
  <2> HIDE DEF kept
  <2>5. IsFiniteSet(kept)
    BY <2>2, <2>3, FS_Subset
  <2> QED BY <2>4, <2>5
<1>2. \A i \in kept : names[i] \in Eager
  BY DEF GroupBalancers, Eager
<1>3. Mapped(names) = [k \in 1 .. Cardinality(kept) |->
                         names[CHOOSE i \in kept : Cardinality({j \in kept : j <= i}) = k]]
  BY DEF Mapped
<1> HIDE DEF kept
<1>4. \A k \in 1 .. Cardinality(kept) : \E i \in kept : Cardinality({j \in kept : j <= i}) = k
  BY <1>1, Ranked
<1>5. \A k \in 1 .. Cardinality(kept) : (CHOOSE i \in kept : Cardinality({j \in kept : j <= i}) = k) \in kept
  BY <1>4
<1>6. \A k \in DOMAIN Mapped(names) : Mapped(names)[k] \in Eager
  BY <1>2, <1>3, <1>5
<1>7. CASE Mapped(names) = <<>>
  <2>1. named = <<"group_balancer_range">>
    BY <1>7 DEF EffectiveGroupBalancers
  <2> QED BY <2>1 DEF Eager
<1>8. CASE Mapped(names) # <<>>
  <2>1. named = Mapped(names)
    BY <1>8 DEF EffectiveGroupBalancers
  <2> QED BY <1>6, <1>8, <2>1
<1> QED BY <1>7, <1>8

(* The numbers of writers' configurations. *)
LEMMA WriterNumbers ==
  ASSUME NEW cfg \in WriterConfigs
  PROVE  cfg.batchBytes \in Int /\ cfg.batchTimeout \in Int /\ cfg.writeTimeout \in Int
<1> DEFINE N(c) == c.batchBytes \in Int /\ c.batchTimeout \in Int /\ c.writeTimeout \in Int
<1>1. CASE cfg \in Secured(DefaultWriter)
  <2>1. /\ \A t : N(WithTLS(DefaultWriter, t))
        /\ \A t, a : N(WithSASL(DefaultWriter, t, a))
    BY DEF WithTLS, WithSASL, DefaultWriter
  <2> HIDE DEF N
  <2>2. N(cfg)
    BY <1>1, <2>1, SecuredForms
  <2> QED BY <2>2 DEF N
<1>2. CASE cfg = [DefaultWriter EXCEPT !.brokers = {}]
  <2>1. cfg.batchBytes = 0 /\ cfg.batchTimeout = 0 /\ cfg.writeTimeout = 0
    BY <1>2, Zenon DEF DefaultWriter
  <2> QED BY <2>1
<1>3. CASE cfg \in CodecSettings
  <2>1. \E c, b : cfg = Compressing(c, b)
    BY <1>3 DEF CodecSettings
  <2> QED BY <2>1 DEF Compressing, DefaultWriter
<1>4. CASE cfg \in AckSettings
  <2>1. \E a, n : \E z \in Sizes : cfg = Acknowledged(a, n, z)
    BY <1>4 DEF AckSettings
  <2>2. \A z \in Sizes : z \in Int
    BY SettingsAssumption
  <2> QED BY <2>1, <2>2 DEF Acknowledged, DefaultWriter
<1>5. CASE cfg \in TimeSettings
  <2>1. \E d \in Durations : \E w \in Durations : cfg = Timed(d, w)
    BY <1>5 DEF TimeSettings
  <2>2. \A d \in Durations : d \in Int
    BY SettingsAssumption
  <2> QED BY <2>1, <2>2 DEF Timed, DefaultWriter
<1> QED BY <1>1, <1>2, <1>3, <1>4, <1>5 DEF WriterConfigs

(* The lists of balancers, sizes and intervals of readers' configurations, and
   where they name topics. *)
ReaderTyped(cfg) ==
  /\ cfg.groupBalancers \in Seq(STRING)
  /\ cfg.minBytes \in Int /\ cfg.maxBytes \in Int
  /\ \A i \in Intervals : cfg.intervals[i] \in Int
  /\ "" \notin cfg.groupTopics

LEMMA ReaderTypes ==
  ASSUME NEW cfg \in ReaderConfigs
  PROVE  ReaderTyped(cfg)
<1>1. <<>> \in Seq(STRING)
  OBVIOUS
<1>0. /\ DefaultReader.groupBalancers = <<>> /\ DefaultReader.minBytes = 0 /\ DefaultReader.maxBytes = 0
      /\ DefaultReader.intervals = [i \in Intervals |-> 0] /\ DefaultReader.groupTopics = {}
  BY DEF DefaultReader
<1>2. CASE cfg \in Secured(DefaultReader)
  <2> DEFINE Same(c) == /\ c.groupBalancers = <<>> /\ c.minBytes = 0 /\ c.maxBytes = 0
                        /\ c.intervals = [i \in Intervals |-> 0] /\ c.groupTopics = {}
  <2>1. /\ \A t : Same(WithTLS(DefaultReader, t))
        /\ \A t, a : Same(WithSASL(DefaultReader, t, a))
    BY DEF WithTLS, WithSASL, DefaultReader
  <2> HIDE DEF Same
  <2>2. Same(cfg)
    BY <1>2, <2>1, SecuredForms
  <2> QED BY <1>1, <2>2 DEF Same, ReaderTyped
<1>3. CASE cfg \in GroupSettings
  <2>1. PICK t \in TopicNames, g \in GroupIDs, gt \in GroupTopicSets, b \in BalancerLists :
          cfg = Grouped(t, g, gt, b)
    BY <1>3 DEF GroupSettings
  <2>2. /\ cfg.groupBalancers = b /\ cfg.minBytes = 0 /\ cfg.maxBytes = 0
        /\ cfg.intervals = [i \in Intervals |-> 0] /\ cfg.groupTopics = gt
    BY <2>1 DEF Grouped, DefaultReader
  <2>3. "" \notin gt
    <3>1. gt = {} \/ gt = {"u"}
      BY DEF GroupTopicSets
    <3>2. "" # "u"
      OBVIOUS
    <3> QED BY <3>1, <3>2, Zenon
  <2>4. cfg.groupBalancers \in Seq(STRING)
    BY <2>2, SettingsAssumption
  <2>5. cfg.minBytes \in Int /\ cfg.maxBytes \in Int
    BY <2>2
  <2>6. \A i \in Intervals : cfg.intervals[i] \in Int
    BY <2>2
  <2> QED BY <2>2, <2>3, <2>4, <2>5, <2>6, Zenon DEF ReaderTyped
<1>4. CASE cfg \in FetchSettings
  <2>1. PICK z \in Sizes, y \in Sizes, i \in LevelNames : cfg = Fetching(z, y, i)
    BY <1>4 DEF FetchSettings
  <2>2. /\ cfg.groupBalancers = <<>> /\ cfg.minBytes = z /\ cfg.maxBytes = y
        /\ cfg.intervals = [j \in Intervals |-> 0] /\ cfg.groupTopics = {}
    BY <2>1 DEF Fetching, DefaultReader
  <2>3. z \in Int /\ y \in Int
    BY SettingsAssumption
  <2> QED BY <1>1, <2>2, <2>3 DEF ReaderTyped
<1>5. CASE cfg \in PaceSettings
  <2>1. PICK g \in GroupIDs, d \in [Intervals -> Durations] : cfg = Paced(g, d)
    BY <1>5 DEF PaceSettings
  <2>2. /\ cfg.groupBalancers = <<>> /\ cfg.minBytes = 0 /\ cfg.maxBytes = 0
        /\ cfg.intervals = d /\ cfg.groupTopics = {}
    BY <2>1 DEF Paced, DefaultReader
  <2>3. \A i \in Intervals : d[i] \in Int
    BY SettingsAssumption
  <2> QED BY <1>1, <2>2, <2>3 DEF ReaderTyped
<1>6. CASE cfg \in StartSettings
  <2>1. \E s, o, w, n : cfg = Started(s, o, w, n)
    BY <1>6 DEF StartSettings
  <2>2. /\ cfg.groupBalancers = <<>> /\ cfg.minBytes = 0 /\ cfg.maxBytes = 0
        /\ cfg.intervals = [i \in Intervals |-> 0] /\ cfg.groupTopics = {}
    BY <2>1 DEF Started, DefaultReader
  <2> QED BY <1>1, <2>2 DEF ReaderTyped
<1>7. CASE cfg = [DefaultReader EXCEPT !.brokers = {}]
  <2>1. /\ cfg.groupBalancers = <<>> /\ cfg.minBytes = 0 /\ cfg.maxBytes = 0
        /\ cfg.intervals = [i \in Intervals |-> 0] /\ cfg.groupTopics = {}
    BY <1>7 DEF DefaultReader
  <2> QED BY <1>1, <2>1 DEF ReaderTyped
<1> QED BY <1>2, <1>3, <1>4, <1>5, <1>6, <1>7 DEF ReaderConfigs

(* A size that passes the check is not wrapped. *)
LEMMA SizeFits ==
  ASSUME NEW n \in Int
  PROVE  SizeAsAsked(Size(n), n)
BY DEF SizeAsAsked, Size, Int32, MaxInt32

(* No negative duration passes. *)
LEMMA DurationFits ==
  ASSUME NEW d \in Int
  PROVE  Duration(d) >= 0
BY DEF Duration

(* The property, of a call and its outcome. *)
HooksIn(kind, opts) == opts # Refused => opts.client.hooks = (metrics /\ kind \in {"writer", "reader"})
WriterIn(cfg, opts) ==
  /\ SizeAsAsked(opts.batch, cfg.batchBytes)
  /\ opts.retries = Absent <=> cfg.maxAttempts = Absent
  /\ opts.linger >= 0 /\ opts.timeout >= 0
ReaderIn(cfg, opts) ==
  /\ SizeAsAsked(opts.min, cfg.minBytes) /\ SizeAsAsked(opts.max, cfg.maxBytes)
  /\ opts.retries = Absent <=> cfg.maxAttempts = Absent
  /\ opts.topics # {} /\ "" \notin opts.topics
  /\ cfg.groupID = "" /\ cfg.offset = 0 => opts.start = "start_offsets_first_offset"
  /\ cfg.groupID = "" /\ cfg.offset = -1 => opts.start = "start_offsets_last_offset"
  /\ \A i \in Intervals : opts.intervals[i] >= 0
  /\ cfg.groupID # "" => LET named == opts.balancers IN
       named # <<>> /\ \A i \in DOMAIN named : named[i] \in Eager
HonouredIn(kind, cfg, opts) ==
  /\ HooksIn(kind, opts)
  /\ kind = "writer" /\ opts # Refused => WriterIn(cfg, opts)
  /\ kind = "writer" /\ cfg \in AcksOnly => opts # Refused
  /\ kind = "reader" /\ opts # Refused => ReaderIn(cfg, opts)

SettingsInv == /\ metrics \in BOOLEAN
               /\ phase = "unimported" => last = NoCall
               /\ SettingsHonoured

(* The fields of a Kafka client's options. *)
LEMMA ClientFields ==
  ASSUME NEW cfg, NEW hooked
  PROVE  ClientOptions(cfg, hooked).hooks = hooked /\ ClientOptions(cfg, hooked).mechanism = Mechanism(cfg.sasl)
BY Zenon DEF ClientOptions

(* NewWriter honours its settings. *)
LEMMA WriterHonours ==
  ASSUME metrics \in BOOLEAN, NEW cfg \in WriterConfigs
  PROVE  HonouredIn("writer", cfg, OpenWriter(cfg))
<1> DEFINE opts == OpenWriter(cfg)
<1>1. ASSUME opts # Refused
      PROVE  /\ ClientValid(cfg) /\ opts.client = ClientOptions(cfg, Collects)
             /\ opts.retries = cfg.maxAttempts /\ opts.batch = Size(cfg.batchBytes)
             /\ opts.linger = Duration(cfg.batchTimeout) /\ opts.timeout = Duration(cfg.writeTimeout)
  BY <1>1 DEF OpenWriter
<1>2. ASSUME cfg \in AcksOnly PROVE opts # Refused
  <2>1. PICK a \in -1 .. 1 : cfg = [DefaultWriter EXCEPT !.requiredAcks = a]
    BY <1>2 DEF AcksOnly
  <2>2. /\ cfg.brokers = {"b"} /\ cfg.tls = NoSection /\ cfg.sasl = NoSection
        /\ cfg.requiredAcks = a /\ cfg.maxAttempts = Absent
    BY <2>1 DEF DefaultWriter
  <2>3. ClientValid(cfg)
    BY <2>2 DEF ClientValid, WantsTLS, SaslValid
  <2>4. cfg.brokers # {} /\ cfg.requiredAcks \in -1 .. 1
    BY <2>2
  <2>5. AttemptsValid(cfg.maxAttempts)
    BY <2>2, Zenon DEF AttemptsValid
  <2>6. NewProducerAccepts(cfg.requiredAcks, Idempotent(cfg.requiredAcks))
    BY DEF NewProducerAccepts, Idempotent
  <2>7. opts.kind = "writer"
    BY <2>3, <2>4, <2>5, <2>6 DEF OpenWriter
  <2>8. Refused.kind = "refused"
    BY DEF Refused
  <2> HIDE DEF opts
  <2> QED BY <2>7, <2>8
<1> HIDE DEF opts
<1>3. HooksIn("writer", opts)
  <2>1. opts # Refused => opts.client.hooks = metrics
    BY <1>1, ClientFields DEF Collects
  <2>2. metrics = (metrics /\ "writer" \in {"writer", "reader"})
    OBVIOUS
  <2> QED BY <2>1, <2>2 DEF HooksIn
<1>4. ASSUME opts # Refused PROVE WriterIn(cfg, opts)
  <2>1. SizeAsAsked(opts.batch, cfg.batchBytes)
    BY <1>1, <1>4, WriterNumbers, SizeFits
  <2>2. opts.linger >= 0 /\ opts.timeout >= 0
    BY <1>1, <1>4, WriterNumbers, DurationFits
  <2> QED BY <1>1, <1>4, <2>1, <2>2 DEF WriterIn
<1>5. HonouredIn("writer", cfg, opts)
  BY <1>2, <1>3, <1>4 DEF HonouredIn
<1> QED BY <1>5 DEF opts

(* NewReader honours its settings. *)
LEMMA ReaderHonours ==
  ASSUME metrics \in BOOLEAN, NEW cfg \in ReaderConfigs
  PROVE  HonouredIn("reader", cfg, OpenReader(cfg))
<1> DEFINE opts == OpenReader(cfg)
<1>1. ASSUME opts # Refused
      PROVE  /\ opts.client = ClientOptions(cfg, Collects)
             /\ opts.min = Size(cfg.minBytes) /\ opts.max = Size(cfg.maxBytes)
             /\ opts.retries = cfg.maxAttempts
             /\ cfg.topic # "" \/ (cfg.groupID # "" /\ cfg.groupTopics # {})
             /\ opts.topics = IF cfg.groupID = "" \/ cfg.groupTopics = {} THEN {cfg.topic} ELSE cfg.groupTopics
             /\ cfg.groupID = "" => opts.start = DirectStart(cfg)
             /\ cfg.groupID # "" => opts.balancers = EffectiveGroupBalancers(cfg.groupBalancers)
             /\ opts.intervals = [i \in Intervals |-> IF cfg.groupID = "" THEN 0 ELSE Duration(cfg.intervals[i])]
  BY <1>1 DEF OpenReader
<1> HIDE DEF opts
<1>2. HooksIn("reader", opts)
  <2>1. opts # Refused => opts.client.hooks = metrics
    <3>1. ClientOptions(cfg, Collects).hooks = Collects
      BY ClientFields
    <3> QED BY <1>1, <3>1, Zenon DEF Collects
  <2>2. metrics = (metrics /\ "reader" \in {"writer", "reader"})
    OBVIOUS
  <2> QED BY <2>1, <2>2 DEF HooksIn
<1>3. ASSUME opts # Refused PROVE ReaderIn(cfg, opts)
  <2>1. ReaderTyped(cfg)
    BY ReaderTypes
  <2>2. SizeAsAsked(opts.min, cfg.minBytes) /\ SizeAsAsked(opts.max, cfg.maxBytes)
    BY <1>1, <1>3, <2>1, SizeFits DEF ReaderTyped
  <2>3. opts.topics # {} /\ "" \notin opts.topics
    BY <1>1, <1>3, <2>1 DEF ReaderTyped
  <2>4. ASSUME cfg.groupID # "", NEW named, named = opts.balancers
        PROVE  named # <<>> /\ \A i \in DOMAIN named : named[i] \in Eager
    <3>1. cfg.groupBalancers \in Seq(STRING)
      BY <2>1 DEF ReaderTyped
    <3>2. named = EffectiveGroupBalancers(cfg.groupBalancers)
      BY <1>1, <1>3, <2>4
    <3> QED BY <3>1, <3>2, BalancersEager
  <2>5. \A i \in Intervals : opts.intervals[i] >= 0
    <3> TAKE i \in Intervals
    <3>1. Duration(cfg.intervals[i]) >= 0
      BY <2>1, DurationFits DEF ReaderTyped
    <3>2. opts.intervals[i] = IF cfg.groupID = "" THEN 0 ELSE Duration(cfg.intervals[i])
      BY <1>1, <1>3
    <3>3. CASE cfg.groupID = ""
      <4>1. opts.intervals[i] = 0
        BY <3>2, <3>3, Zenon
      <4> QED BY <4>1
    <3>4. CASE cfg.groupID # ""
      <4>1. opts.intervals[i] = Duration(cfg.intervals[i])
        BY <3>2, <3>4, Zenon
      <4> QED BY <3>1, <4>1, Zenon
    <3> QED BY <3>3, <3>4
  <2>6. ASSUME cfg.groupID = "", cfg.offset = 0
        PROVE  opts.start = "start_offsets_first_offset"
    <3>1. opts.start = DirectStart(cfg)
      BY <1>1, <1>3, <2>6
    <3>2. cfg.offset # Absent /\ cfg.offset # -1 /\ ~(cfg.offset > 0)
      <4>1. 0 # Absent /\ 0 # -1 /\ ~(0 > 0)
        BY DEF Absent
      <4> QED BY <2>6, <4>1, Zenon
    <3> QED BY <3>1, <3>2, Zenon DEF DirectStart
  <2>7. ASSUME cfg.groupID = "", cfg.offset = -1
        PROVE  opts.start = "start_offsets_last_offset"
    <3>1. opts.start = DirectStart(cfg)
      BY <1>1, <1>3, <2>7
    <3>2. cfg.offset # Absent /\ ~(cfg.offset > 0)
      <4>1. -1 # Absent /\ ~(-1 > 0)
        BY DEF Absent
      <4> QED BY <2>7, <4>1, Zenon
    <3> QED BY <2>7, <3>1, <3>2, Zenon DEF DirectStart
  <2>8. opts.retries = cfg.maxAttempts
    BY <1>1, <1>3
  <2> QED BY <2>2, <2>3, <2>4, <2>5, <2>6, <2>7, <2>8, Zenon DEF ReaderIn
<1>4. HonouredIn("reader", cfg, opts)
  BY <1>2, <1>3 DEF HonouredIn
<1> QED BY <1>4 DEF opts

(* Connections and the Schema Registry client have no hooks. *)
LEMMA OthersHonour ==
  ASSUME NEW cfg
  PROVE  /\ HonouredIn("connection", cfg, OpenConnection(cfg))
         /\ HonouredIn("registry", cfg, NewSchemaRegistry(cfg))
<1>1. OpenConnection(cfg) # Refused => OpenConnection(cfg).client.hooks = FALSE
  <2>1. OpenConnection(cfg) # Refused => OpenConnection(cfg).client = ClientOptions(cfg, FALSE)
    BY DEF OpenConnection
  <2> QED BY <2>1, ClientFields
<1>2. NewSchemaRegistry(cfg) # Refused => NewSchemaRegistry(cfg).client.hooks = FALSE
  BY Zenon DEF NewSchemaRegistry
<1>3. HooksIn("connection", OpenConnection(cfg)) /\ HooksIn("registry", NewSchemaRegistry(cfg))
  BY <1>1, <1>2 DEF HooksIn
<1> QED BY <1>3 DEF HonouredIn

(* A constructor that honours its settings keeps the invariant. *)
LEMMA ConstructHonours ==
  ASSUME SettingsInv, phase # "unimported", NEW kind \in {"writer", "reader", "connection", "registry"},
         NEW cfg, NEW opts, Construct(kind, cfg, opts), HonouredIn(kind, cfg, opts)
  PROVE  SettingsInv'
<1>1. last' = [kind |-> kind, cfg |-> cfg, opts |-> opts] /\ phase' = phase /\ metrics' = metrics
  BY DEF Construct
<1>2. last'.kind = kind /\ last'.cfg = cfg /\ last'.opts = opts
  BY <1>1
<1>3. opts # Refused => last'.opts.client.hooks = (metrics' /\ last'.kind \in {"writer", "reader"})
  BY <1>1, <1>2, Zenon DEF HonouredIn, HooksIn
<1>4. kind = "writer" /\ opts # Refused => WriterSettings'
  BY <1>2 DEF HonouredIn, WriterIn, WriterSettings, Asked
<1>5. kind = "reader" /\ opts # Refused => ReaderSettings'
  BY <1>2 DEF HonouredIn, ReaderIn, ReaderSettings, Asked
<1>6. kind = "writer" /\ Asked' \in AcksOnly => opts # Refused
  BY <1>2 DEF HonouredIn, Asked
<1>7. SettingsHonoured'
  BY <1>2, <1>3, <1>4, <1>5, <1>6 DEF SettingsHonoured, Opened
<1> QED BY <1>1, <1>7 DEF SettingsInv

(* Every step keeps it. *)
LEMMA SettingsStep == SettingsInv /\ [Next]_vars => SettingsInv'
<1> SUFFICES ASSUME SettingsInv, [Next]_vars PROVE SettingsInv'
  OBVIOUS
<1>1. NoCall.kind = "none" /\ NoCall.opts = Refused
  BY DEF NoCall
<1>2. CASE last' = NoCall /\ metrics' \in BOOLEAN
  <2>1. SettingsHonoured'
    BY <1>1, <1>2 DEF SettingsHonoured, Opened
  <2> QED BY <1>2, <2>1 DEF SettingsInv
<1>3. CASE UNCHANGED <<last, metrics>> /\ (phase' = "unimported" => phase = "unimported")
  <2>1. WriterSettings' = WriterSettings /\ ReaderSettings' = ReaderSettings
    BY <1>3 DEF WriterSettings, ReaderSettings, Asked
  <2>2. Opened' = Opened /\ Asked' = Asked
    BY <1>3 DEF Opened, Asked
  <2>3. SettingsHonoured'
    BY <1>3, <2>1, <2>2 DEF SettingsInv, SettingsHonoured
  <2> QED BY <1>3, <2>3 DEF SettingsInv
<1>4. CASE \E registry \in BOOLEAN : NewModuleInstance(registry)
  BY <1>2, <1>4 DEF NewModuleInstance, SettingsInv
<1>5. CASE \E cfg \in JKSConfigs : LoadJKS(cfg)
  BY <1>3, <1>5 DEF LoadJKS
<1>6. CASE LeaveInit \/ UNCHANGED vars
  BY <1>3, <1>6 DEF LeaveInit, vars
<1>7. CASE GoOn
  BY <1>2, <1>7 DEF GoOn, SettingsInv
<1>8. metrics \in BOOLEAN
  BY DEF SettingsInv
<1>9. CASE NewWriter
  BY <1>8, <1>9, WriterHonours, ConstructHonours DEF NewWriter, MayConstruct
<1>10. CASE NewReader
  BY <1>8, <1>10, ReaderHonours, ConstructHonours DEF NewReader, MayConstruct
<1>11. CASE NewConnection
  BY <1>11, OthersHonour, ConstructHonours DEF NewConnection, MayConstruct
<1>12. CASE NewRegistry
  BY <1>12, OthersHonour, ConstructHonours DEF NewRegistry, MayConstruct
<1> QED BY <1>4, <1>5, <1>6, <1>7, <1>9, <1>10, <1>11, <1>12 DEF Next

-----------------------------------------------------------------------------
(* The theorems. *)

(* Init satisfies the invariant. *)
LEMMA InitInv == Init => IInv
BY DEF Init, IInv, LoadInv, LoadedIdentityUsable, TLSAsConfigured, NoCall, Opened

(* A constructor's call and outcome keep the invariant. *)
LEMMA ConstructKeeps ==
  ASSUME IInv, NEW kind \in {"writer", "reader", "connection", "registry"}, NEW cfg, NEW opts,
         Construct(kind, cfg, opts), UsableIn(kind, cfg, opts), AsConfigured(kind, cfg, opts)
  PROVE  IInv'
<1>1. last' = [kind |-> kind, cfg |-> cfg, opts |-> opts] /\ jks' = jks
  BY DEF Construct
<1>2. last'.kind = kind /\ last'.cfg = cfg /\ last'.opts = opts
  BY <1>1
<1>3. LoadInv' /\ last'.kind # "none"
  BY <1>1, <1>2 DEF IInv, LoadInv, Readable, JksToPEM, Has
<1>4. LoadedIdentityUsable'
  BY <1>1, <1>2 DEF UsableIn, LoadedIdentityUsable, Asked, Opened, Got
<1>5. TLSAsConfigured'
  BY <1>2 DEF AsConfigured, FromSection, TLSAsConfigured, Asked, Opened, Got
<1> QED BY <1>3, <1>4, <1>5 DEF IInv

(* Every step keeps the invariant. *)
LEMMA NextInv ==
  ASSUME IInv, [Next]_vars
  PROVE  IInv'
<1>0. LoadInv
  BY DEF IInv
<1>1. CASE UNCHANGED <<jks, last>>
  BY <1>1 DEF IInv, LoadInv, LoadedIdentityUsable, TLSAsConfigured, Asked, Opened, Got
<1>2. ASSUME NEW cfg \in JKSConfigs, LoadJKS(cfg) PROVE IInv'
  <2>1. last' = last /\ last.kind = "none" /\ Readable(cfg) /\ jks' = jks \cup {JksToPEM(cfg)}
    BY <1>2 DEF LoadJKS, Idle
  <2>2. LoadInv'
    BY <1>0, <2>1 DEF LoadInv
  <2>3. LoadedIdentityUsable' /\ TLSAsConfigured'
    BY <2>1 DEF IInv, LoadedIdentityUsable, TLSAsConfigured, Asked, Opened, Got
  <2> QED BY <2>1, <2>2, <2>3 DEF IInv
<1>3. CASE GoOn
  <2>1. last' = NoCall /\ jks' = jks
    BY <1>3 DEF GoOn
  <2>2. NoCall.kind = "none" /\ NoCall.opts = Refused
    BY DEF NoCall
  <2>3. LoadInv'
    BY <1>0, <2>1 DEF LoadInv
  <2>4. LoadedIdentityUsable' /\ TLSAsConfigured'
    BY <2>1, <2>2 DEF LoadedIdentityUsable, TLSAsConfigured, Opened
  <2> QED BY <2>1, <2>3, <2>4 DEF IInv
<1>4. CASE NewWriter
  BY <1>0, <1>4, WriterKeeps, ConstructKeeps DEF NewWriter
<1>5. CASE NewReader
  BY <1>0, <1>5, ReaderKeeps, ConstructKeeps DEF NewReader
<1>6. CASE NewConnection
  BY <1>0, <1>6, ConnectionKeeps, ConstructKeeps DEF NewConnection
<1>7. CASE NewRegistry
  BY <1>0, <1>7, RegistryKeeps, ConstructKeeps DEF NewRegistry
<1> QED BY <1>1, <1>2, <1>3, <1>4, <1>5, <1>6, <1>7 DEF Next, vars, NewModuleInstance, LeaveInit

(* The invariant holds in every reachable state. *)
LEMMA Invariance == Spec => []IInv
<1>1. IInv /\ [Next]_vars => IInv'
  BY NextInv
<1> QED BY InitInv, <1>1, PTL DEF Spec

(* Material that LoadJKS returned from one key store opens every kind of client
   with the identity of its key, for any key stores (jks.go: jksToPEM;
   tlsconfig.go: tlsConfigFrom). *)
THEOREM ClientsLoadedIdentityUsable == Spec => []LoadedIdentityUsable
<1>1. IInv => LoadedIdentityUsable
  BY DEF IInv
<1> QED BY Invariance, <1>1, PTL

(* Every Kafka client has the TLS that its section asks for, the Schema Registry
   client the one its url asks for, none under sasl_ssl goes without, and none
   presents an identity whose key it was not given, for any material (client.go;
   sasl.go: buildSASL; tlsconfig.go; schema_registry.go: NewSchemaRegistry). *)
THEOREM ClientsTLSAsConfigured == Spec => []TLSAsConfigured
<1>1. IInv => TLSAsConfigured
  BY DEF IInv
<1> QED BY Invariance, <1>1, PTL

(* Whatever the sizes, durations, lists of balancers and material: no size is
   wrapped into another one, zero and absent stay apart, no valid acks setting
   is refused, a reader has a topic, groups have eager balancers only, and hooks
   go to the writers and readers of an instance with metrics (producer.go:
   writerOptions; consumer.go: readerOptions, effectiveGroupBalancers). *)
THEOREM ClientsSettingsHonoured == Spec => []SettingsHonoured
<1>1. Init => SettingsInv
  <2> SUFFICES ASSUME Init PROVE SettingsInv
    OBVIOUS
  <2>1. last.kind = "none" /\ last.opts = Refused
    BY DEF Init, NoCall
  <2>2. SettingsHonoured
    BY <2>1 DEF SettingsHonoured, Opened
  <2> QED BY <2>2 DEF Init, SettingsInv
<1>2. SettingsInv => SettingsHonoured
  BY DEF SettingsInv
<1> QED BY <1>1, <1>2, SettingsStep, PTL DEF Spec
=============================================================================
