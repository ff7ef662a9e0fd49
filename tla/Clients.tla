------------------------------- MODULE Clients -------------------------------
(***************************************************************************)
(* One VU's instance of the k6/x/kafka module: importing it, loading key    *)
(* stores, and what each constructor makes of its configuration             *)
(* (src/pkg/kafka/module.go, jks.go, tlsconfig.go, sasl.go, client.go, and  *)
(* the option builders of producer.go, consumer.go and schema_registry.go). *)
(*                                                                          *)
(* A script loads key stores while it is in the init context, puts the      *)
(* material together as it likes and constructs clients, before and after.  *)
(* PEM material is <<"cert", identity>>, <<"key", identity>> or Garbage; "" *)
(* and "default" stand for a setting that is absent, Absent for a nil       *)
(* number.  Sizes are scaled: an int32 ends at MaxInt32.  Reaching the      *)
(* cluster is modelled in Admin and Registry; here a constructor ends when  *)
(* its options are made.                                                    *)
(***************************************************************************)
EXTENDS Integers, Sequences, FiniteSets

CONSTANTS KeyStores,   \* path to [format, password, entries]
          JKSConfigs,  \* the arguments of LoadJKS
          Sizes,       \* the batch and fetch sizes scripts set
          Durations,   \* the timeouts and intervals scripts set
          BalancerLists,  \* the lists of group balancers scripts set
          MaxLoads     \* bound: key stores a script keeps

ASSUME LoadsAssumption == MaxLoads \in Nat
ASSUME SettingsAssumption ==
  /\ Sizes \subseteq Int /\ Durations \subseteq Int
  /\ BalancerLists \subseteq Seq(STRING)

(* A key store keeps with a private key the chain that certifies it. *)
ASSUME ChainAssumption ==
  \A path \in DOMAIN KeyStores : \A alias \in DOMAIN KeyStores[path].entries :
    LET entry == KeyStores[path].entries[alias] IN
    entry.kind = "key" => entry.chain # <<>> /\ entry.chain[1] = <<"cert", entry.identity>>

VARIABLES
  phase,     \* "unimported", "init" or "vu"
  metrics,   \* the module instance has registered its metrics
  jks,       \* what LoadJKS returned so far
  last       \* the constructor call that just ended: [kind, cfg, opts]

vars == <<phase, metrics, jks, last>>

None     == <<"none", "">>            \* an empty PEM string
Garbage  == <<"garbage", "">>
Refused  == [kind |-> "refused"]
NoSection == [given |-> FALSE]        \* an absent tls or sasl section
MaxInt32 == 3
Absent   == -9                        \* a nil number
NoCall   == [kind |-> "none", cfg |-> NoSection, opts |-> Refused]

-----------------------------------------------------------------------------
(* The exported constants (constants.go). *)
Codecs          == {"gzip", "snappy", "lz4", "zstd"}
Algorithms      == {"none", "sasl_plain", "sasl_scram_sha256", "sasl_scram_sha512",
                    "sasl_ssl", "sasl_aws_iam"}
TlsVersions     == {"tlsv1.0", "tlsv1.1", "tlsv1.2", "tlsv1.3"}
IsolationLevels == {"isolation_level_read_uncommitted", "isolation_level_read_committed"}
StartOffsets    == {"start_offsets_first_offset", "start_offsets_last_offset"}
Balancers       == {"balancer_roundrobin", "balancer_leastbytes", "balancer_hash",
                    "balancer_crc32", "balancer_murmur2"}
GroupBalancers  == {"group_balancer_range", "group_balancer_round_robin",
                    "group_balancer_rack_affinity"}

-----------------------------------------------------------------------------
(* LoadJKS. *)
Material(key, certs, ca) == [clientKeyPem |-> key, clientCertsPem |-> certs, serverCaPem |-> ca]
NoMaterial == Material(None, <<>>, None)

(* Faulty variant: the chain is looked up under the certificate's alias. *)
ChainOfCertAlias(entries, cfg) == entries[cfg.clientCertAlias].chain

(* The chain comes from the private-key entry; clientCertAlias is unused. *)
ClientChain(entries, cfg) == entries[cfg.clientKeyAlias].chain

(* The aliases that are set name an entry of the right kind. *)
Has(entries, alias, kind) == alias \in DOMAIN entries /\ entries[alias].kind = kind

(* readJKS and jksToPEM: can they succeed, and with what. *)
Readable(cfg) ==
  /\ cfg.path \in DOMAIN KeyStores
  /\ KeyStores[cfg.path].format = "jks" /\ KeyStores[cfg.path].password = cfg.password
  /\ LET entries == KeyStores[cfg.path].entries IN
     /\ cfg.clientKeyAlias # "" =>
          /\ Has(entries, cfg.clientKeyAlias, "key")
          /\ entries[cfg.clientKeyAlias].password = cfg.clientKeyPassword
     /\ cfg.serverCaAlias # "" => Has(entries, cfg.serverCaAlias, "ca")

JksToPEM(cfg) ==
  LET entries == KeyStores[cfg.path].entries
      keyed   == cfg.clientKeyAlias # ""
  IN Material(IF keyed THEN <<"key", entries[cfg.clientKeyAlias].identity>> ELSE None,
              IF keyed THEN ClientChain(entries, cfg) ELSE <<>>,
              IF cfg.serverCaAlias # "" THEN <<"cert", entries[cfg.serverCaAlias].identity>> ELSE None)

-----------------------------------------------------------------------------
(* tlsConfigFrom, buildTLSConfig, buildSASL, clientOptions. *)
NoTLS      == [on |-> FALSE, min |-> "default", identity |-> "", ca |-> "", skip |-> FALSE]
DefaultTLS == [NoTLS EXCEPT !.on = TRUE]   \* Go's, with the system's CAs

(* External: tls.X509KeyPair. *)
KeyPair(cert, key) == cert[1] = "cert" /\ key[1] = "key" /\ cert[2] = key[2]

TlsValid(tc) ==
  /\ tc.minVersion \in TlsVersions \cup {""}
  /\ tc.clientCertPem # None \/ tc.clientKeyPem # None => KeyPair(tc.clientCertPem, tc.clientKeyPem)
  /\ tc.serverCaPem # None => tc.serverCaPem[1] = "cert"

TlsConfigFrom(tc) ==
  [on |-> TRUE, min |-> IF tc.minVersion = "" THEN "default" ELSE tc.minVersion,
   identity |-> tc.clientCertPem[2], ca |-> tc.serverCaPem[2], skip |-> tc.insecureSkipTLSVerify]

(* The Kafka side gates on enableTLS; `NoSection' is an absent one. *)
WantsTLS(tc) == tc # NoSection /\ tc.enableTLS

(* External: net/http.  The scheme of the url decides, whatever enableTLS
   says; the section is the transport's, and idle if the scheme is http. *)
RegistryTLS(url, tc) ==
  IF url # "https" THEN NoTLS
  ELSE IF tc = NoSection THEN DefaultTLS ELSE TlsConfigFrom(tc)

(* Faulty variant: sasl_ssl is only another name for PLAIN. *)
SaslWithoutTLS(sc, tls) == sc = NoSection \/ sc.algorithm \in (Algorithms \ {"sasl_aws_iam"}) \cup {""}

SaslValid(sc, tls) ==
  \/ sc = NoSection
  \/ sc.algorithm \in (Algorithms \ {"sasl_aws_iam"}) \cup {""} /\ (sc.algorithm = "sasl_ssl" => tls)

Mechanism(sc) ==
  IF sc = NoSection \/ sc.algorithm \in {"", "none"} THEN "default"
  ELSE IF sc.algorithm = "sasl_ssl" THEN "sasl_plain" ELSE sc.algorithm

ClientValid(cfg) == /\ WantsTLS(cfg.tls) => TlsValid(cfg.tls)
                    /\ SaslValid(cfg.sasl, WantsTLS(cfg.tls))

(* writerCollector, readerCollector: none without registered metrics. *)
Collects == metrics

(* What a client has of it, and whether the collector's hooks are installed. *)
ClientOptions(cfg, hooked) ==
  [tls |-> IF WantsTLS(cfg.tls) THEN TlsConfigFrom(cfg.tls) ELSE NoTLS,
   mechanism |-> Mechanism(cfg.sasl), hooks |-> hooked]

-----------------------------------------------------------------------------
(* writerOptions. *)
DefaultOr(name, known) == IF name \in known THEN name ELSE "default"

CompressionCodec(name) == DefaultOr(name, Codecs)

(* hash and murmur2 are one; crc32, a function or nothing leave the default. *)
Partitioner(name) == DefaultOr(name, Balancers \ {"balancer_crc32"})

(* int32(n), which drops the high bits. *)
Int32(n) == ((n + MaxInt32 + 1) % (2 * (MaxInt32 + 1))) - (MaxInt32 + 1)

(* Faulty variant: a size is only checked for being set. *)
UncheckedSize(n) == IF n > 0 THEN Int32(n) ELSE 0

(* An int32 option; 0 leaves the client's default. *)
Size(n) == IF n > 0 /\ n <= MaxInt32 THEN Int32(n) ELSE 0

(* A duration that is set; 0 leaves the client's default. *)
Duration(d) == IF d > 0 THEN d ELSE 0

(* maxAttempts: 0 is no retry, nil the client's default. *)
AttemptsValid(n) == n = Absent \/ n >= 0

(* Faulty variant: the idempotent producer stays on. *)
KeepsIdempotent(acks) == TRUE

(* An absent requiredAcks is -1. *)
Idempotent(acks) == acks = -1

(* External: kgo.NewClient refuses idempotent writes without all acks. *)
NewProducerAccepts(acks, idempotent) == idempotent => acks = -1

OpenWriter(cfg) ==
  IF /\ cfg.brokers # {} /\ ClientValid(cfg)
     /\ cfg.requiredAcks \in -1 .. 1 /\ AttemptsValid(cfg.maxAttempts)
     /\ NewProducerAccepts(cfg.requiredAcks, Idempotent(cfg.requiredAcks))
  THEN [kind |-> "writer", client |-> ClientOptions(cfg, Collects),
        codec |-> CompressionCodec(cfg.compression), partitioner |-> Partitioner(cfg.balancer),
        acks |-> cfg.requiredAcks, idempotent |-> Idempotent(cfg.requiredAcks),
        retries |-> cfg.maxAttempts, batch |-> Size(cfg.batchBytes),
        linger |-> Duration(cfg.batchTimeout), timeout |-> Duration(cfg.writeTimeout)]
  ELSE Refused

-----------------------------------------------------------------------------
(* readerOptions. *)

(* groupBalancers: rack affinity and unknown names are dropped, the others keep
   their order. *)
Mapped(names) ==
  LET kept    == {i \in DOMAIN names : names[i] \in GroupBalancers \ {"group_balancer_rack_affinity"}}
      rank(i) == Cardinality({j \in kept : j <= i})
  IN [k \in 1 .. Cardinality(kept) |-> names[CHOOSE i \in kept : rank(i) = k]]

(* Range stands in for an empty list. *)
EffectiveGroupBalancers(names) ==
  IF Mapped(names) = <<>> THEN <<"group_balancer_range">> ELSE Mapped(names)

IsolationLevel(name) ==
  IF name = "isolation_level_read_committed" THEN name ELSE "isolation_level_read_uncommitted"

StartOffsetReset(name) ==
  IF name = "start_offsets_last_offset" THEN name ELSE "start_offsets_first_offset"

(* directOffset: -1 is the end, a positive number itself, 0 the start; an
   offset that is given goes before startOffset. *)
DirectStart(cfg) ==
  CASE cfg.offset = Absent -> StartOffsetReset(cfg.startOffset)
    [] cfg.offset = -1 -> "start_offsets_last_offset"
    [] cfg.offset > 0 -> "exact"
    [] OTHER -> "start_offsets_first_offset"

(* What a group member sets of its own. *)
Intervals == {"heartbeatInterval", "sessionTimeout", "rebalanceTimeout", "commitInterval"}

OpenReader(cfg) ==
  IF /\ cfg.brokers # {} /\ ClientValid(cfg)
     /\ (cfg.topic # "" \/ (cfg.groupID # "" /\ cfg.groupTopics # {}))
     /\ (cfg.groupID = "" => (cfg.offset = Absent \/ cfg.offset >= -1))
     /\ cfg.maxWait # "unparseable" /\ AttemptsValid(cfg.maxAttempts)
  THEN [kind |-> "reader", client |-> ClientOptions(cfg, Collects),
        min |-> Size(cfg.minBytes), max |-> Size(cfg.maxBytes),
        retries |-> cfg.maxAttempts, isolation |-> IsolationLevel(cfg.isolationLevel),
        start |-> IF cfg.groupID = "" THEN DirectStart(cfg) ELSE StartOffsetReset(cfg.startOffset),
        topics |-> IF cfg.groupID = "" \/ cfg.groupTopics = {} THEN {cfg.topic} ELSE cfg.groupTopics,
        balancers |-> IF cfg.groupID = "" THEN <<>> ELSE EffectiveGroupBalancers(cfg.groupBalancers),
        intervals |-> [i \in Intervals |-> IF cfg.groupID = "" THEN 0 ELSE Duration(cfg.intervals[i])]]
  ELSE Refused

OpenConnection(cfg) ==
  IF ClientValid(cfg) THEN [kind |-> "connection", client |-> ClientOptions(cfg, FALSE)]
  ELSE Refused

(* No argument is standalone mode; the url is required otherwise, and a
   section that is given must be right, whatever the scheme. *)
NewSchemaRegistry(cfg) ==
  IF cfg.standalone THEN [kind |-> "standalone", client |-> [tls |-> NoTLS, mechanism |-> "default", hooks |-> FALSE]]
  ELSE IF cfg.url # "" /\ (cfg.tls # NoSection => TlsValid(cfg.tls))
  THEN [kind |-> "registry",
        client |-> [tls |-> RegistryTLS(cfg.url, cfg.tls), mechanism |-> "default", hooks |-> FALSE]]
  ELSE Refused

-----------------------------------------------------------------------------
(* What scripts write: a default configuration with one or two settings of
   their own.  The TLS material is what LoadJKS returned, put together in any
   way, or nonsense. *)
Section(on, min, cert, key, ca) ==
  [enableTLS |-> on, insecureSkipTLSVerify |-> FALSE, minVersion |-> min,
   clientCertPem |-> cert, clientKeyPem |-> key, serverCaPem |-> ca]
Leaf(m) == IF m.clientCertsPem = <<>> THEN None ELSE m.clientCertsPem[1]
MinVersions == {"", "tlsv1.2", "sslv3"}
Certs == {None, Garbage} \cup {Leaf(m) : m \in jks}
Keys  == {None} \cup {m.clientKeyPem : m \in jks}
CAs   == {None, Garbage} \cup {m.serverCaPem : m \in jks}
Sections ==
  {Section(on, min, cert, key, ca) :
     on \in BOOLEAN, min \in MinVersions, cert \in Certs, key \in Keys, ca \in CAs}
Plain == {NoSection} \cup {Section(on, "", None, None, None) : on \in BOOLEAN}
SaslConfigs == {NoSection} \cup [algorithm : Algorithms \cup {"", "kerberos"}]

WithTLS(default, t) == [default EXCEPT !.tls = t]
WithSASL(default, t, a) == [default EXCEPT !.tls = t, !.sasl = a]
Secured(default) ==
  {WithTLS(default, t) : t \in Sections}
    \cup {WithSASL(default, t, a) : t \in Plain, a \in SaslConfigs}

DefaultWriter == [brokers |-> {"b"}, tls |-> NoSection, sasl |-> NoSection, compression |-> "", balancer |-> "",
                  requiredAcks |-> -1, maxAttempts |-> Absent, batchBytes |-> 0,
                  batchTimeout |-> 0, writeTimeout |-> 0]
Compressing(c, b) == [DefaultWriter EXCEPT !.compression = c, !.balancer = b]
Acknowledged(a, n, z) == [DefaultWriter EXCEPT !.requiredAcks = a, !.maxAttempts = n, !.batchBytes = z]
Timed(d, w) == [DefaultWriter EXCEPT !.batchTimeout = d, !.writeTimeout = w]
CodecNames    == Codecs \cup {"", "brotli"}
BalancerNames == Balancers \cup {"", "function"}
CodecSettings == {Compressing(c, b) : c \in CodecNames, b \in BalancerNames}
Attempts      == {Absent, -1, 0, 1}
AckSettings   == {Acknowledged(a, n, z) : a \in -2 .. 2, n \in Attempts, z \in Sizes}
TimeSettings  == {Timed(d, w) : d \in Durations, w \in Durations}
WriterConfigs == Secured(DefaultWriter) \cup {[DefaultWriter EXCEPT !.brokers = {}]}
                   \cup CodecSettings \cup AckSettings \cup TimeSettings

DefaultReader == [brokers |-> {"b"}, tls |-> NoSection, sasl |-> NoSection, topic |-> "t", groupID |-> "",
                  groupTopics |-> {}, groupBalancers |-> <<>>, minBytes |-> 0, maxBytes |-> 0, maxWait |-> "",
                  isolationLevel |-> "", startOffset |-> "", offset |-> Absent, maxAttempts |-> Absent,
                  intervals |-> [i \in Intervals |-> 0]]
Grouped(t, g, gt, b) ==
  [DefaultReader EXCEPT !.topic = t, !.groupID = g, !.groupTopics = gt, !.groupBalancers = b]
Fetching(z, y, i) == [DefaultReader EXCEPT !.minBytes = z, !.maxBytes = y, !.isolationLevel = i]
Paced(g, d) == [DefaultReader EXCEPT !.groupID = g, !.intervals = d]
Started(s, o, w, n) ==
  [DefaultReader EXCEPT !.startOffset = s, !.offset = o, !.maxWait = w, !.maxAttempts = n]
TopicNames     == {"", "t"}
GroupIDs       == {"", "g"}
GroupTopicSets == {{}, {"u"}}
LevelNames     == IsolationLevels \cup {""}
StartNames     == StartOffsets \cup {""}
Offsets        == {Absent, -2, -1, 0, 1}
MaxWaits       == {"", "unparseable"}
GroupSettings     == {Grouped(t, g, gt, b) : t \in TopicNames, g \in GroupIDs, gt \in GroupTopicSets,
                                             b \in BalancerLists}
FetchSettings     == {Fetching(z, y, i) : z \in Sizes, y \in Sizes, i \in LevelNames}
PaceSettings      == {Paced(g, d) : g \in GroupIDs, d \in [Intervals -> Durations]}
StartSettings     == {Started(s, o, w, n) : s \in StartNames, o \in Offsets, w \in MaxWaits, n \in Attempts}
ReaderConfigs == Secured(DefaultReader) \cup {[DefaultReader EXCEPT !.brokers = {}]}
                   \cup GroupSettings \cup FetchSettings \cup PaceSettings \cup StartSettings

DefaultConnection == [address |-> "b", tls |-> NoSection, sasl |-> NoSection]
ConnectionConfigs == Secured(DefaultConnection)
RegistryAt(u, t) == [standalone |-> FALSE, url |-> u, tls |-> t, sasl |-> NoSection]
RegistrySections == Sections \cup {NoSection}
StandaloneRegistry == [standalone |-> TRUE, url |-> "", tls |-> NoSection, sasl |-> NoSection]
URLs == {"", "http", "https"}
RegistrySettings == {RegistryAt(u, t) : u \in URLs, t \in RegistrySections}
RegistryConfigs  == RegistrySettings \cup {StandaloneRegistry}

-----------------------------------------------------------------------------
Init == phase = "unimported" /\ metrics = FALSE /\ jks = {} /\ last = NoCall

(* NewModuleInstance: the init environment may come without a registry. *)
NewModuleInstance(registry) ==
  /\ phase = "unimported"
  /\ phase' = "init" /\ metrics' = registry
  /\ UNCHANGED <<jks, last>>

(* The script goes on after a constructor returned or threw. *)
Idle == last.kind = "none"
GoOn == ~Idle /\ last' = NoCall /\ UNCHANGED <<phase, metrics, jks>>

(* k6 leaves the init context. *)
LeaveInit ==
  /\ phase = "init" /\ Idle
  /\ phase' = "vu"
  /\ UNCHANGED <<metrics, jks, last>>

LoadJKS(cfg) ==
  /\ phase = "init" /\ Idle /\ Readable(cfg)
  /\ jks' = jks \cup {JksToPEM(cfg)} /\ Cardinality(jks') <= MaxLoads
  /\ UNCHANGED <<phase, metrics, last>>

MayConstruct == phase # "unimported" /\ Idle
Construct(kind, cfg, opts) ==
  /\ last' = [kind |-> kind, cfg |-> cfg, opts |-> opts]
  /\ UNCHANGED <<phase, metrics, jks>>

NewWriter     == MayConstruct /\ \E cfg \in WriterConfigs : Construct("writer", cfg, OpenWriter(cfg))
NewReader     == MayConstruct /\ \E cfg \in ReaderConfigs : Construct("reader", cfg, OpenReader(cfg))
NewConnection == MayConstruct /\ \E cfg \in ConnectionConfigs : Construct("connection", cfg, OpenConnection(cfg))
NewRegistry   == MayConstruct /\ \E cfg \in RegistryConfigs : Construct("registry", cfg, NewSchemaRegistry(cfg))

Next ==
  \/ \E registry \in BOOLEAN : NewModuleInstance(registry)
  \/ phase = "init" /\ \E cfg \in JKSConfigs : LoadJKS(cfg)
  \/ LeaveInit \/ GoOn
  \/ NewWriter \/ NewReader \/ NewConnection \/ NewRegistry

Spec == Init /\ [][Next]_vars

-----------------------------------------------------------------------------
(* Properties. *)
Opened == last.opts # Refused
Asked  == last.cfg
Got    == last.opts.client.tls

(* What LoadJKS returned from one key store works: no client is refused for
   it, in whatever context it is constructed, and the client presents the
   identity of the key (jks.go: jksToPEM; tlsconfig.go: tlsConfigFrom). *)
LoadedIdentityUsable ==
  last.kind # "none" /\ Asked.tls # NoSection =>
    \A m \in jks :
      /\ m.clientKeyPem # None /\ Asked.tls.clientKeyPem = m.clientKeyPem
      /\ Asked.tls.clientCertPem = Leaf(m)
      /\ Asked.tls.serverCaPem = m.serverCaPem
      /\ Asked.tls.minVersion # "sslv3"
      /\ last.kind = "registry" => Asked.url # ""
      => Opened /\ (Got.on => Got.identity = m.clientKeyPem[2])

(* However the sections of a configuration and the scheme of a url are
   combined: the credentials of sasl_ssl never go over a connection without
   TLS; a Kafka client encrypts exactly if its section is enabled, the Schema
   Registry client exactly if its url is https, so that a section given for it
   is idle under http and no section is needed under https; and a client that
   encrypts presents no identity but one whose key it was given with it, and
   trusts no CA but the section's, or the system's if it names none (client.go;
   sasl.go: buildSASL; tlsconfig.go; schema_registry.go: NewSchemaRegistry). *)
TLSAsConfigured ==
  Opened =>
    /\ Asked.sasl # NoSection /\ Asked.sasl.algorithm = "sasl_ssl" => Got.on
    /\ last.kind = "registry" => Got.on = (Asked.url = "https")
    /\ last.kind # "registry" => Got.on = (Asked.tls # NoSection /\ Asked.tls.enableTLS)
    /\ Got.on /\ Asked.tls = NoSection => Got.identity = "" /\ Got.ca = ""
    /\ Got.on /\ Asked.tls # NoSection =>
         /\ Got.ca = Asked.tls.serverCaPem[2]
         /\ IF Asked.tls.clientKeyPem = None THEN Got.identity = ""
            ELSE Asked.tls.clientKeyPem[1] = "key" /\ Asked.tls.clientKeyPem[2] = Got.identity

(* A size as it was asked for, if an int32 holds it, or the client's default. *)
SizeAsAsked(got, asked) == got = IF asked \in 1 .. MaxInt32 THEN asked ELSE 0

(* Parts of SettingsHonoured. *)
Eager == {"group_balancer_range", "group_balancer_round_robin"}
WriterSettings ==
  /\ SizeAsAsked(last.opts.batch, Asked.batchBytes)
  /\ last.opts.retries = Absent <=> Asked.maxAttempts = Absent
  /\ last.opts.linger >= 0 /\ last.opts.timeout >= 0
ReaderSettings ==
  /\ SizeAsAsked(last.opts.min, Asked.minBytes) /\ SizeAsAsked(last.opts.max, Asked.maxBytes)
  /\ last.opts.retries = Absent <=> Asked.maxAttempts = Absent
  /\ last.opts.topics # {} /\ "" \notin last.opts.topics
  /\ Asked.groupID = "" /\ Asked.offset = 0 => last.opts.start = "start_offsets_first_offset"
  /\ Asked.groupID = "" /\ Asked.offset = -1 => last.opts.start = "start_offsets_last_offset"
  /\ \A i \in Intervals : last.opts.intervals[i] >= 0
  /\ Asked.groupID # "" => LET named == last.opts.balancers IN
       named # <<>> /\ \A i \in DOMAIN named : named[i] \in Eager
AcksOnly == {[DefaultWriter EXCEPT !.requiredAcks = a] : a \in -1 .. 1}

(* Zero, absent and out of range are told apart on the way to a client.  A size
   reaches it as it was asked for or not at all, never wrapped into another
   int32, and no negative duration reaches it; maxAttempts 0 is not the default
   of unlimited retries, and offset 0 and -1 are offsets, which startOffset
   does not override; no valid acks setting is refused; a reader that opens has
   a topic, wherever it was named; a group always names balancers, and only
   eager ones, so that a rolling test never mixes in cooperative members; and
   the collector's hooks go to the writers and readers of an instance that has
   metrics, and to no other client (producer.go: writerOptions; consumer.go:
   openReader, readerOptions, directOption, effectiveGroupBalancers). *)
SettingsHonoured ==
  /\ Opened => last.opts.client.hooks = (metrics /\ last.kind \in {"writer", "reader"})
  /\ last.kind = "writer" /\ Opened => WriterSettings
  /\ last.kind = "writer" /\ Asked \in AcksOnly => Opened
  /\ last.kind = "reader" /\ Opened => ReaderSettings
=============================================================================
