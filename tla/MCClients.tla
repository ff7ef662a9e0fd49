----------------------------- MODULE MCClients -----------------------------
(* Key stores for TLC: one with two client keys and a CA, a trust store, and a
   PKCS#12 file. *)
EXTENDS Clients

Key(identity, issuer) ==
  [kind |-> "key", identity |-> identity, password |-> "kp",
   chain |-> <<<<"cert", identity>>, <<"cert", issuer>>>>]
CA(identity) == [kind |-> "ca", identity |-> identity, password |-> "", chain |-> <<<<"cert", identity>>>>]
Store(format, entries) == [format |-> format, password |-> "sp", entries |-> entries]

MCKeyStores ==
  [keys  |-> Store("jks", [alice |-> Key("alice", "root"), bob |-> Key("bob", "root"),
                           ca |-> CA("root")]),
   trust |-> Store("jks", [ca |-> CA("root")]),
   p12   |-> Store("pkcs12", [alice |-> Key("alice", "root")])]

MCJKSConfigs ==
  [path : {"keys", "trust", "p12", ""}, password : {"sp", "wrong"}, clientKeyAlias : {"", "alice", "bob"},
   clientKeyPassword : {"kp", "wrong"}, clientCertAlias : {"ca", "bob"}, serverCaAlias : {"", "ca"}]

(* Around the ends of an int32, and past the next one. *)
MCSizes == {-1, 0, 1, MaxInt32, MaxInt32 + 1, 2 * MaxInt32 + 3}

MCDurations == {-1, 0, 1}

MCBalancerLists ==
  {<<>>, <<"group_balancer_rack_affinity">>, <<"group_balancer_round_robin">>,
   <<"group_balancer_rack_affinity", "group_balancer_range">>, <<"sticky">>,
   <<"group_balancer_round_robin", "sticky", "group_balancer_range">>}
=============================================================================
