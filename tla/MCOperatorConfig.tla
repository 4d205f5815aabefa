-------------------------- MODULE MCOperatorConfig --------------------------
(* Settings around the limits of the validation, and the environments of an   *)
(* operator for each provider.                                                *)
EXTENDS OperatorConfig

(* The first label of a name server, gslb-ns-<tag>-gslb, has 63 characters    *)
(* with the tag "long" and 64 with "longer".  The whole name has 253 in the   *)
(* edge zone full.full.full.part, when tags have two characters and the zone  *)
(* is gslb.com, and 254 in full.full.full.piece.                              *)
LengthMC ==
    [x \in {"", "eu", "us", "za", "?", "long", "longer", "com", "gslb", "deep",
            "full", "over", "part", "piece"} |->
        CASE x = "" -> 0
          [] x \in {"eu", "us", "za"} -> 2
          [] x \in {"gslb", "deep"} -> 4
          [] x = "long" -> 50
          [] x = "longer" -> 51
          [] x = "full" -> 63
          [] x = "over" -> 64
          [] x = "part" -> 41
          [] x = "piece" -> 42
          [] OTHER -> 3]

k8sNamespaceRegexMC == {"k8gb", "my-123"}
geoTagRegexMC == {"", "eu", "us", "za", "long", "longer"}
hostNameRegexMC == {"dns.example.com", "localhost", "127.0.0.1", "10.0.0.1", "0.0.0.0"}
ipAddressRegexMC == {"127.0.0.1", "10.0.0.1", "0.0.0.0"}
versionNumberRegexMC == {"v1.2"}
labelRegexMC == {"com", "gslb", "deep", "full", "over", "part", "piece"}

SettingMC ==
    [LogLevel |-> {"info", "wrong"}, LogFormat |-> {"json", "wrong"},
     K8gbNamespace |-> {"k8gb", "my-123", "?"}, ReconcileRequeueSeconds |-> {-1, 0, 1},
     ClusterGeoTag |-> {"eu", "us", "long", "longer", "?"},
     ExtClustersGeoTags |-> {<<"us">>, <<"us", "za">>, <<"us", "us">>, <<"us", "">>, <<"longer">>, <<"za", "?">>},
     EdgeDNSServer |-> {"10.0.0.1", "localhost", "dns.example.com", "?"}, EdgeDNSServerPort |-> {0, 1},
     EdgeDNSZone |-> {<<"com">>, <<"?">>, <<"over">>, <<"full", "full", "full", "part">>,
                      <<"full", "full", "full", "piece">>},
     DNSZone |-> {<<"gslb", "com">>, <<"deep", "gslb", "com">>, <<"com">>, <<"?", "com">>},
     route53Enabled |-> {TRUE}, ns1Enabled |-> {TRUE},
     Host |-> {"10.0.0.1", " ", "?"}, Version |-> {"v1.2", "?"}, Port |-> {0, 443, 65536},
     Username |-> {"admin"}, Password |-> {"secret"},
     HTTPPoolConnections |-> {-1, 0}, HTTPRequestTimeout |-> {0, 1},
     MetricsAddress |-> [parts : {2}, host : {"", "0.0.0.0", "?"}, port : {1024, 1025, 65535, 65536, Absent}]
                        \union [parts : {1, 3}, host : {"0.0.0.0"}, port : {8080}]]

(* Settings of the operator of the cluster eu, without an edge DNS. *)
NoEdgeDNS ==
    [NoConfig EXCEPT !.K8gbNamespace = "k8gb", !.ClusterGeoTag = "eu",
                     !.ExtClustersGeoTags = <<"us", "za">>, !.EdgeDNSServer = "10.0.0.1",
                     !.EdgeDNSZone = <<"com">>, !.DNSZone = <<"gslb", "com">>]

EnvironmentsMC ==
    {NoConfig, NoEdgeDNS,
     [NoEdgeDNS EXCEPT !.ClusterGeoTag = "long", !.route53Enabled = TRUE],
     [NoEdgeDNS EXCEPT !.Host = "10.0.0.1", !.Version = "v1.2", !.Port = 443,
                       !.Username = "admin", !.Password = "secret"]}
=============================================================================
