----------------------------- MODULE DataModel -----------------------------
(***************************************************************************)
(* The tables the ZAP tool generates from temperature_sensor.zap: the      *)
(* arrays of endpoint_config.h and the switches of gen_config.h (both in   *)
(* src/default_zap/zap-generated).  They refer to each other by position   *)
(* (ZAP_ATTRIBUTE_INDEX, ZAP_CLUSTER_INDEX, ZAP_GENERATED_COMMANDS_INDEX), *)
(* and AttributeStore and CommandDispatch read them the way the Matter SDK *)
(* does.  Positions count from 0 here as in the source.                    *)
(***************************************************************************)
EXTENDS Integers, Sequences

Repeat(x, n) == [i \in 1..n |-> x]

-----------------------------------------------------------------------------
(* GENERATED_ATTRIBUTES.  The id of an attribute with EXTERNAL_STORAGE that *)
(* nobody can write is left out, as is its size: the store does not use it. *)

NoId == -1
NoBlob == -1
Attribute(id, size, stored, writable, blob) ==
  [id |-> id, size |-> size, stored |-> stored, writable |-> writable, blob |-> blob]

Ext(n) == Repeat(Attribute(NoId, 0, FALSE, FALSE, NoBlob), n)
Wr(id) == <<Attribute(id, 0, FALSE, TRUE, NoBlob)>>
Ram(id, size) == <<Attribute(id, size, TRUE, FALSE, NoBlob)>>
Str(id, size, blob) == <<Attribute(id, size, TRUE, FALSE, blob)>>

FeatureMap == 65532
ClusterRevision == 65533

\* GENERATED_DEFAULTS: where a string starts, and its length byte.
DefaultLength == [blob \in {0, 44, 52} |->
                    IF blob = 0 THEN 43 ELSE IF blob = 44 THEN 7 ELSE 1]

\* From Descriptor to Software Diagnostics of endpoint 0.
UtilityAttributes ==
  Ext(6) \o Wr(0) \o Wr(1) \o Ext(5)
  \o Ext(5) \o Wr(5) \o Wr(6) \o Ext(13)
  \o Wr(0) \o Ram(1, 1) \o Ram(2, 1) \o Ram(3, 1) \o Ram(FeatureMap, 4) \o Ram(ClusterRevision, 2)
  \o Wr(0) \o Ext(6)
  \o Ext(4) \o Wr(4) \o Ext(7)
  \o Ext(2) \o Ext(7) \o Ext(4)

\* From Thread Network Diagnostics to ICD Management of endpoint 0.
NetworkAttributes ==
  Ext(63) \o Ram(FeatureMap, 4) \o Ext(1)
  \o Ext(3) \o Ram(FeatureMap, 4) \o Ext(1)
  \o Ext(8)
  \o Wr(0) \o Ext(5)
  \o Ext(6) \o Ram(6, 4) \o Str(7, 129, 0) \o Ext(3) \o Ram(ClusterRevision, 2)

\* Endpoint 1.
SensorAttributes ==
  Wr(0) \o Ext(3)
  \o Ext(6)
  \o Ram(0, 1) \o Ram(1, 1) \o Str(2, 61, 44) \o Ram(11, 4) \o Ram(12, 1) \o Ram(14, 1)
  \o Ram(15, 1) \o Ram(16, 1) \o Ram(17, 1) \o Str(19, 61, 52) \o Ram(25, 1) \o Ext(1)
  \o Ram(FeatureMap, 4) \o Ext(1)
  \o Ram(0, 2) \o Ram(1, 2) \o Ram(2, 2) \o Ram(FeatureMap, 4) \o Ram(ClusterRevision, 2)
  \o Ram(0, 2) \o Ram(1, 2) \o Ram(2, 2) \o Ram(FeatureMap, 4) \o Ram(ClusterRevision, 2)

Attributes == UtilityAttributes \o NetworkAttributes \o SensorAttributes
AttributeAt(i) == Attributes[i + 1]

-----------------------------------------------------------------------------
(* GENERATED_COMMANDS: lists of accepted and generated commands, end to end. *)

End == -1 \* kInvalidCommandId

Commands ==
  <<0, 2, 4, End>> \o <<1, 3, 5, End>>                         \* General Commissioning
  \o <<0, 3, 4, 6, 8, End>> \o <<1, 5, 7, End>>                \* Network Commissioning
  \o <<0, End>> \o <<1, End>>                                  \* Diagnostic Logs
  \o <<0, 1, End>> \o <<2, End>>                               \* General Diagnostics
  \o <<0, End>>                                                \* Thread Network Diagnostics
  \o <<0, 1, 2, End>>                                          \* Administrator Commissioning
  \o <<0, 2, 4, 6, 7, 9, 10, 11, 12, 13, End>> \o <<1, 3, 5, 8, 14, End>>
                                                               \* Operational Credentials
  \o <<0, 1, 3, 4, End>> \o <<2, 5, End>>                      \* Group Key Management
  \o <<0, 2, 3, End>> \o <<1, 4, End>>                         \* ICD Management
  \o <<0, End>>                                                \* Identify

NoList == -1

\* The commands from position first to the end of their list.
CommandList(first) ==
  {Commands[k] : k \in {k \in first + 1 .. Len(Commands) :
                          /\ first # NoList
                          /\ \A j \in first + 1 .. k : Commands[j] # End}}

-----------------------------------------------------------------------------
(* GENERATED_CLUSTERS and the endpoints that share them.                    *)

Cluster(id, first, count, size, accepted) ==
  [id |-> id, server |-> TRUE, first |-> first, count |-> count, size |-> size,
   accepted |-> accepted]

RootClusters == <<
  Cluster("Descriptor",                    0,  6,   0, NoList),
  Cluster("AccessControl",                 6,  7,   0, NoList),
  Cluster("BasicInformation",             13, 20,   0, NoList),
  [Cluster("OtaSoftwareUpdateProvider",   33,  0,   0, NoList) EXCEPT !.server = FALSE],
  Cluster("OtaSoftwareUpdateRequestor",   33,  6,   9, NoList),
  Cluster("GeneralCommissioning",         39,  7,   0, 0),
  Cluster("NetworkCommissioning",         46, 12,   0, 8),
  Cluster("DiagnosticLogs",               58,  2,   0, 18),
  Cluster("GeneralDiagnostics",           60,  7,   0, 22),
  Cluster("SoftwareDiagnostics",          67,  4,   0, NoList),
  Cluster("ThreadNetworkDiagnostics",     71, 65,   4, 27),
  Cluster("AdministratorCommissioning",  136,  5,   4, 29),
  Cluster("OperationalCredentials",      141,  8,   0, 33),
  Cluster("GroupKeyManagement",          149,  6,   0, 50),
  Cluster("IcdManagement",               155, 12, 135, 58)>>

SensorClusters == <<
  Cluster("Identify",                    167,  4,   0, 65),
  Cluster("Descriptor",                  171,  6,   0, NoList),
  Cluster("PowerSource",                 177, 14, 138, NoList),
  Cluster("TemperatureMeasurement",      191,  5,  12, NoList),
  Cluster("RelativeHumidityMeasurement", 196,  5,  12, NoList)>>

Clusters == RootClusters \o SensorClusters
ClusterAt(c) == Clusters[c + 1]

\* Mutant: the size of endpoint 0 without the feature map of its last server.
StaleEndpointTypes == <<[first |-> 0, count |-> 15, size |-> 148],
                        [first |-> 15, count |-> 5, size |-> 162]>>
\* GENERATED_ENDPOINT_TYPES, which FIXED_ENDPOINT_ARRAY numbers 0 and 1.
EndpointTypes == <<[first |-> 0, count |-> 15, size |-> 152],
                   [first |-> 15, count |-> 5, size |-> 162]>>
EndpointAt(e) == EndpointTypes[e + 1]
Endpoints == 0 .. Len(EndpointTypes) - 1

\* Mutant: one data version short.
FewDataVersions == 18
DataVersionCount == 19
\* Mutant: the store before an attribute of endpoint 1 became external.
OldMaxSize == 316
AttributeMaxSize == 314

\* The positions of the clusters of an endpoint, and of the attributes of a cluster.
ClustersOf(e) == EndpointAt(e).first .. EndpointAt(e).first + EndpointAt(e).count - 1
AttributesOf(c) == ClusterAt(c).first .. ClusterAt(c).first + ClusterAt(c).count - 1

-----------------------------------------------------------------------------
(* gen_config.h.                                                            *)

\* MATTER_DM_*_CLUSTER_SERVER_ENDPOINT_COUNT; 0 for every cluster not named here.
OneServer ==
  {"Identify", "AccessControl", "BasicInformation", "OtaSoftwareUpdateRequestor",
   "PowerSource", "GeneralCommissioning", "NetworkCommissioning", "DiagnosticLogs",
   "GeneralDiagnostics", "SoftwareDiagnostics", "ThreadNetworkDiagnostics",
   "AdministratorCommissioning", "OperationalCredentials", "GroupKeyManagement",
   "IcdManagement", "TemperatureMeasurement", "RelativeHumidityMeasurement"}
ServerEndpointCount(id) ==
  IF id = "Descriptor" THEN 2 ELSE IF id \in OneServer THEN 1 ELSE 0

\* MATTER_DM_PLUGIN_*_SERVER: the servers compiled in, every one of them above.
PluginServers == OneServer \cup {"Descriptor"}

=============================================================================
