--------------------------- MODULE DataModelProofs ---------------------------
(***************************************************************************)
(* What the tables of zap-generated/ promise, proved for any requests and  *)
(* any reads: every request gets one answer, every cluster of the tables   *)
(* is served, every listed command has a handler, commissioning is for     *)
(* administrators, and every attribute keeps to its own bytes of the       *)
(* store.                                                                  *)
(*                                                                         *)
(* The tables are constants, so most lemmas evaluate them: first what is   *)
(* in each row, then what the rows say together, then the two machines     *)
(* that read them, CommandDispatch and AttributeStore.                     *)
(***************************************************************************)
EXTENDS CommandDispatch, AttributeStore, FiniteSetTheorems, TLAPS

-----------------------------------------------------------------------------
(* Sequences by position. The tables are concatenations of short pieces;    *)
(* these facts say which cell of the whole a cell of a piece is.            *)

\* s is the list of its first n cells.
List(s, n) == s = [i \in 1..n |-> s[i]]

(* A list of n cells with values in S is a sequence of length n over S.     *)
LEMMA ListIsSeq ==
  ASSUME NEW n \in Nat, NEW s, NEW S, List(s, n), \A i \in 1..n : s[i] \in S
  PROVE  s \in Seq(S) /\ Len(s) = n
<1>1. [i \in 1..n |-> s[i]] \in Seq(S)
  OBVIOUS
<1>2. Len([i \in 1..n |-> s[i]]) = n
  OBVIOUS
<1> QED BY <1>1, <1>2 DEF List

(* A sequence is the list of its cells.                                     *)
LEMMA SeqIsList ==
  ASSUME NEW S, NEW s \in Seq(S)
  PROVE  List(s, Len(s))
BY DEF List

\* u is s, of m cells, with t, of n cells, behind it.
End2End(u, s, m, t, n) ==
  /\ List(u, m + n)
  /\ \A i \in 1..m : u[i] = s[i]
  /\ \A i \in 1..n : u[m + i] = t[i]

(* Concatenation puts one list behind the other. The generated tables are   *)
(* concatenations, and the code refers to their rows by position.           *)
LEMMA Joined ==
  ASSUME NEW m \in Nat, NEW n \in Nat, NEW s, NEW t, List(s, m), List(t, n)
  PROVE  End2End(s \o t, s, m, t, n)
<1> DEFINE S == {s[i] : i \in 1..m} \cup {t[i] : i \in 1..n}
<1>1. s \in Seq(S) /\ Len(s) = m
  <2>1. \A i \in 1..m : s[i] \in S
    OBVIOUS
  <2> HIDE DEF S
  <2> QED BY <2>1, ListIsSeq
<1>2. t \in Seq(S) /\ Len(t) = n
  <2>1. \A i \in 1..n : t[i] \in S
    OBVIOUS
  <2> HIDE DEF S
  <2> QED BY <2>1, ListIsSeq
<1> HIDE DEF S
<1>3. s \o t \in Seq(S) /\ Len(s \o t) = m + n
  BY <1>1, <1>2
<1>4. List(s \o t, m + n)
  BY <1>3, SeqIsList
<1>5. \A i \in 1..m : (s \o t)[i] = s[i]
  BY <1>1, <1>2
<1>6. \A i \in 1..n : (s \o t)[m + i] = t[i]
  BY <1>1, <1>2
<1> QED BY <1>4, <1>5, <1>6 DEF End2End

\* The n cells of s are those of the list L from position o on.
Copy(s, n, o, L) == List(s, n) /\ \A i \in 1..n : s[i] = L[o + i]

(* Two pieces that copy adjoining parts of a list copy both parts together. *)
LEMMA CopyJoined ==
  ASSUME NEW L, NEW m \in Nat, NEW n \in Nat, NEW s, NEW t,
         Copy(s, m, 0, L), Copy(t, n, m, L)
  PROVE  Copy(s \o t, m + n, 0, L)
<1>1. /\ List(s, m) /\ List(t, n)
      /\ \A i \in 1..m : s[i] = L[i]
      /\ \A i \in 1..n : t[i] = L[m + i]
  <2>1. \A i \in 1..m : 0 + i = i
    OBVIOUS
  <2> QED BY <2>1 DEF Copy
<1>2. /\ List(s \o t, m + n)
      /\ \A i \in 1..m : (s \o t)[i] = s[i]
      /\ \A i \in 1..n : (s \o t)[m + i] = t[i]
  <2>1. End2End(s \o t, s, m, t, n)
    BY <1>1, Joined
  <2> QED BY <2>1 DEF End2End
<1>3. \A i \in 1..m + n : (s \o t)[i] = L[i]
  <2> TAKE i \in 1..m + n
  <2>1. CASE i \in 1..m
    BY <1>1, <1>2, <2>1
  <2>2. CASE i \notin 1..m
    <3>1. i - m \in 1..n /\ m + (i - m) = i
      BY <2>2
    <3>2. (s \o t)[m + (i - m)] = t[i - m] /\ t[i - m] = L[m + (i - m)]
      BY ONLY <3>1, <1>1, <1>2
    <3> QED BY <3>1, <3>2
  <2> QED BY <2>1, <2>2
<1>4. \A i \in 1..m + n : 0 + i = i
  OBVIOUS
<1> QED BY <1>2, <1>3, <1>4 DEF Copy

\* GENERATED_COMMANDS, cell by cell.
CommandTable ==
  <<0, 2, 4, End, 1, 3, 5, End, 0, 3, 4, 6, 8, End, 1, 5, 7, End, 0, End, 1, End, 0, 1, End, 2, End,
    0, End, 0, 1, 2, End, 0, 2, 4, 6, 7, 9, 10, 11, 12, 13, End, 1, 3, 5, 8, 14, End,
    0, 1, 3, 4, End, 2, 5, End, 0, 2, 3, End, 1, 4, End, 0, End>>

(* The lists of commands, end to end, are that array of 67 cells.           *)
LEMMA CommandsAre == Copy(Commands, 67, 0, CommandTable)
<1>1. /\ Copy(<<0, 2, 4, End>>, 4, 0, CommandTable)
      /\ Copy(<<1, 3, 5, End>>, 4, 4, CommandTable)
      /\ Copy(<<0, 3, 4, 6, 8, End>>, 6, 8, CommandTable)
      /\ Copy(<<1, 5, 7, End>>, 4, 14, CommandTable)
      /\ Copy(<<0, End>>, 2, 18, CommandTable)
      /\ Copy(<<1, End>>, 2, 20, CommandTable)
  BY SMTT(60) DEF Copy, List, CommandTable
<1>2. /\ Copy(<<0, 1, End>>, 3, 22, CommandTable)
      /\ Copy(<<2, End>>, 2, 25, CommandTable)
      /\ Copy(<<0, End>>, 2, 27, CommandTable)
      /\ Copy(<<0, 1, 2, End>>, 4, 29, CommandTable)
      /\ Copy(<<0, 2, 4, 6, 7, 9, 10, 11, 12, 13, End>>, 11, 33, CommandTable)
  BY SMTT(60) DEF Copy, List, CommandTable
<1>3. /\ Copy(<<1, 3, 5, 8, 14, End>>, 6, 44, CommandTable)
      /\ Copy(<<0, 1, 3, 4, End>>, 5, 50, CommandTable)
      /\ Copy(<<2, 5, End>>, 3, 55, CommandTable)
      /\ Copy(<<0, 2, 3, End>>, 4, 58, CommandTable)
      /\ Copy(<<1, 4, End>>, 3, 62, CommandTable)
      /\ Copy(<<0, End>>, 2, 65, CommandTable)
  BY SMTT(60) DEF Copy, List, CommandTable
<1> QED BY <1>1, <1>2, <1>3, CopyJoined, SMTT(60) DEF Commands

(* GENERATED_CLUSTERS are the 15 clusters of endpoint 0 and, behind them,   *)
(* the 5 of endpoint 1.                                                     *)
LEMMA ClustersAre ==
  /\ Len(Clusters) = 20
  /\ \A c \in 0..14 : ClusterAt(c) = RootClusters[c + 1]
  /\ \A c \in 15..19 : ClusterAt(c) = SensorClusters[c - 14]
<1>1. List(RootClusters, 15) /\ List(SensorClusters, 5)
  BY SMT DEF List, RootClusters, SensorClusters
<1>2. End2End(Clusters, RootClusters, 15, SensorClusters, 5)
  BY <1>1, Joined DEF Clusters
<1>3. List(Clusters, 20)
  BY <1>2 DEF End2End
<1>4. Len(Clusters) = 20
  <2>1. \A i \in 1..20 : Clusters[i] \in {Clusters[j] : j \in 1..20}
    OBVIOUS
  <2> DEFINE S == {Clusters[j] : j \in 1..20}
  <2> HIDE DEF S
  <2>2. \A i \in 1..20 : Clusters[i] \in S
    BY <2>1 DEF S
  <2> QED BY <1>3, <2>2, ListIsSeq
<1>5. \A c \in 15..19 : Clusters[c + 1] = SensorClusters[c - 14]
  <2> TAKE c \in 15..19
  <2>1. c - 14 \in 1..5 /\ 15 + (c - 14) = c + 1
    OBVIOUS
  <2>2. Clusters[15 + (c - 14)] = SensorClusters[c - 14]
    BY ONLY <1>2, <2>1 DEF End2End
  <2> QED BY <2>1, <2>2
<1>6. \A c \in 0..14 : Clusters[c + 1] = RootClusters[c + 1]
  BY <1>2 DEF End2End
<1> QED BY <1>4, <1>5, <1>6 DEF ClusterAt

(* The columns of GENERATED_CLUSTERS: id, first attribute, number of        *)
(* attributes, first accepted command.                                      *)
Names ==
  <<"Descriptor", "AccessControl", "BasicInformation", "OtaSoftwareUpdateProvider",
    "OtaSoftwareUpdateRequestor", "GeneralCommissioning", "NetworkCommissioning",
    "DiagnosticLogs", "GeneralDiagnostics", "SoftwareDiagnostics", "ThreadNetworkDiagnostics",
    "AdministratorCommissioning", "OperationalCredentials", "GroupKeyManagement",
    "IcdManagement", "Identify", "Descriptor", "PowerSource", "TemperatureMeasurement",
    "RelativeHumidityMeasurement">>
Firsts == <<0, 6, 13, 33, 33, 39, 46, 58, 60, 67, 71, 136, 141, 149, 155, 167, 171, 177, 191, 196>>
Counts == <<6, 7, 20, 0, 6, 7, 12, 2, 7, 4, 65, 5, 8, 6, 12, 4, 6, 14, 5, 5>>
Accepts == <<-1, -1, -1, -1, -1, 0, 8, 18, 22, -1, 27, 29, 33, 50, 58, 65, -1, -1, -1, -1>>

(* Every row of GENERATED_CLUSTERS has the values of these columns, and all *)
(* but the fourth are servers.                                              *)
LEMMA ClusterRows ==
  \A c \in 0..19 :
    /\ ClusterAt(c).id = Names[c + 1]
    /\ ClusterAt(c).server <=> c # 3
    /\ ClusterAt(c).first = Firsts[c + 1]
    /\ ClusterAt(c).count = Counts[c + 1]
    /\ ClusterAt(c).accepted = Accepts[c + 1]
<1>1. \A c \in 0..14 :
    /\ RootClusters[c + 1].id = Names[c + 1]
    /\ RootClusters[c + 1].server <=> c # 3
    /\ RootClusters[c + 1].first = Firsts[c + 1]
    /\ RootClusters[c + 1].count = Counts[c + 1]
    /\ RootClusters[c + 1].accepted = Accepts[c + 1]
  <2>1. \A c \in 0..14 : RootClusters[c + 1].id = Names[c + 1]
    BY SMTT(60) DEF RootClusters, Cluster, Names, NoList
  <2>2. \A c \in 0..14 : RootClusters[c + 1].first = Firsts[c + 1]
    BY SMTT(60) DEF RootClusters, Cluster, Firsts, NoList
  <2>3. \A c \in 0..14 : RootClusters[c + 1].count = Counts[c + 1]
    BY SMTT(60) DEF RootClusters, Cluster, Counts, NoList
  <2>4. \A c \in 0..14 : RootClusters[c + 1].accepted = Accepts[c + 1]
    BY SMTT(60) DEF RootClusters, Cluster, Accepts, NoList
  <2>5. \A c \in 0..14 : RootClusters[c + 1].server <=> c # 3
    BY SMTT(60) DEF RootClusters, Cluster, NoList
  <2> QED BY <2>1, <2>2, <2>3, <2>4, <2>5
<1>2. \A c \in 15..19 :
    /\ SensorClusters[c - 14].id = Names[c + 1]
    /\ SensorClusters[c - 14].server <=> c # 3
    /\ SensorClusters[c - 14].first = Firsts[c + 1]
    /\ SensorClusters[c - 14].count = Counts[c + 1]
    /\ SensorClusters[c - 14].accepted = Accepts[c + 1]
  <2>1. \A c \in 15..19 : SensorClusters[c - 14].id = Names[c + 1]
    BY SMTT(60) DEF SensorClusters, Cluster, Names, NoList
  <2>2. \A c \in 15..19 : SensorClusters[c - 14].first = Firsts[c + 1]
    BY SMTT(60) DEF SensorClusters, Cluster, Firsts, NoList
  <2>3. \A c \in 15..19 : SensorClusters[c - 14].count = Counts[c + 1]
    BY SMTT(60) DEF SensorClusters, Cluster, Counts, NoList
  <2>4. \A c \in 15..19 : SensorClusters[c - 14].accepted = Accepts[c + 1]
    BY SMTT(60) DEF SensorClusters, Cluster, Accepts, NoList
  <2>5. \A c \in 15..19 : SensorClusters[c - 14].server <=> c # 3
    BY SMTT(60) DEF SensorClusters, Cluster, NoList
  <2> QED BY <2>1, <2>2, <2>3, <2>4, <2>5
<1> QED BY <1>1, <1>2, ClustersAre

(* Endpoint 0 has clusters 0 to 14 and endpoint 1 has 15 to 19, so each     *)
(* cluster is on one endpoint.                                              *)
LEMMA EndpointRows ==
  /\ Endpoints = {0, 1} /\ ClustersOf(0) = 0..14 /\ ClustersOf(1) = 15..19
  /\ \A c \in 0..19 : EndpointOf(c) = IF c < 15 THEN 0 ELSE 1
<1>1. Endpoints = {0, 1}
  BY SMT DEF Endpoints, EndpointTypes
<1>2. ClustersOf(0) = 0..14 /\ ClustersOf(1) = 15..19
  BY SMT DEF ClustersOf, EndpointAt, EndpointTypes
<1>3. \A c \in 0..19 : EndpointOf(c) = IF c < 15 THEN 0 ELSE 1
  <2> TAKE c \in 0..19
  <2>1. \A e \in Endpoints : c \in ClustersOf(e) <=> e = (IF c < 15 THEN 0 ELSE 1)
    BY <1>1, <1>2
  <2> QED BY <2>1, <1>1 DEF EndpointOf
<1> QED BY <1>1, <1>2, <1>3

(* Only Descriptor is on both endpoints; no endpoint has a cluster twice.   *)
LEMMA DistinctNames ==
  \A c, d \in 0..19 : Names[c + 1] = Names[d + 1] =>
    c = d \/ (c = 0 /\ d = 16) \/ (c = 16 /\ d = 0)
BY SMTT(60) DEF Names

-----------------------------------------------------------------------------
(* Answers.                                                                 *)

\* A request is unanswered until the step that ends it.
AnswerInv ==
  /\ stage \in {"idle", "exists", "access", "dispatch", "done"}
  /\ stage # "idle" => req \in Requests
  /\ stage \in {"exists", "access", "dispatch"} => answers = <<>>
  /\ AnsweredOnce

(* Answering a request that has no answer yet ends it with one (every       *)
(* AddStatus and response of the code is such a step).                      *)
LEMMA OneAnswer ==
  ASSUME NEW status, answers = <<>>, Answer(status), req \in Requests
  PROVE  AnswerInv'
<1>1. answers' = <<status>> BY DEF Answer
<1>2. Len(answers') = 1 BY <1>1
<1> QED BY <1>2 DEF AnswerInv, AnsweredOnce, Answer

(* DispatchSingleClusterCommand adds a status exactly when no callback has  *)
(* answered: unknown cluster or command, undecodable, or declined.          *)
LEMMA DispatcherAnswersOnce ==
  ASSUME answers = <<>>, DispatchSingleClusterCommand, req \in Requests
  PROVE  AnswerInv'
<1> DEFINE known == req.id \in Dispatched(req.cluster)
           dispatched == req.cluster \in {"IcdManagement", "ThreadNetworkDiagnostics"}
<1>1. req.decodes \in BOOLEAN /\ req.accepts \in BOOLEAN BY RequestsAssumption
<1>2. ~dispatched => ~known BY DEF Dispatched
<1>3. ErrorStatus = "Success" <=> (known /\ req.decodes /\ req.accepts)
  <2>1. CASE ~dispatched BY <2>1, <1>2 DEF ErrorStatus
  <2>2. CASE dispatched BY <2>2, <1>1 DEF ErrorStatus, ServerCommandStatus
  <2> QED BY <2>1, <2>2
<1>4. ran' = (known /\ req.decodes) BY DEF DispatchSingleClusterCommand
<1>5. answers' = <<>> \o (IF ran' /\ req.accepts THEN <<"done">> ELSE <<>>) \o AddStatus
  BY DEF DispatchSingleClusterCommand
<1>6. Len(answers') = 1
  <2>1. CASE ErrorStatus = "Success"
    <3>1. answers' = <<>> \o <<"done">> \o <<>> BY <2>1, <1>3, <1>4, <1>5 DEF AddStatus
    <3> QED BY <3>1
  <2>2. CASE ErrorStatus # "Success"
    <3>1. answers' = <<>> \o <<>> \o <<ErrorStatus>> BY <2>2, <1>3, <1>4, <1>5, <1>1 DEF AddStatus
    <3> QED BY <3>1
  <2> QED BY <2>1, <2>2
<1> QED BY <1>6 DEF AnswerInv, AnsweredOnce, DispatchSingleClusterCommand

(* Every step of the servers and of a request keeps the invariant.          *)
LEMMA AnswerStep == AnswerInv /\ [Next]_vars => AnswerInv'
<1> SUFFICES ASSUME AnswerInv, [Next]_vars PROVE AnswerInv' OBVIOUS
<1>1. CASE UNCHANGED request \/ UNCHANGED vars
  BY <1>1 DEF request, vars, AnswerInv, AnsweredOnce
<1>2. CASE Start \/ InitCluster \/ PluginsInit \/ Serve \/ Stop \/ ShutdownCluster \/ Down
  <2>1. UNCHANGED request
    BY <1>2 DEF Start, InitCluster, PluginsInit, Serve, Stop, ShutdownCluster, Down
  <2> QED BY <2>1, <1>1
<1>3. CASE Receive
  BY <1>3 DEF Receive, AnswerInv, AnsweredOnce
<1>4. CASE CheckExists
  <2>1. CASE Advance("access")
    BY <1>4, <2>1 DEF CheckExists, Advance, AnswerInv, AnsweredOnce
  <2>2. CASE Answer("Unsupported")
    BY <1>4, <2>2, OneAnswer DEF CheckExists, AnswerInv
  <2> QED BY <1>4, <2>1, <2>2 DEF CheckExists
<1>5. CASE CheckAccess
  <2>1. CASE Advance("dispatch")
    BY <1>5, <2>1 DEF CheckAccess, Advance, AnswerInv, AnsweredOnce
  <2>2. CASE Answer("UnsupportedAccess")
    BY <1>5, <2>2, OneAnswer DEF CheckAccess, AnswerInv
  <2> QED BY <1>5, <2>1, <2>2 DEF CheckAccess
<1>6. CASE ServeAttribute
  BY <1>6, OneAnswer DEF ServeAttribute, AnswerInv
<1>7. CASE InvokeHandler
  BY <1>7, OneAnswer DEF InvokeHandler, AnswerInv
<1>8. CASE DispatchSingleClusterCommand
  <2>1. answers = <<>> /\ req \in Requests
    BY <1>8 DEF DispatchSingleClusterCommand, AnswerInv
  <2> QED BY <1>8, <2>1, DispatcherAnswersOnce
<1>9. CASE Finish
  BY <1>9 DEF Finish, AnswerInv, AnsweredOnce
<1> QED BY <1>1, <1>2, <1>3, <1>4, <1>5, <1>6, <1>7, <1>8, <1>9 DEF Next

(* For every set of requests, a request ends with exactly one answer: no    *)
(* path through the checks of the SDK, the code of a cluster or             *)
(* DispatchSingleClusterCommand leaves it without one or adds a second.     *)
THEOREM AnsweredExactlyOnce == Spec => []AnsweredOnce
<1>1. Init => AnswerInv BY DEF Init, AnswerInv, AnsweredOnce
<1>2. AnswerInv => AnsweredOnce BY DEF AnswerInv
<1> QED BY <1>1, <1>2, AnswerStep, PTL DEF Spec

-----------------------------------------------------------------------------
(* The servers of the clusters.                                             *)

(* Clusters that MatterClusterServerInitCallback has a case for, and the    *)
(* instances of a range of clusters.                                        *)
Coded(c) == ClusterAt(c).server /\ ClusterAt(c).id \in InitCases
CodedIn(lo, hi) == {Instance(c) : c \in {c \in lo .. hi : Coded(c)}}
InstancesIn(lo, hi) == {Instance(c) : c \in lo .. hi}

(* While the clusters are started or stopped one by one, what is registered *)
(* is what the position in the tables says: the coded clusters before it    *)
(* when starting, those from it on when stopping.                           *)
ServersInv ==
  /\ life \in {"down", "starting", "serving", "stopping"}
  /\ pos \in 0 .. 20
  /\ life = "down" => registered = {}
  /\ life = "starting" => /\ registered = CodedIn(0, pos - 1)
                          /\ called = InstancesIn(0, pos - 1)
                          /\ plugins \in {{}, PluginServers}
  /\ life = "serving" => /\ registered = CodedIn(0, 19)
                         /\ called = InstancesIn(0, 19)
                         /\ plugins = PluginServers
  /\ life = "stopping" => registered = CodedIn(pos, 19)

(* Endpoint and name tell two clusters apart.                               *)
LEMMA InstancesDiffer ==
  \A c, d \in 0..19 : Instance(c) = Instance(d) => c = d
<1> SUFFICES ASSUME NEW c \in 0..19, NEW d \in 0..19, Instance(c) = Instance(d)
             PROVE  c = d
  OBVIOUS
<1>1. EndpointOf(c) = EndpointOf(d) /\ ClusterAt(c).id = ClusterAt(d).id
  BY DEF Instance
<1>2. Names[c + 1] = Names[d + 1]
  BY <1>1, ClusterRows
<1>3. ~(c = 0 /\ d = 16) /\ ~(c = 16 /\ d = 0)
  BY <1>1, EndpointRows
<1> QED BY <1>2, <1>3, DistinctNames

(* gen_config.h counts a coded cluster on as many endpoints as have it, has *)
(* a plug-in for every cluster but the client, and every cluster has its    *)
(* case in emberAfClusterInitCallback.                                      *)
LEMMA CountedServers ==
  /\ \A c \in 0..19 : Coded(c) =>
       ServerEndpointCount(Names[c + 1]) = IF c \in {0, 16} THEN 2 ELSE 1
  /\ \A c \in 0..19 : Names[c + 1] \in PluginServers \cup {"OtaSoftwareUpdateProvider"}
  /\ \A c \in 0..19 : Names[c + 1] \in EmberInitCases
<1>1. \A c \in 0..19 : Names[c + 1] \in InitCases =>
       ServerEndpointCount(Names[c + 1]) = IF c \in {0, 16} THEN 2 ELSE 1
  BY SMTT(60) DEF Names, InitCases, ServerEndpointCount, OneServer
<1>2. \A c \in 0..19 : Names[c + 1] \in PluginServers \cup {"OtaSoftwareUpdateProvider"}
  BY SMTT(60) DEF Names, PluginServers, OneServer
<1>3. \A c \in 0..19 : Names[c + 1] \in EmberInitCases
  BY SMTT(60) DEF Names, EmberInitCases
<1> QED BY <1>1, <1>2, <1>3, ClusterRows DEF Coded

(* A coded cluster finds a free slot: what is registered under its name so  *)
(* far is at most the other Descriptor, and gen_config.h counts two of      *)
(* them.                                                                    *)
LEMMA SlotFree ==
  ASSUME NEW c \in 0..19, Coded(c), registered = CodedIn(0, c - 1)
  PROVE  HasSlot(ClusterAt(c).id)
<1> DEFINE same == {i \in registered : i[2] = ClusterAt(c).id}
<1>1. \A i \in same : \E d \in 0..c - 1 : i = Instance(d) /\ Names[d + 1] = Names[c + 1]
  <2> TAKE i \in same
  <2> PICK d \in 0..c - 1 : i = Instance(d)
    BY DEF CodedIn
  <2>1. i[2] = Names[d + 1]
    BY ClusterRows DEF Instance
  <2> QED BY <2>1, ClusterRows
<1>2. \A i \in same : c = 16 /\ i = Instance(0)
  <2> TAKE i \in same
  <2> PICK d \in 0..c - 1 : i = Instance(d) /\ Names[d + 1] = Names[c + 1]
    BY <1>1
  <2> QED BY DistinctNames
<1>3. ServerEndpointCount(ClusterAt(c).id) = IF c \in {0, 16} THEN 2 ELSE 1
  BY CountedServers, ClusterRows
<1>4. CASE c = 16
  <2>1. same = {} \/ same = {Instance(0)}
    BY <1>2
  <2>2. Cardinality(same) < 2
    <3>1. Cardinality({}) = 0 /\ Cardinality({Instance(0)}) = 1
      BY FS_EmptySet, FS_Singleton
    <3> HIDE DEF same
    <3> QED BY <2>1, <3>1
  <2> QED BY <1>3, <1>4, <2>2 DEF HasSlot
<1>5. CASE c # 16
  <2>1. same = {}
    BY <1>2, <1>5
  <2>2. Cardinality(same) = 0
    BY <2>1, FS_EmptySet
  <2> QED BY <1>3, <2>2 DEF HasSlot
<1> QED BY <1>4, <1>5

(* Starting the next cluster keeps the invariant: a coded one is registered *)
(* because its slot is free.                                                *)
LEMMA ClusterStarts ==
  ASSUME ServersInv, InitCluster
  PROVE  ServersInv'
<1>1. /\ life = "starting" /\ life' = "starting" /\ pos \in 0..19 /\ pos' = pos + 1
      /\ registered = CodedIn(0, pos - 1) /\ called = InstancesIn(0, pos - 1)
      /\ plugins' \in {{}, PluginServers}
  BY ClustersAre DEF ServersInv, InitCluster
<1>2. called' = InstancesIn(0, pos)
  <2>1. ClusterAt(pos).id \in EmberInitCases
    BY <1>1, CountedServers, ClusterRows
  <2>2. called' = called \cup {Instance(pos)}
    BY <2>1 DEF InitCluster, EmberInit
  <2>3. 0 .. pos = (0 .. pos - 1) \cup {pos}
    BY <1>1
  <2> QED BY <1>1, <2>2, <2>3 DEF InstancesIn
<1>3. registered' = CodedIn(0, pos)
  <2>1. registered' = registered \cup (IF Coded(pos) THEN {Instance(pos)} ELSE {})
    BY <1>1, SlotFree DEF InitCluster, ServerInit, Coded
  <2>2. 0 .. pos = (0 .. pos - 1) \cup {pos}
    BY <1>1
  <2> QED BY <1>1, <2>1, <2>2 DEF CodedIn
<1>4. pos' - 1 = pos /\ pos' \in 0..20
  BY <1>1
<1> QED BY <1>1, <1>2, <1>3, <1>4 DEF ServersInv

(* Stopping the next cluster keeps the invariant: the second switch has     *)
(* every case of the first.                                                 *)
LEMMA ClusterStops ==
  ASSUME ServersInv, ShutdownCluster
  PROVE  ServersInv'
<1>1. /\ life = "stopping" /\ life' = "stopping" /\ pos \in 0..19 /\ pos' = pos + 1
      /\ registered = CodedIn(pos, 19)
  BY ClustersAre DEF ServersInv, ShutdownCluster
<1>2. registered' = registered \ (IF Coded(pos) THEN {Instance(pos)} ELSE {})
  BY DEF ShutdownCluster, ServerShutdown, Coded, InitCases, ShutdownCases
<1>3. pos .. 19 = {pos} \cup (pos + 1 .. 19) /\ pos \notin pos + 1 .. 19
      /\ \A c \in pos + 1 .. 19 : c \in 0..19 /\ c # pos
  BY <1>1
<1>4. \A c \in pos + 1 .. 19 : Instance(c) # Instance(pos)
  BY <1>1, <1>3, InstancesDiffer
<1>5. registered' = CodedIn(pos + 1, 19)
  BY <1>1, <1>2, <1>3, <1>4 DEF CodedIn
<1> QED BY <1>1, <1>5 DEF ServersInv

(* Every step keeps the invariant of the servers.                           *)
LEMMA ServersStep == ServersInv /\ [Next]_vars => ServersInv'
<1> SUFFICES ASSUME ServersInv, [Next]_vars PROVE ServersInv'
  OBVIOUS
<1>1. CASE Start
  <2>1. CodedIn(0, 0 - 1) = {} /\ InstancesIn(0, 0 - 1) = {}
    BY DEF CodedIn, InstancesIn
  <2> QED BY <1>1, <2>1 DEF Start, ServersInv
<1>2. CASE InitCluster
  BY <1>2, ClusterStarts
<1>3. CASE PluginsInit
  BY <1>3 DEF PluginsInit, ServersInv
<1>4. CASE Serve
  <2>1. pos = 20 /\ pos - 1 = 19
    BY <1>4, ClustersAre DEF Serve
  <2> QED BY <1>4, <2>1 DEF Serve, ServersInv
<1>5. CASE Stop
  BY <1>5 DEF Stop, ServersInv
<1>6. CASE ShutdownCluster
  BY <1>6, ClusterStops
<1>7. CASE Down
  <2>1. pos = 20
    BY <1>7, ClustersAre DEF Down
  <2>2. CodedIn(20, 19) = {}
    BY DEF CodedIn
  <2> QED BY <1>7, <2>1, <2>2 DEF Down, ServersInv
<1>8. CASE Receive \/ CheckExists \/ CheckAccess \/ ServeAttribute \/ InvokeHandler
           \/ DispatchSingleClusterCommand \/ Finish \/ UNCHANGED vars
  <2>1. UNCHANGED servers
    BY <1>8 DEF Receive, CheckExists, CheckAccess, ServeAttribute, InvokeHandler,
                DispatchSingleClusterCommand, Finish, Answer, Advance, vars
  <2> QED BY <2>1 DEF servers, ServersInv
<1> QED BY <1>1, <1>2, <1>3, <1>4, <1>5, <1>6, <1>7, <1>8 DEF Next

(* So it holds after any number of restarts.                                *)
LEMMA ServersInvHolds == Spec => []ServersInv
<1>1. Init => ServersInv
  BY DEF Init, ServersInv
<1> QED BY <1>1, ServersStep, PTL DEF Spec

(* The two sets of the property are the ranges of the invariant.            *)
LEMMA InstancesAre == CodeDriven = CodedIn(0, 19) /\ AllInstances = InstancesIn(0, 19)
<1>1. Len(Clusters) - 1 = 19
  BY ClustersAre
<1> QED BY <1>1 DEF CodeDriven, AllInstances, Instances, CodedIn, InstancesIn, Coded

(* A node that serves has all clusters of its tables running and one that   *)
(* is down has none left, after any number of restarts (ServersPaired).     *)
THEOREM EveryClusterServed == Spec => []ServersPaired
<1>1. ServersInv => ServersPaired
  <2> SUFFICES ASSUME ServersInv PROVE ServersPaired
    OBVIOUS
  <2>1. \A i \in InstancesIn(0, 19) : i[2] \in PluginServers \/ i[2] = "OtaSoftwareUpdateProvider"
    <3> TAKE i \in InstancesIn(0, 19)
    <3> PICK c \in 0..19 : i = Instance(c)
      BY DEF InstancesIn
    <3>1. i[2] = Names[c + 1]
      BY ClusterRows DEF Instance
    <3> QED BY <3>1, CountedServers
  <2> QED BY <2>1, InstancesAre DEF ServersInv, ServersPaired
<1> QED BY <1>1, ServersInvHolds, PTL

\* What a request can be answered.
Statuses == {"done", "Unsupported", "UnsupportedAccess", "UnsupportedCommand",
             "UnsupportedCluster", "InvalidCommand"}

(* Every step keeps the types: what is called or registered is a cluster of *)
(* the tables, and every answer is one of these.                            *)
LEMMA TypeStep == TypeOK /\ [Next]_vars => TypeOK'
<1> SUFFICES ASSUME TypeOK, [Next]_vars PROVE TypeOK'
  OBVIOUS
<1>0. "done" \in Statuses /\ <<>> \in Seq(Statuses) /\ <<"done">> \in Seq(Statuses)
  <2>1. "done" \in Statuses
    BY DEF Statuses
  <2> QED BY <2>1
<1>1. CASE UNCHANGED vars
  BY <1>1 DEF vars, servers, request, TypeOK
<1>2. CASE InitCluster
  <2>1. pos \in 0..19 /\ pos' = pos + 1 /\ pos' \in 0 .. Len(Clusters)
    BY <1>2, ClustersAre, SMTT(60) DEF InitCluster, TypeOK
  <2>2. Instance(pos) \in AllInstances
    BY <2>1, InstancesAre DEF InstancesIn
  <2>3. called' \subseteq AllInstances /\ registered' \subseteq AllInstances
    BY <1>2, <2>2 DEF InitCluster, EmberInit, ServerInit, TypeOK
  <2> QED BY <1>2, <2>1, <2>3 DEF InitCluster, TypeOK, request
<1>3. CASE PluginsInit
  <2>1. PluginServers \subseteq OneServer \cup {"Descriptor"}
    BY Zenon DEF PluginServers, OneServer
  <2> QED BY <1>3, <2>1 DEF PluginsInit, TypeOK, request
<1>4. CASE Start \/ Serve \/ Stop \/ ShutdownCluster \/ Down
  <2>1. pos' \in 0 .. Len(Clusters)
    BY <1>4, ClustersAre, SMTT(60) DEF Start, Serve, Stop, ShutdownCluster, Down, TypeOK
  <2>2. called' \subseteq called /\ registered' \subseteq registered
    BY <1>4 DEF Start, Serve, Stop, ShutdownCluster, ServerShutdown, Down
  <2>3. life' \in {"down", "starting", "serving", "stopping"} /\ plugins' \in {{}, plugins}
        /\ UNCHANGED request
    BY <1>4 DEF Start, Serve, Stop, ShutdownCluster, Down, TypeOK
  <2> QED BY <2>1, <2>2, <2>3 DEF TypeOK, request
<1>5. CASE Receive \/ Finish
  <2>1. answers' \in Seq(Statuses)
    BY <1>0, <1>5 DEF Receive, Finish
  <2>2. req' \in Requests \cup {NoRequest} /\ stage' \in {"exists", "idle"} /\ ran' = FALSE
        /\ UNCHANGED servers
    BY <1>5 DEF Receive, Finish
  <2> QED BY <2>1, <2>2 DEF TypeOK, servers, Statuses
<1>6. ASSUME NEW status \in Statuses, Answer(status), ran' \in BOOLEAN PROVE TypeOK'
  BY <1>6 DEF Answer, TypeOK, servers, Statuses
<1>7. CASE CheckExists \/ CheckAccess
  <2>1. CASE UNCHANGED <<servers, req, answers, ran>> /\ stage' \in {"access", "dispatch"}
    BY <2>1 DEF TypeOK, servers
  <2>2. CASE (Answer("Unsupported") \/ Answer("UnsupportedAccess")) /\ UNCHANGED ran
    BY <1>6, <2>2 DEF TypeOK, Statuses
  <2> QED BY <1>7, <2>1, <2>2 DEF CheckExists, CheckAccess, Advance
<1>8. CASE ServeAttribute \/ InvokeHandler
  <2>1. ran' \in BOOLEAN
    <3>1. CASE ServeAttribute
      BY <3>1 DEF ServeAttribute
    <3>2. CASE InvokeHandler
      <4>1. req \in Requests
        BY <3>2 DEF InvokeHandler, TypeOK, NoRequest
      <4>2. req.decodes \in BOOLEAN
        BY <4>1, RequestsAssumption
      <4> QED BY <3>2, <4>2 DEF InvokeHandler
    <3> QED BY <1>8, <3>1, <3>2
  <2>2. Answer("done") \/ Answer("InvalidCommand")
    BY <1>8 DEF ServeAttribute, InvokeHandler
  <2> QED BY <1>6, <2>1, <2>2 DEF Statuses
<1>9. CASE DispatchSingleClusterCommand
  <2>1. ErrorStatus \in Statuses \cup {"Success"}
    BY DEF ErrorStatus, ServerCommandStatus, Statuses
  <2>2. AddStatus \in Seq(Statuses)
    BY <2>1 DEF AddStatus
  <2>3. (IF ran' /\ req.accepts THEN <<"done">> ELSE <<>>) \in Seq(Statuses)
    BY <1>0
  <2>4. answers' \in Seq(Statuses)
    BY <1>9, <2>2, <2>3 DEF DispatchSingleClusterCommand, TypeOK, Statuses
  <2>5. ran' \in BOOLEAN
    BY <1>9, RequestsAssumption DEF DispatchSingleClusterCommand, TypeOK, NoRequest
  <2> QED BY <1>9, <2>4, <2>5 DEF DispatchSingleClusterCommand, TypeOK, servers, Statuses
<1> QED BY <1>1, <1>2, <1>3, <1>4, <1>5, <1>7, <1>8, <1>9 DEF Next

(* Type correctness of the command dispatch, for any set of requests.       *)
THEOREM TypeCorrect == Spec => []TypeOK
<1>1. Init => TypeOK
  <2>1. 0 \in 0 .. Len(Clusters) /\ <<>> \in Seq(Statuses)
    BY ClustersAre
  <2> QED BY <2>1 DEF Init, TypeOK, Statuses
<1> QED BY <1>1, TypeStep, PTL DEF Spec

-----------------------------------------------------------------------------
(* The lists of accepted commands and the privileges of access.h.           *)

\* The list that starts at first ends before last.
Among(first, last) ==
  \A id \in CommandList(first) : \E k \in first + 1 .. last - 1 : id = CommandTable[k]

(* A list of accepted commands ends at the first kInvalidCommandId behind   *)
(* its start.                                                               *)
LEMMA ListEnds ==
  ASSUME NEW first \in 0..66, NEW last \in 1..67, first < last, CommandTable[last] = End
  PROVE  Among(first, last)
<1>1. Len(Commands) = 67 /\ \A i \in 1..67 : Commands[i] = CommandTable[i]
  <2>1. List(Commands, 67) /\ \A i \in 1..67 : 0 + i = i
    BY CommandsAre DEF Copy
  <2>2. \A i \in 1..67 : Commands[i] = CommandTable[i]
    BY <2>1, CommandsAre DEF Copy
  <2> DEFINE R == {Commands[j] : j \in 1..67}
  <2>3. \A i \in 1..67 : Commands[i] \in R
    OBVIOUS
  <2> HIDE DEF R
  <2>4. Len(Commands) = 67
    BY <2>1, <2>3, ListIsSeq
  <2> QED BY <2>2, <2>4
<1> SUFFICES ASSUME NEW id \in CommandList(first) 
             PROVE  \E k \in first + 1 .. last - 1 : id = CommandTable[k]
  BY DEF Among
<1> PICK k \in first + 1 .. 67 : /\ id = Commands[k]
                                 /\ \A j \in first + 1 .. k : Commands[j] # End
  BY <1>1 DEF CommandList
<1>2. k < last
  <2>1. ASSUME k >= last PROVE FALSE
    <3>1. last \in first + 1 .. k
      BY <2>1
    <3> QED BY <3>1, <1>1
  <2> QED BY <2>1
<1>3. k \in first + 1 .. last - 1 /\ k \in 1..67
  BY <1>2
<1> QED BY <1>1, <1>3

(* So these are the commands the clusters accept.                           *)
LEMMA AcceptedCommands ==
  /\ CommandList(NoList) = {}
  /\ CommandList(0) \subseteq {0, 2, 4}
  /\ CommandList(8) \subseteq {0, 3, 4, 6, 8}
  /\ CommandList(27) \subseteq {0}
  /\ CommandList(29) \subseteq {0, 1, 2}
  /\ CommandList(33) \subseteq {0, 2, 4, 6, 7, 9, 10, 11, 12, 13}
  /\ CommandList(50) \subseteq {0, 1, 3, 4}
  /\ CommandList(58) \subseteq {0, 2, 3}
<1>1. CommandList(NoList) = {}
  BY DEF CommandList
<1>2. CommandList(0) \subseteq {0, 2, 4}
  <2>1. CommandTable[4] = End /\ \A k \in 0 + 1 .. 4 - 1 : CommandTable[k] \in {0, 2, 4}
    BY SMT DEF CommandTable
  <2>2. Among(0, 4)
    BY ONLY <2>1, ListEnds
  <2> QED BY <2>1, <2>2 DEF Among
<1>3. CommandList(8) \subseteq {0, 3, 4, 6, 8}
  <2>1. /\ CommandTable[14] = End
        /\ \A k \in 8 + 1 .. 14 - 1 : CommandTable[k] \in {0, 3, 4, 6, 8}
    BY SMT DEF CommandTable
  <2>2. Among(8, 14)
    BY ONLY <2>1, ListEnds
  <2> QED BY <2>1, <2>2 DEF Among
<1>4. CommandList(27) \subseteq {0}
  <2>1. CommandTable[29] = End /\ \A k \in 27 + 1 .. 29 - 1 : CommandTable[k] \in {0}
    BY SMT DEF CommandTable
  <2>2. Among(27, 29)
    BY ONLY <2>1, ListEnds
  <2> QED BY <2>1, <2>2 DEF Among
<1>5. CommandList(29) \subseteq {0, 1, 2}
  <2>1. CommandTable[33] = End /\ \A k \in 29 + 1 .. 33 - 1 : CommandTable[k] \in {0, 1, 2}
    BY SMT DEF CommandTable
  <2>2. Among(29, 33)
    BY ONLY <2>1, ListEnds
  <2> QED BY <2>1, <2>2 DEF Among
<1>6. CommandList(33) \subseteq {0, 2, 4, 6, 7, 9, 10, 11, 12, 13}
  <2>1. /\ CommandTable[44] = End
        /\ \A k \in 33 + 1 .. 44 - 1 : CommandTable[k] \in {0, 2, 4, 6, 7, 9, 10, 11, 12, 13}
    BY SMT DEF CommandTable
  <2>2. Among(33, 44)
    BY ONLY <2>1, ListEnds
  <2> QED BY <2>1, <2>2 DEF Among
<1>7. CommandList(50) \subseteq {0, 1, 3, 4}
  <2>1. /\ CommandTable[55] = End
        /\ \A k \in 50 + 1 .. 55 - 1 : CommandTable[k] \in {0, 1, 3, 4}
    BY SMT DEF CommandTable
  <2>2. Among(50, 55)
    BY ONLY <2>1, ListEnds
  <2> QED BY <2>1, <2>2 DEF Among
<1>8. CommandList(58) \subseteq {0, 2, 3}
  <2>1. CommandTable[62] = End /\ \A k \in 58 + 1 .. 62 - 1 : CommandTable[k] \in {0, 2, 3}
    BY SMT DEF CommandTable
  <2>2. Among(58, 62)
    BY ONLY <2>1, ListEnds
  <2> QED BY <2>1, <2>2 DEF Among
<1> QED BY <1>1, <1>2, <1>3, <1>4, <1>5, <1>6, <1>7, <1>8

-----------------------------------------------------------------------------
(* The arrays of access.h for commands.                                     *)

\* The three arrays of access.h for commands, row by row.
InvokeClusters ==
  <<"Identify", "GeneralCommissioning", "GeneralCommissioning", "GeneralCommissioning",
    "NetworkCommissioning", "NetworkCommissioning", "NetworkCommissioning",
    "NetworkCommissioning", "NetworkCommissioning", "GeneralDiagnostics",
    "ThreadNetworkDiagnostics", "AdministratorCommissioning", "AdministratorCommissioning",
    "AdministratorCommissioning", "OperationalCredentials", "OperationalCredentials",
    "OperationalCredentials", "OperationalCredentials", "OperationalCredentials",
    "OperationalCredentials", "OperationalCredentials", "OperationalCredentials",
    "OperationalCredentials", "OperationalCredentials", "GroupKeyManagement",
    "GroupKeyManagement", "GroupKeyManagement", "GroupKeyManagement", "IcdManagement",
    "IcdManagement">>
InvokeIds ==
  <<0, 0, 2, 4, 0, 3, 4, 6, 8, 0, 0, 0, 1, 2, 0, 2, 4, 6, 7, 9, 10, 11, 12, 13, 0, 1, 3, 4, 0, 2>>

(* A run of one value copies cells that all hold it.                        *)
LEMMA CopyRepeat ==
  ASSUME NEW x, NEW n \in Nat, NEW o, NEW L, \A i \in 1..n : L[o + i] = x
  PROVE  Copy(Repeat(x, n), n, o, L)
BY DEF Copy, List, Repeat

(* GENERATED_ACCESS_INVOKE_COMMAND__CLUSTER is that column ...              *)
LEMMA InvokeClusterIs == Copy(InvokeCluster, 30, 0, InvokeClusters)
<1>1. /\ Copy(<<"Identify">>, 1, 0, InvokeClusters)
      /\ Copy(<<"GeneralDiagnostics", "ThreadNetworkDiagnostics">>, 2, 9, InvokeClusters)
  BY SMTT(60) DEF Copy, List, InvokeClusters
<1>2. /\ Copy(Repeat("GeneralCommissioning", 3), 3, 1, InvokeClusters)
      /\ Copy(Repeat("NetworkCommissioning", 5), 5, 4, InvokeClusters)
      /\ Copy(Repeat("AdministratorCommissioning", 3), 3, 11, InvokeClusters)
      /\ Copy(Repeat("OperationalCredentials", 10), 10, 14, InvokeClusters)
      /\ Copy(Repeat("GroupKeyManagement", 4), 4, 24, InvokeClusters)
      /\ Copy(Repeat("IcdManagement", 2), 2, 28, InvokeClusters)
  <2>1. /\ \A i \in 1..3 : InvokeClusters[1 + i] = "GeneralCommissioning"
        /\ \A i \in 1..5 : InvokeClusters[4 + i] = "NetworkCommissioning"
        /\ \A i \in 1..3 : InvokeClusters[11 + i] = "AdministratorCommissioning"
        /\ \A i \in 1..10 : InvokeClusters[14 + i] = "OperationalCredentials"
        /\ \A i \in 1..4 : InvokeClusters[24 + i] = "GroupKeyManagement"
        /\ \A i \in 1..2 : InvokeClusters[28 + i] = "IcdManagement"
    BY SMTT(60) DEF InvokeClusters
  <2> QED BY <2>1, CopyRepeat
<1> QED BY <1>1, <1>2, CopyJoined, SMTT(60) DEF InvokeCluster

(* ... __COMMAND that one ...                                               *)
LEMMA InvokeCommandIs == Copy(InvokeCommand, 30, 0, InvokeIds)
<1>1. /\ Copy(<<0>>, 1, 0, InvokeIds)
      /\ Copy(<<0, 2, 4>>, 3, 1, InvokeIds)
      /\ Copy(<<0, 3, 4, 6, 8>>, 5, 4, InvokeIds)
      /\ Copy(<<0, 0>>, 2, 9, InvokeIds)
      /\ Copy(<<0, 1, 2>>, 3, 11, InvokeIds)
      /\ Copy(<<0, 2, 4, 6, 7, 9, 10, 11, 12, 13>>, 10, 14, InvokeIds)
      /\ Copy(<<0, 1, 3, 4>>, 4, 24, InvokeIds)
      /\ Copy(<<0, 2>>, 2, 28, InvokeIds)
  BY SMTT(60) DEF Copy, List, InvokeIds
<1> QED BY <1>1, CopyJoined, SMTT(60) DEF InvokeCommand

\* The privileges of the 30 rows.
InvokePrivileges ==
  [r \in 1..30 |-> IF r \in 2..9 \cup 12..28 THEN Administer ELSE Manage]

(* ... and __PRIVILEGE that one.                                            *)
LEMMA InvokePrivilegeIs == Copy(InvokePrivilege, 30, 0, InvokePrivileges)
<1>1. Copy(<<Manage>>, 1, 0, InvokePrivileges)
  BY SMT DEF Copy, List, InvokePrivileges
<1>2. /\ Copy(Repeat(Administer, 8), 8, 1, InvokePrivileges)
      /\ Copy(Repeat(Manage, 2), 2, 9, InvokePrivileges)
      /\ Copy(Repeat(Administer, 17), 17, 11, InvokePrivileges)
      /\ Copy(Repeat(Manage, 2), 2, 28, InvokePrivileges)
  <2>1. /\ \A i \in 1..8 : InvokePrivileges[1 + i] = Administer
        /\ \A i \in 1..2 : InvokePrivileges[9 + i] = Manage
        /\ \A i \in 1..17 : InvokePrivileges[11 + i] = Administer
        /\ \A i \in 1..2 : InvokePrivileges[28 + i] = Manage
    BY DEF InvokePrivileges
  <2> QED BY <2>1, CopyRepeat
<1> QED BY <1>1, <1>2, CopyJoined, SMTT(60) DEF InvokePrivilege

-----------------------------------------------------------------------------
(* Looking up the privilege of a command.                                   *)

\* Row r, and no other, is about this id of this cluster.
OnlyRow(r, cluster, id, clusters, ids) ==
  /\ Len(clusters) \in Nat
  /\ r \in 1 .. Len(clusters) /\ clusters[r] = cluster /\ ids[r] = id
  /\ \A q \in 1 .. Len(clusters) : clusters[q] = cluster /\ ids[q] = id => q = r

(* The search of the arrays then returns the privilege of that row.         *)
LEMMA LookupRow ==
  ASSUME NEW clusters, NEW ids, NEW privileges, NEW default, NEW cluster, NEW id, NEW r,
         OnlyRow(r, cluster, id, clusters, ids)
  PROVE  Lookup(cluster, id, clusters, ids, privileges, default) = privileges[r]
<1> DEFINE rows == {q \in 1 .. Len(clusters) : clusters[q] = cluster /\ ids[q] = id}
<1>1. rows = {r} /\ r \in Nat
  BY DEF OnlyRow
<1>2. (CHOOSE p \in rows : \A q \in rows : p <= q) = r
  <2>1. \A p \in rows : (\A q \in rows : p <= q) <=> p = r
    BY <1>1
  <2> QED BY <1>1, <2>1
<1> QED BY <1>1, <1>2 DEF Lookup

\* s is a sequence of the n cells of L.
Same(s, n, L) == Len(s) = n /\ \A i \in 1..n : s[i] = L[i]

(* A copy from the first cell on is the same sequence.                      *)
LEMMA CopyIs ==
  ASSUME NEW s, NEW n \in Nat, NEW L, Copy(s, n, 0, L)
  PROVE  Same(s, n, L)
<1>1. List(s, n) /\ \A i \in 1..n : s[i] = L[i]
  <2>1. \A i \in 1..n : 0 + i = i
    OBVIOUS
  <2> QED BY <2>1 DEF Copy
<1> DEFINE S == {s[i] : i \in 1..n}
<1>2. \A i \in 1..n : s[i] \in S
  OBVIOUS
<1> HIDE DEF S
<1>3. Len(s) = n
  BY <1>1, <1>2, ListIsSeq
<1> QED BY <1>1, <1>3 DEF Same

(* No command has two rows.                                                 *)
LEMMA InvokeRowsDiffer ==
  \A r, q \in 1..30 :
    InvokeClusters[r] = InvokeClusters[q] /\ InvokeIds[r] = InvokeIds[q] => r = q
BY SMTT(120) DEF InvokeClusters, InvokeIds

(* The three arrays have the 30 rows above.                                 *)
LEMMA InvokeColumns ==
  /\ Same(InvokeCluster, 30, InvokeClusters)
  /\ Same(InvokeCommand, 30, InvokeIds)
  /\ Same(InvokePrivilege, 30, InvokePrivileges)
BY CopyIs, InvokeClusterIs, InvokeCommandIs, InvokePrivilegeIs

(* A command with a row needs the privilege of that row.                    *)
LEMMA InvokeRow ==
  \A r \in 1..30 :
    RequiredPrivilege("invoke", InvokeClusters[r], InvokeIds[r]) = InvokePrivileges[r]
<1> TAKE r \in 1..30
<1>1. /\ Len(InvokeCluster) = 30
      /\ \A i \in 1..30 : /\ InvokeCluster[i] = InvokeClusters[i]
                          /\ InvokeCommand[i] = InvokeIds[i]
                          /\ InvokePrivilege[i] = InvokePrivileges[i]
  BY InvokeColumns DEF Same
<1>2. Lookup(InvokeClusters[r], InvokeIds[r], InvokeCluster, InvokeCommand, InvokePrivilege,
             Operate)
        = InvokePrivilege[r]
  <2>1. \A q \in 1 .. Len(InvokeCluster) :
          InvokeCluster[q] = InvokeClusters[r] /\ InvokeCommand[q] = InvokeIds[r] => q = r
    <3> TAKE q \in 1 .. Len(InvokeCluster)
    <3>1. /\ q \in 1..30
          /\ InvokeCluster[q] = InvokeClusters[q] /\ InvokeCommand[q] = InvokeIds[q]
      BY <1>1
    <3> QED BY <3>1, InvokeRowsDiffer, ZenonT(60)
  <2>2. r \in 1 .. Len(InvokeCluster) /\ Len(InvokeCluster) \in Nat
        /\ InvokeCluster[r] = InvokeClusters[r] /\ InvokeCommand[r] = InvokeIds[r]
    BY <1>1
  <2>3. OnlyRow(r, InvokeClusters[r], InvokeIds[r], InvokeCluster, InvokeCommand)
    BY <2>1, <2>2 DEF OnlyRow
  <2> QED BY <2>3, LookupRow
<1> QED BY <1>1, <1>2 DEF RequiredPrivilege

(* No command needs more than Administer, with a row or without.            *)
LEMMA InvokeBelow ==
  \A cluster, id : RequiredPrivilege("invoke", cluster, id) \in Privileges
<1> TAKE cluster, id
<1>1. CASE \E r \in 1..30 : InvokeClusters[r] = cluster /\ InvokeIds[r] = id
  <2>1. \A r \in 1..30 : InvokePrivileges[r] \in Privileges
    BY DEF InvokePrivileges, Privileges, View, Administer, Manage
  <2> QED BY <1>1, <2>1, InvokeRow
<1>2. CASE ~\E r \in 1..30 : InvokeClusters[r] = cluster /\ InvokeIds[r] = id
  <2>1. /\ Len(InvokeCluster) = 30
        /\ \A i \in 1..30 : InvokeCluster[i] = InvokeClusters[i] /\ InvokeCommand[i] = InvokeIds[i]
    BY InvokeColumns DEF Same
  <2>2. Lookup(cluster, id, InvokeCluster, InvokeCommand, InvokePrivilege, Operate) = Operate
    BY <1>2, <2>1 DEF Lookup
  <2> QED BY <2>2 DEF RequiredPrivilege, Operate, Privileges, View, Administer
<1> QED BY <1>1, <1>2

-----------------------------------------------------------------------------
(* Requests.                                                                *)

\* The client may do what it asks for.
Authorized(r) == r.privilege >= RequiredPrivilege(r.kind, r.cluster, r.id)

(* A request that runs has passed the checks before it: it is listed and    *)
(* authorized when it is dispatched, and still so when it is done; and      *)
(* nothing is served by a node that is not up.                              *)
RequestInv ==
  /\ stage \in {"idle", "exists", "access", "dispatch", "done"}
  /\ stage # "idle" => req \in Requests /\ life = "serving"
  /\ stage \in {"exists", "access", "dispatch"} => ~ran
  /\ stage \in {"access", "dispatch"} => Listed(req)
  /\ stage = "dispatch" => Authorized(req)
  /\ stage = "done" /\ ran => Listed(req) /\ Authorized(req)
  /\ AdvertisedIsHandled

(* A listed command of a cluster that nobody registered has its case in     *)
(* DispatchSingleClusterCommand: the lists of endpoint_config.h and the     *)
(* switches of IMClusterCommandHandler.cpp agree.                           *)
LEMMA ListedHandled ==
  ASSUME NEW r \in Requests, r.kind = "invoke", Listed(r),
         registered = CodedIn(0, 19), ~HasHandler(r.ep, r.cluster)
  PROVE  r.id \in Dispatched(r.cluster)
<1> PICK c \in ServersAt(r.ep, r.cluster) : r.id \in CommandList(ClusterAt(c).accepted)
  BY DEF Listed
<1>1. c \in 0..19 /\ EndpointOf(c) = r.ep /\ ClusterAt(c).server /\ ClusterAt(c).id = r.cluster
  <2>1. /\ c \in UNION {ClustersOf(e) : e \in Endpoints \cap {r.ep}}
        /\ ClusterAt(c).server /\ ClusterAt(c).id = r.cluster
    BY DEF ServersAt
  <2> QED BY <2>1, EndpointRows
<1>2. ~Coded(c)
  <2>1. ASSUME Coded(c) PROVE <<r.ep, r.cluster>> \in registered
    BY <1>1, <2>1 DEF CodedIn, Instance
  <2> QED BY <2>1 DEF HasHandler
<1>3. Names[c + 1] = r.cluster /\ r.cluster \notin InitCases /\ r.cluster # "NetworkCommissioning"
  BY <1>1, <1>2, ClusterRows DEF Coded, HasHandler
<1>4. Accepts[c + 1] = NoList \/ c = 10 \/ c = 14
  BY <1>1, <1>3, SMTT(60) DEF Names, Accepts, InitCases, NoList
<1>5. ClusterAt(c).accepted = Accepts[c + 1]
  BY <1>1, ClusterRows
<1>6. c # 3 /\ Accepts[c + 1] # NoList
  BY <1>1, <1>5, AcceptedCommands, ClusterRows
<1>7. CASE c = 10
  <2>1. Accepts[c + 1] = 27 /\ r.cluster = "ThreadNetworkDiagnostics"
    BY <1>3, <1>7, SMT DEF Names, Accepts
  <2> QED BY <1>5, <2>1, AcceptedCommands DEF Dispatched, TndCommands
<1>8. CASE c = 14
  <2>1. Accepts[c + 1] = 58 /\ r.cluster = "IcdManagement"
    BY <1>3, <1>8, SMT DEF Names, Accepts
  <2> QED BY <1>5, <2>1, AcceptedCommands
      DEF Dispatched, IcdCommands, IcdRegisterClient, IcdUnregisterClient, IcdStayActiveRequest
<1> QED BY <1>4, <1>6, <1>7, <1>8

(* Every step of the servers and of a request keeps the invariant. A node   *)
(* stops between requests only, so the registered clusters do not change    *)
(* under one.                                                               *)
LEMMA RequestStep == ServersInv /\ RequestInv /\ [Next]_vars => RequestInv'
<1> SUFFICES ASSUME ServersInv, RequestInv, [Next]_vars PROVE RequestInv'
  OBVIOUS
<1>0. req \in Requests => req.decodes \in BOOLEAN /\ req.privilege \in Privileges
  BY RequestsAssumption
<1>1. CASE UNCHANGED vars
  BY <1>1 DEF vars, servers, request, RequestInv, AdvertisedIsHandled, Listed, Authorized
<1>2. CASE Start \/ InitCluster \/ PluginsInit \/ Serve \/ Stop \/ ShutdownCluster \/ Down
  <2>1. stage = "idle" /\ stage' = "idle"
    BY <1>2 DEF Start, InitCluster, PluginsInit, Serve, Stop, ShutdownCluster, Down, RequestInv,
                request
  <2> QED BY <2>1 DEF RequestInv, AdvertisedIsHandled
<1>3. CASE Receive
  BY <1>3 DEF Receive, RequestInv, AdvertisedIsHandled, servers
<1>4. CASE CheckExists
  BY <1>4 DEF CheckExists, Advance, Answer, RequestInv, AdvertisedIsHandled, servers, Listed
<1>5. CASE CheckAccess
  <2>1. stage = "access" /\ Listed(req) /\ ~ran /\ req \in Requests /\ life = "serving"
    BY <1>5 DEF CheckAccess, RequestInv
  <2>2. CASE Authorized(req)
    BY <1>5, <2>1, <2>2 DEF CheckAccess, Advance, RequestInv, AdvertisedIsHandled, servers,
                            Authorized, Listed
  <2>3. CASE ~Authorized(req)
    <3>1. stage' = "done" /\ UNCHANGED <<servers, req, ran>>
      BY <1>5, <2>3 DEF CheckAccess, Answer, Authorized
    <3>2. ~(req.kind = "invoke" /\ req.privilege = Administer)
      BY <2>1, <2>3, InvokeBelow DEF Authorized, Privileges, View, Administer
    <3> QED BY <2>1, <3>1, <3>2 DEF RequestInv, AdvertisedIsHandled, servers
  <2> QED BY <2>2, <2>3
<1>6. CASE ServeAttribute
  BY <1>6 DEF ServeAttribute, Answer, RequestInv, AdvertisedIsHandled, servers, Listed, Authorized
<1>7. CASE InvokeHandler
  BY <1>7 DEF InvokeHandler, Answer, RequestInv, AdvertisedIsHandled, servers, Listed, Authorized
<1>8. CASE DispatchSingleClusterCommand
  <2>1. /\ stage = "dispatch" /\ req.kind = "invoke" /\ ~HasHandler(req.ep, req.cluster)
        /\ ran' = (req.id \in Dispatched(req.cluster) /\ req.decodes)
        /\ stage' = "done" /\ UNCHANGED <<servers, req>>
    BY <1>8 DEF DispatchSingleClusterCommand
  <2>2. req \in Requests /\ life = "serving" /\ Listed(req) /\ Authorized(req)
    BY <2>1 DEF RequestInv
  <2>3. req.id \in Dispatched(req.cluster)
    BY <2>1, <2>2, ListedHandled DEF ServersInv
  <2> QED BY <2>1, <2>2, <2>3 DEF RequestInv, AdvertisedIsHandled, servers, Listed, Authorized
<1>9. CASE Finish
  BY <1>9 DEF Finish, RequestInv, AdvertisedIsHandled
<1> QED BY <1>1, <1>2, <1>3, <1>4, <1>5, <1>6, <1>7, <1>8, <1>9 DEF Next

(* So it holds for any set of requests.                                     *)
LEMMA RequestInvHolds == Spec => []RequestInv
<1>1. Init => RequestInv
  BY DEF Init, RequestInv, AdvertisedIsHandled
<1> QED BY <1>1, RequestStep, ServersInvHolds, PTL DEF Spec

(* For every set of requests, a command the node lists as accepted reaches  *)
(* a handler when it decodes and comes from an administrator                *)
(* (AdvertisedIsHandled).                                                   *)
THEOREM ListedIsHandled == Spec => []AdvertisedIsHandled
<1>1. RequestInv => AdvertisedIsHandled
  BY DEF RequestInv
<1> QED BY <1>1, RequestInvHolds, PTL

\* The rows of access.h for attributes that are read and for those that are written.
ReadClusters ==
  <<"AccessControl", "AccessControl", "NetworkCommissioning", "NetworkCommissioning",
    "NetworkCommissioning", "NetworkCommissioning", "NetworkCommissioning",
    "OperationalCredentials", "IcdManagement", "IcdManagement">>
ReadIds == <<0, 1, 0, 1, 5, 6, 7, 0, 3, 4>>

WriteClusters ==
  <<"AccessControl", "AccessControl", "BasicInformation", "BasicInformation",
    "OtaSoftwareUpdateRequestor", "GeneralCommissioning", "NetworkCommissioning",
    "GroupKeyManagement">>
WriteIds == <<0, 1, 5, 6, 0, 0, 4, 0>>
WritePrivileges == [r \in 1..8 |-> IF r \in {3, 8} THEN Manage ELSE Administer]

(* The arrays for reading have these 10 rows, all for administrators ...    *)
LEMMA ReadColumns ==
  /\ Same(ReadCluster, 10, ReadClusters)
  /\ Same(ReadAttribute, 10, ReadIds)
  /\ Same(ReadPrivilege, 10, [r \in 1..10 |-> Administer])
<1>1. Copy(ReadCluster, 10, 0, ReadClusters)
  <2>1. /\ \A i \in 1..2 : ReadClusters[0 + i] = "AccessControl"
        /\ \A i \in 1..5 : ReadClusters[2 + i] = "NetworkCommissioning"
        /\ \A i \in 1..2 : ReadClusters[8 + i] = "IcdManagement"
    BY SMT DEF ReadClusters
  <2>2. Copy(<<"OperationalCredentials">>, 1, 7, ReadClusters)
    BY SMT DEF Copy, List, ReadClusters
  <2>3. /\ Copy(Repeat("AccessControl", 2), 2, 0, ReadClusters)
        /\ Copy(Repeat("NetworkCommissioning", 5), 5, 2, ReadClusters)
        /\ Copy(Repeat("IcdManagement", 2), 2, 8, ReadClusters)
    BY <2>1, CopyRepeat
  <2> QED BY <2>2, <2>3, CopyJoined, SMTT(60) DEF ReadCluster
<1>2. Copy(ReadAttribute, 10, 0, ReadIds)
  <2>1. /\ Copy(<<0, 1>>, 2, 0, ReadIds)
        /\ Copy(<<0, 1, 5, 6, 7>>, 5, 2, ReadIds)
        /\ Copy(<<0>>, 1, 7, ReadIds)
        /\ Copy(<<3, 4>>, 2, 8, ReadIds)
    BY SMT DEF Copy, List, ReadIds
  <2> QED BY <2>1, CopyJoined, SMTT(60) DEF ReadAttribute
<1>3. Copy(ReadPrivilege, 10, 0, [r \in 1..10 |-> Administer])
  BY CopyRepeat DEF ReadPrivilege
<1> QED BY <1>1, <1>2, <1>3, CopyIs

(* ... and those for writing these 8.                                       *)
LEMMA WriteColumns ==
  /\ Same(WriteCluster, 8, WriteClusters)
  /\ Same(WriteAttribute, 8, WriteIds)
  /\ Same(WritePrivilege, 8, WritePrivileges)
<1>1. Copy(WriteCluster, 8, 0, WriteClusters)
  <2>1. /\ \A i \in 1..2 : WriteClusters[0 + i] = "AccessControl"
        /\ \A i \in 1..2 : WriteClusters[2 + i] = "BasicInformation"
    BY SMT DEF WriteClusters
  <2>2. Copy(<<"OtaSoftwareUpdateRequestor", "GeneralCommissioning", "NetworkCommissioning",
               "GroupKeyManagement">>, 4, 4, WriteClusters)
    BY SMT DEF Copy, List, WriteClusters
  <2>3. /\ Copy(Repeat("AccessControl", 2), 2, 0, WriteClusters)
        /\ Copy(Repeat("BasicInformation", 2), 2, 2, WriteClusters)
    BY <2>1, CopyRepeat
  <2> QED BY <2>2, <2>3, CopyJoined, SMTT(60) DEF WriteCluster
<1>2. Copy(WriteAttribute, 8, 0, WriteIds)
  <2>1. /\ Copy(<<0, 1>>, 2, 0, WriteIds)
        /\ Copy(<<5, 6>>, 2, 2, WriteIds)
        /\ Copy(<<0, 0, 4, 0>>, 4, 4, WriteIds)
    BY SMT DEF Copy, List, WriteIds
  <2> QED BY <2>1, CopyJoined, SMTT(60) DEF WriteAttribute
<1>3. Copy(WritePrivilege, 8, 0, WritePrivileges)
  <2>1. /\ Copy(<<Manage, Administer>>, 2, 2, WritePrivileges)
        /\ Copy(<<Manage>>, 1, 7, WritePrivileges)
    BY SMT DEF Copy, List, WritePrivileges
  <2>2. /\ \A i \in 1..2 : WritePrivileges[0 + i] = Administer
        /\ \A i \in 1..3 : WritePrivileges[4 + i] = Administer
    BY DEF WritePrivileges
  <2>3. /\ Copy(Repeat(Administer, 2), 2, 0, WritePrivileges)
        /\ Copy(Repeat(Administer, 3), 3, 4, WritePrivileges)
    BY <2>2, CopyRepeat
  <2> QED BY <2>1, <2>3, CopyJoined, SMTT(60) DEF WritePrivilege
<1> QED BY <1>1, <1>2, <1>3, CopyIs

(* An attribute with a row for reading needs Administer to be read ...      *)
LEMMA ReadRow ==
  \A r \in 1..10 : RequiredPrivilege("read", ReadClusters[r], ReadIds[r]) = Administer
<1> TAKE r \in 1..10
<1>1. \A q \in 1..10 : ReadClusters[q] = ReadClusters[r] /\ ReadIds[q] = ReadIds[r] => q = r
  BY SMTT(60) DEF ReadClusters, ReadIds
<1>2. /\ Len(ReadCluster) = 10 /\ ReadPrivilege[r] = Administer
      /\ \A i \in 1..10 : ReadCluster[i] = ReadClusters[i] /\ ReadAttribute[i] = ReadIds[i]
  BY ReadColumns DEF Same
<1>3. OnlyRow(r, ReadClusters[r], ReadIds[r], ReadCluster, ReadAttribute)
  BY <1>1, <1>2 DEF OnlyRow
<1>4. Lookup(ReadClusters[r], ReadIds[r], ReadCluster, ReadAttribute, ReadPrivilege, View)
        = ReadPrivilege[r]
  BY <1>3, LookupRow
<1> QED BY <1>2, <1>4 DEF RequiredPrivilege

(* ... and one with a row for writing needs the privilege of the row.       *)
LEMMA WriteRow ==
  \A r \in 1..8 :
    RequiredPrivilege("write", WriteClusters[r], WriteIds[r]) = WritePrivileges[r]
<1> TAKE r \in 1..8
<1>1. \A q \in 1..8 : WriteClusters[q] = WriteClusters[r] /\ WriteIds[q] = WriteIds[r] => q = r
  BY SMTT(60) DEF WriteClusters, WriteIds
<1>2. /\ Len(WriteCluster) = 8 /\ WritePrivilege[r] = WritePrivileges[r]
      /\ \A i \in 1..8 : WriteCluster[i] = WriteClusters[i] /\ WriteAttribute[i] = WriteIds[i]
  BY WriteColumns DEF Same
<1>3. OnlyRow(r, WriteClusters[r], WriteIds[r], WriteCluster, WriteAttribute)
  BY <1>1, <1>2 DEF OnlyRow
<1>4. Lookup(WriteClusters[r], WriteIds[r], WriteCluster, WriteAttribute, WritePrivilege, Operate)
        = WritePrivilege[r]
  BY <1>3, LookupRow
<1> QED BY <1>2, <1>4 DEF RequiredPrivilege

(* Both lists of Access Control have their rows.                            *)
LEMMA AccessListGuarded ==
  \A id \in {0, 1} : /\ RequiredPrivilege("read", "AccessControl", id) = Administer
                     /\ RequiredPrivilege("write", "AccessControl", id) = Administer
<1>1. /\ ReadClusters[1] = "AccessControl" /\ ReadClusters[2] = "AccessControl"
      /\ ReadIds[1] = 0 /\ ReadIds[2] = 1
      /\ WriteClusters[1] = "AccessControl" /\ WriteClusters[2] = "AccessControl"
      /\ WriteIds[1] = 0 /\ WriteIds[2] = 1
  BY DEF ReadClusters, ReadIds, WriteClusters, WriteIds
<1>2. WritePrivileges[1] = Administer /\ WritePrivileges[2] = Administer
  BY DEF WritePrivileges
<1>3. 1 \in 1..8 /\ 2 \in 1..8 /\ 1 \in 1..10 /\ 2 \in 1..10
  OBVIOUS
<1> QED BY <1>1, <1>2, <1>3, ReadRow, WriteRow

(* Every command that a cluster of FabricClusters accepts has a row for     *)
(* administrators.                                                          *)
LEMMA FabricCommandsGuarded ==
  ASSUME NEW r \in Requests, r.kind = "invoke", Listed(r), r.cluster \in FabricClusters
  PROVE  RequiredPrivilege(r.kind, r.cluster, r.id) = Administer
<1> PICK c \in ServersAt(r.ep, r.cluster) : r.id \in CommandList(ClusterAt(c).accepted)
  BY DEF Listed
<1>1. c \in 0..19 /\ ClusterAt(c).id = r.cluster
  <2>1. /\ c \in UNION {ClustersOf(e) : e \in Endpoints \cap {r.ep}}
        /\ ClusterAt(c).id = r.cluster
    BY DEF ServersAt
  <2> QED BY <2>1, EndpointRows
<1>2. Names[c + 1] = r.cluster /\ r.id \in CommandList(Accepts[c + 1])
  BY <1>1, ClusterRows
<1>3. /\ c \in {5, 6, 11, 12, 13}
      /\ c = 5 => r.cluster = "GeneralCommissioning" /\ Accepts[c + 1] = 0
      /\ c = 6 => r.cluster = "NetworkCommissioning" /\ Accepts[c + 1] = 8
      /\ c = 11 => r.cluster = "AdministratorCommissioning" /\ Accepts[c + 1] = 29
      /\ c = 12 => r.cluster = "OperationalCredentials" /\ Accepts[c + 1] = 33
      /\ c = 13 => r.cluster = "GroupKeyManagement" /\ Accepts[c + 1] = 50
  BY <1>1, <1>2, SMTT(60) DEF Names, Accepts, FabricClusters
<1> DEFINE rows == 2..9 \cup 12..28
           Row(q) == InvokeClusters[q] = r.cluster /\ InvokeIds[q] = r.id
<1>4. \E q \in rows : Row(q)
  <2>1. CASE c = 5
    <3>1. r.id \in {0, 2, 4} /\ r.cluster = "GeneralCommissioning"
      BY <1>2, <1>3, <2>1, AcceptedCommands
    <3>2. Row(2) \/ Row(3) \/ Row(4)
      BY <3>1, SMTT(60) DEF InvokeClusters, InvokeIds
    <3> HIDE DEF Row
    <3> QED BY <3>2
  <2>2. CASE c = 6
    <3>1. r.id \in {0, 3, 4, 6, 8} /\ r.cluster = "NetworkCommissioning"
      BY <1>2, <1>3, <2>2, AcceptedCommands
    <3>2. Row(5) \/ Row(6) \/ Row(7) \/ Row(8) \/ Row(9)
      BY <3>1, SMTT(60) DEF InvokeClusters, InvokeIds
    <3> HIDE DEF Row
    <3> QED BY <3>2
  <2>3. CASE c = 11
    <3>1. r.id \in {0, 1, 2} /\ r.cluster = "AdministratorCommissioning"
      BY <1>2, <1>3, <2>3, AcceptedCommands
    <3>2. Row(12) \/ Row(13) \/ Row(14)
      BY <3>1, SMTT(60) DEF InvokeClusters, InvokeIds
    <3> HIDE DEF Row
    <3> QED BY <3>2
  <2>4. CASE c = 12
    <3>1. r.id \in {0, 2, 4, 6, 7, 9, 10, 11, 12, 13} /\ r.cluster = "OperationalCredentials"
      BY <1>2, <1>3, <2>4, AcceptedCommands
    <3>2. \/ Row(15) \/ Row(16) \/ Row(17) \/ Row(18) \/ Row(19)
          \/ Row(20) \/ Row(21) \/ Row(22) \/ Row(23) \/ Row(24)
      BY <3>1, SMTT(60) DEF InvokeClusters, InvokeIds
    <3> HIDE DEF Row
    <3> QED BY <3>2
  <2>5. CASE c = 13
    <3>1. r.id \in {0, 1, 3, 4} /\ r.cluster = "GroupKeyManagement"
      BY <1>2, <1>3, <2>5, AcceptedCommands
    <3>2. Row(25) \/ Row(26) \/ Row(27) \/ Row(28)
      BY <3>1, SMTT(60) DEF InvokeClusters, InvokeIds
    <3> HIDE DEF Row
    <3> QED BY <3>2
  <2> QED BY <1>3, <2>1, <2>2, <2>3, <2>4, <2>5
<1> PICK q \in rows : Row(q)
  BY <1>4
<1>5. q \in 1..30 /\ InvokePrivileges[q] = Administer
  BY DEF InvokePrivileges
<1> QED BY <1>5, InvokeRow

-----------------------------------------------------------------------------
(* GENERATED_ATTRIBUTES, row by row.                                        *)

\* The four shapes of a row of GENERATED_ATTRIBUTES.
Plain == Attribute(NoId, 0, FALSE, FALSE, NoBlob)
Setting(id) == Attribute(id, 0, FALSE, TRUE, NoBlob)
Scalar(id, size) == Attribute(id, size, TRUE, FALSE, NoBlob)
Text(id, size, blob) == Attribute(id, size, TRUE, FALSE, blob)

\* GENERATED_ATTRIBUTES by position, in the three parts of DataModel.
UtilityTable ==
  [p \in 1..71 |->
    IF p = 7 \/ p = 34 \/ p = 40 THEN Setting(0) ELSE IF p = 8 THEN Setting(1)
      ELSE IF p = 19 THEN Setting(5) ELSE IF p = 20 THEN Setting(6) ELSE IF p = 51 THEN Setting(4)
      ELSE IF p = 35 THEN Scalar(1, 1) ELSE IF p = 36 THEN Scalar(2, 1)
      ELSE IF p = 37 THEN Scalar(3, 1)
      ELSE IF p = 38 THEN Scalar(FeatureMap, 4) ELSE IF p = 39 THEN Scalar(ClusterRevision, 2)
      ELSE Plain]

NetworkTable ==
  [p \in 1..96 |->
    IF p \in {64, 69} THEN Scalar(FeatureMap, 4) ELSE IF p = 79 THEN Setting(0)
      ELSE IF p = 91 THEN Scalar(6, 4) ELSE IF p = 92 THEN Text(7, 129, 0)
      ELSE IF p = 96 THEN Scalar(ClusterRevision, 2)
      ELSE Plain]

SensorTable ==
  [p \in 1..34 |->
    IF p = 1 THEN Setting(0)
      ELSE IF p = 11 THEN Scalar(0, 1) ELSE IF p = 12 THEN Scalar(1, 1)
      ELSE IF p = 13 THEN Text(2, 61, 44)
      ELSE IF p = 14 THEN Scalar(11, 4) ELSE IF p = 15 THEN Scalar(12, 1)
      ELSE IF p = 16 THEN Scalar(14, 1)
      ELSE IF p = 17 THEN Scalar(15, 1) ELSE IF p = 18 THEN Scalar(16, 1)
      ELSE IF p = 19 THEN Scalar(17, 1)
      ELSE IF p = 20 THEN Text(19, 61, 52) ELSE IF p = 21 THEN Scalar(25, 1)
      ELSE IF p = 23 THEN Scalar(FeatureMap, 4)
      ELSE IF p \in {25, 30} THEN Scalar(0, 2) ELSE IF p \in {26, 31} THEN Scalar(1, 2)
      ELSE IF p \in {27, 32} THEN Scalar(2, 2)
      ELSE IF p \in {28, 33} THEN Scalar(FeatureMap, 4)
      ELSE IF p \in {29, 34} THEN Scalar(ClusterRevision, 2)
      ELSE Plain]

\* The n cells of L from o on hold x.
Cells(L, o, n, x) == \A i \in 1..n : L[o + i] = x

(* A piece of the table copies the cells that hold what it is made of.      *)
LEMMA PlainPiece ==
  ASSUME NEW L, NEW o, NEW n \in Nat, Cells(L, o, n, Plain)
  PROVE  Copy(Ext(n), n, o, L)
BY CopyRepeat DEF Ext, Plain, Cells

(* The same for one row ...                                                 *)
LEMMA OnePiece == ASSUME NEW L, NEW o, NEW x, Cells(L, o, 1, x) PROVE Copy(<<x>>, 1, o, L)
BY SMT DEF Copy, List, Cells

(* ... for a setting that a client can write ...                            *)
LEMMA SettingPiece ==
  ASSUME NEW L, NEW o, NEW id, Cells(L, o, 1, Setting(id)) PROVE Copy(Wr(id), 1, o, L)
BY OnePiece DEF Wr, Setting

(* ... for a number in the store ...                                        *)
LEMMA ScalarPiece ==
  ASSUME NEW L, NEW o, NEW id, NEW size, Cells(L, o, 1, Scalar(id, size))
  PROVE  Copy(Ram(id, size), 1, o, L)
BY OnePiece DEF Ram, Scalar

(* ... and for a string in the store.                                       *)
LEMMA TextPiece ==
  ASSUME NEW L, NEW o, NEW id, NEW size, NEW blob, Cells(L, o, 1, Text(id, size, blob))
  PROVE  Copy(Str(id, size, blob), 1, o, L)
BY OnePiece DEF Str, Text

(* The three parts of GENERATED_ATTRIBUTES are their tables: utilities ...  *)
LEMMA UtilityAre == Copy(UtilityAttributes, 71, 0, UtilityTable)
<1>1. /\ Cells(UtilityTable, 0, 6, Plain) /\ Cells(UtilityTable, 6, 1, Setting(0))
      /\ Cells(UtilityTable, 7, 1, Setting(1)) /\ Cells(UtilityTable, 8, 5, Plain)
      /\ Cells(UtilityTable, 13, 5, Plain) /\ Cells(UtilityTable, 18, 1, Setting(5))
      /\ Cells(UtilityTable, 19, 1, Setting(6)) /\ Cells(UtilityTable, 20, 13, Plain)
      /\ Cells(UtilityTable, 33, 1, Setting(0)) /\ Cells(UtilityTable, 34, 1, Scalar(1, 1))
      /\ Cells(UtilityTable, 35, 1, Scalar(2, 1)) /\ Cells(UtilityTable, 36, 1, Scalar(3, 1))
      /\ Cells(UtilityTable, 37, 1, Scalar(FeatureMap, 4))
      /\ Cells(UtilityTable, 38, 1, Scalar(ClusterRevision, 2))
      /\ Cells(UtilityTable, 39, 1, Setting(0)) /\ Cells(UtilityTable, 40, 6, Plain)
      /\ Cells(UtilityTable, 46, 4, Plain) /\ Cells(UtilityTable, 50, 1, Setting(4))
      /\ Cells(UtilityTable, 51, 7, Plain) /\ Cells(UtilityTable, 58, 2, Plain)
      /\ Cells(UtilityTable, 60, 7, Plain) /\ Cells(UtilityTable, 67, 4, Plain)
  BY SMTT(60) DEF Cells, UtilityTable
<1>2. /\ Copy(Ext(6), 6, 0, UtilityTable) /\ Copy(Ext(5), 5, 8, UtilityTable)
      /\ Copy(Ext(5), 5, 13, UtilityTable) /\ Copy(Ext(13), 13, 20, UtilityTable)
      /\ Copy(Ext(6), 6, 40, UtilityTable) /\ Copy(Ext(4), 4, 46, UtilityTable)
      /\ Copy(Ext(7), 7, 51, UtilityTable) /\ Copy(Ext(2), 2, 58, UtilityTable)
      /\ Copy(Ext(7), 7, 60, UtilityTable) /\ Copy(Ext(4), 4, 67, UtilityTable)
  BY <1>1, PlainPiece
<1>3. /\ Copy(Wr(0), 1, 6, UtilityTable) /\ Copy(Wr(1), 1, 7, UtilityTable)
      /\ Copy(Wr(5), 1, 18, UtilityTable) /\ Copy(Wr(6), 1, 19, UtilityTable)
      /\ Copy(Wr(0), 1, 33, UtilityTable) /\ Copy(Wr(0), 1, 39, UtilityTable)
      /\ Copy(Wr(4), 1, 50, UtilityTable)
  BY <1>1, SettingPiece
<1>4. /\ Copy(Ram(1, 1), 1, 34, UtilityTable) /\ Copy(Ram(2, 1), 1, 35, UtilityTable)
      /\ Copy(Ram(3, 1), 1, 36, UtilityTable) /\ Copy(Ram(FeatureMap, 4), 1, 37, UtilityTable)
      /\ Copy(Ram(ClusterRevision, 2), 1, 38, UtilityTable)
  BY <1>1, ScalarPiece
<1> QED BY <1>2, <1>3, <1>4, CopyJoined, SMTT(120) DEF UtilityAttributes

(* ... network ...                                                          *)
LEMMA NetworkAre == Copy(NetworkAttributes, 96, 0, NetworkTable)
<1>1. /\ Cells(NetworkTable, 0, 63, Plain) /\ Cells(NetworkTable, 63, 1, Scalar(FeatureMap, 4))
      /\ Cells(NetworkTable, 64, 1, Plain) /\ Cells(NetworkTable, 65, 3, Plain)
      /\ Cells(NetworkTable, 68, 1, Scalar(FeatureMap, 4)) /\ Cells(NetworkTable, 69, 1, Plain)
      /\ Cells(NetworkTable, 70, 8, Plain) /\ Cells(NetworkTable, 78, 1, Setting(0))
      /\ Cells(NetworkTable, 79, 5, Plain) /\ Cells(NetworkTable, 84, 6, Plain)
      /\ Cells(NetworkTable, 90, 1, Scalar(6, 4))
      /\ Cells(NetworkTable, 91, 1, Text(7, 129, 0)) /\ Cells(NetworkTable, 92, 3, Plain)
      /\ Cells(NetworkTable, 95, 1, Scalar(ClusterRevision, 2))
  BY SMTT(60) DEF Cells, NetworkTable
<1>2. /\ Copy(Ext(63), 63, 0, NetworkTable) /\ Copy(Ext(1), 1, 64, NetworkTable)
      /\ Copy(Ext(3), 3, 65, NetworkTable) /\ Copy(Ext(1), 1, 69, NetworkTable)
      /\ Copy(Ext(8), 8, 70, NetworkTable) /\ Copy(Ext(5), 5, 79, NetworkTable)
      /\ Copy(Ext(6), 6, 84, NetworkTable) /\ Copy(Ext(3), 3, 92, NetworkTable)
  BY <1>1, PlainPiece
<1>3. /\ Copy(Wr(0), 1, 78, NetworkTable)
  BY <1>1, SettingPiece
<1>4. /\ Copy(Ram(FeatureMap, 4), 1, 63, NetworkTable)
      /\ Copy(Ram(FeatureMap, 4), 1, 68, NetworkTable) /\ Copy(Ram(6, 4), 1, 90, NetworkTable)
      /\ Copy(Ram(ClusterRevision, 2), 1, 95, NetworkTable)
  BY <1>1, ScalarPiece
<1>5. /\ Copy(Str(7, 129, 0), 1, 91, NetworkTable)
  BY <1>1, TextPiece
<1> QED BY <1>2, <1>3, <1>4, <1>5, CopyJoined, SMTT(120) DEF NetworkAttributes

(* ... and sensor.                                                          *)
LEMMA SensorAre == Copy(SensorAttributes, 34, 0, SensorTable)
<1>1. /\ Cells(SensorTable, 0, 1, Setting(0)) /\ Cells(SensorTable, 1, 3, Plain)
      /\ Cells(SensorTable, 4, 6, Plain) /\ Cells(SensorTable, 10, 1, Scalar(0, 1))
      /\ Cells(SensorTable, 11, 1, Scalar(1, 1)) /\ Cells(SensorTable, 12, 1, Text(2, 61, 44))
      /\ Cells(SensorTable, 13, 1, Scalar(11, 4)) /\ Cells(SensorTable, 14, 1, Scalar(12, 1))
      /\ Cells(SensorTable, 15, 1, Scalar(14, 1)) /\ Cells(SensorTable, 16, 1, Scalar(15, 1))
      /\ Cells(SensorTable, 17, 1, Scalar(16, 1)) /\ Cells(SensorTable, 18, 1, Scalar(17, 1))
      /\ Cells(SensorTable, 19, 1, Text(19, 61, 52))
      /\ Cells(SensorTable, 20, 1, Scalar(25, 1)) /\ Cells(SensorTable, 21, 1, Plain)
      /\ Cells(SensorTable, 22, 1, Scalar(FeatureMap, 4)) /\ Cells(SensorTable, 23, 1, Plain)
      /\ Cells(SensorTable, 24, 1, Scalar(0, 2)) /\ Cells(SensorTable, 25, 1, Scalar(1, 2))
      /\ Cells(SensorTable, 26, 1, Scalar(2, 2))
      /\ Cells(SensorTable, 27, 1, Scalar(FeatureMap, 4))
      /\ Cells(SensorTable, 28, 1, Scalar(ClusterRevision, 2))
      /\ Cells(SensorTable, 29, 1, Scalar(0, 2)) /\ Cells(SensorTable, 30, 1, Scalar(1, 2))
      /\ Cells(SensorTable, 31, 1, Scalar(2, 2))
      /\ Cells(SensorTable, 32, 1, Scalar(FeatureMap, 4))
      /\ Cells(SensorTable, 33, 1, Scalar(ClusterRevision, 2))
  <2>1. /\ Cells(SensorTable, 0, 1, Setting(0)) /\ Cells(SensorTable, 1, 3, Plain)
        /\ Cells(SensorTable, 4, 6, Plain) /\ Cells(SensorTable, 10, 1, Scalar(0, 1))
        /\ Cells(SensorTable, 11, 1, Scalar(1, 1)) /\ Cells(SensorTable, 12, 1, Text(2, 61, 44))
        /\ Cells(SensorTable, 13, 1, Scalar(11, 4))
    BY SMTT(60) DEF Cells, SensorTable
  <2>2. /\ Cells(SensorTable, 14, 1, Scalar(12, 1)) /\ Cells(SensorTable, 15, 1, Scalar(14, 1))
        /\ Cells(SensorTable, 16, 1, Scalar(15, 1)) /\ Cells(SensorTable, 17, 1, Scalar(16, 1))
        /\ Cells(SensorTable, 18, 1, Scalar(17, 1))
        /\ Cells(SensorTable, 19, 1, Text(19, 61, 52))
        /\ Cells(SensorTable, 20, 1, Scalar(25, 1))
    BY SMTT(60) DEF Cells, SensorTable
  <2>3. /\ Cells(SensorTable, 21, 1, Plain) /\ Cells(SensorTable, 22, 1, Scalar(FeatureMap, 4))
        /\ Cells(SensorTable, 23, 1, Plain) /\ Cells(SensorTable, 24, 1, Scalar(0, 2))
        /\ Cells(SensorTable, 25, 1, Scalar(1, 2)) /\ Cells(SensorTable, 26, 1, Scalar(2, 2))
        /\ Cells(SensorTable, 27, 1, Scalar(FeatureMap, 4))
    BY SMTT(60) DEF Cells, SensorTable
  <2>4. /\ Cells(SensorTable, 28, 1, Scalar(ClusterRevision, 2))
        /\ Cells(SensorTable, 29, 1, Scalar(0, 2)) /\ Cells(SensorTable, 30, 1, Scalar(1, 2))
        /\ Cells(SensorTable, 31, 1, Scalar(2, 2))
        /\ Cells(SensorTable, 32, 1, Scalar(FeatureMap, 4))
        /\ Cells(SensorTable, 33, 1, Scalar(ClusterRevision, 2))
    BY SMTT(60) DEF Cells, SensorTable
  <2> QED BY <2>1, <2>2, <2>3, <2>4
<1>2. /\ Copy(Ext(3), 3, 1, SensorTable) /\ Copy(Ext(6), 6, 4, SensorTable)
      /\ Copy(Ext(1), 1, 21, SensorTable) /\ Copy(Ext(1), 1, 23, SensorTable)
  BY <1>1, PlainPiece
<1>3. /\ Copy(Wr(0), 1, 0, SensorTable)
  BY <1>1, SettingPiece
<1>4. /\ Copy(Ram(0, 1), 1, 10, SensorTable) /\ Copy(Ram(1, 1), 1, 11, SensorTable)
      /\ Copy(Ram(11, 4), 1, 13, SensorTable) /\ Copy(Ram(12, 1), 1, 14, SensorTable)
      /\ Copy(Ram(14, 1), 1, 15, SensorTable) /\ Copy(Ram(15, 1), 1, 16, SensorTable)
      /\ Copy(Ram(16, 1), 1, 17, SensorTable) /\ Copy(Ram(17, 1), 1, 18, SensorTable)
      /\ Copy(Ram(25, 1), 1, 20, SensorTable) /\ Copy(Ram(FeatureMap, 4), 1, 22, SensorTable)
      /\ Copy(Ram(0, 2), 1, 24, SensorTable) /\ Copy(Ram(1, 2), 1, 25, SensorTable)
      /\ Copy(Ram(2, 2), 1, 26, SensorTable) /\ Copy(Ram(FeatureMap, 4), 1, 27, SensorTable)
      /\ Copy(Ram(ClusterRevision, 2), 1, 28, SensorTable)
      /\ Copy(Ram(0, 2), 1, 29, SensorTable) /\ Copy(Ram(1, 2), 1, 30, SensorTable)
      /\ Copy(Ram(2, 2), 1, 31, SensorTable) /\ Copy(Ram(FeatureMap, 4), 1, 32, SensorTable)
      /\ Copy(Ram(ClusterRevision, 2), 1, 33, SensorTable)
  BY <1>1, ScalarPiece
<1>5. /\ Copy(Str(2, 61, 44), 1, 12, SensorTable) /\ Copy(Str(19, 61, 52), 1, 19, SensorTable)
  BY <1>1, TextPiece
<1> QED BY <1>2, <1>3, <1>4, <1>5, CopyJoined, SMTT(120) DEF SensorAttributes

(* GENERATED_ATTRIBUTES have 201 rows, and this is what is in them.         *)
LEMMA AttributesAre ==
  /\ Len(Attributes) = 201
  /\ \A i \in 0..70 : AttributeAt(i) = UtilityTable[i + 1]
  /\ \A i \in 71..166 : AttributeAt(i) = NetworkTable[i - 70]
  /\ \A i \in 167..200 : AttributeAt(i) = SensorTable[i - 166]
<1> DEFINE front == UtilityAttributes \o NetworkAttributes
           S == {Attributes[i] : i \in 1..201}
<1>1. /\ List(UtilityAttributes, 71) /\ List(NetworkAttributes, 96) /\ List(SensorAttributes, 34)
  BY UtilityAre, NetworkAre, SensorAre DEF Copy
<1>2. /\ \A i \in 1..71 : UtilityAttributes[i] = UtilityTable[i]
      /\ \A i \in 1..96 : NetworkAttributes[i] = NetworkTable[i]
      /\ \A i \in 1..34 : SensorAttributes[i] = SensorTable[i]
  <2>1. /\ Same(UtilityAttributes, 71, UtilityTable) /\ Same(NetworkAttributes, 96, NetworkTable)
        /\ Same(SensorAttributes, 34, SensorTable)
    BY UtilityAre, NetworkAre, SensorAre, CopyIs
  <2> QED BY <2>1 DEF Same
<1>3. End2End(front, UtilityAttributes, 71, NetworkAttributes, 96)
  BY <1>1, Joined
<1>4. List(front, 167)
  BY <1>3 DEF End2End
<1>5. End2End(Attributes, front, 167, SensorAttributes, 34)
  <2> HIDE DEF front
  <2>1. End2End(front \o SensorAttributes, front, 167, SensorAttributes, 34)
    BY <1>1, <1>4, Joined
  <2> QED BY <2>1 DEF Attributes, front
<1> HIDE DEF front
<1>6. Len(Attributes) = 201
  <2>1. \A i \in 1..201 : Attributes[i] \in S
    OBVIOUS
  <2>2. List(Attributes, 201)
    BY <1>5 DEF End2End
  <2> HIDE DEF S
  <2> QED BY <2>1, <2>2, ListIsSeq, ZenonT(60)
<1>7. \A i \in 0..70 : AttributeAt(i) = UtilityTable[i + 1]
  <2> TAKE i \in 0..70
  <2>1. i + 1 \in 1..71 /\ i + 1 \in 1..167
    OBVIOUS
  <2> QED BY <1>2, <1>3, <1>5, <2>1 DEF End2End, AttributeAt
<1>8. \A i \in 71..166 : AttributeAt(i) = NetworkTable[i - 70]
  <2> TAKE i \in 71..166
  <2>1. i + 1 \in 1..167 /\ i - 70 \in 1..96 /\ 71 + (i - 70) = i + 1
    OBVIOUS
  <2>2. Attributes[i + 1] = front[i + 1]
    BY <1>5, <2>1 DEF End2End
  <2>3. front[71 + (i - 70)] = NetworkAttributes[i - 70]
    BY ONLY <1>3, <2>1 DEF End2End
  <2> QED BY <1>2, <2>1, <2>2, <2>3 DEF AttributeAt
<1>9. \A i \in 167..200 : AttributeAt(i) = SensorTable[i - 166]
  <2> TAKE i \in 167..200
  <2>1. i - 166 \in 1..34 /\ 167 + (i - 166) = i + 1
    OBVIOUS
  <2>2. Attributes[167 + (i - 166)] = SensorAttributes[i - 166]
    BY ONLY <1>5, <2>1 DEF End2End
  <2> QED BY <1>2, <2>1, <2>2 DEF AttributeAt
<1> QED BY <1>6, <1>7, <1>8, <1>9

\* Columns of GENERATED_ATTRIBUTES by position: the id ...
IdOf ==
  [a \in 0..200 |->
    IF a \in {6, 33, 39, 149, 167, 177, 191, 196} THEN 0
    ELSE IF a \in {7, 34, 178, 192, 197} THEN 1
    ELSE IF a \in {18} THEN 5
    ELSE IF a \in {19, 161} THEN 6
    ELSE IF a \in {35, 179, 193, 198} THEN 2
    ELSE IF a \in {36} THEN 3
    ELSE IF a \in {37, 134, 139, 189, 194, 199} THEN FeatureMap
    ELSE IF a \in {38, 166, 195, 200} THEN ClusterRevision
    ELSE IF a \in {50} THEN 4
    ELSE IF a \in {162} THEN 7
    ELSE IF a \in {180} THEN 11
    ELSE IF a \in {181} THEN 12
    ELSE IF a \in {182} THEN 14
    ELSE IF a \in {183} THEN 15
    ELSE IF a \in {184} THEN 16
    ELSE IF a \in {185} THEN 17
    ELSE IF a \in {186} THEN 19
    ELSE IF a \in {187} THEN 25
    ELSE NoId]

\* ... the bytes in the store, none for an external attribute ...
SizeOf ==
  [a \in 0..200 |->
    IF a \in {34, 35, 36, 177, 178, 181, 182, 183, 184, 185, 187} THEN 1
    ELSE IF a \in {38, 166, 191, 192, 193, 195, 196, 197, 198, 200} THEN 2
    ELSE IF a \in {37, 134, 139, 161, 180, 189, 194, 199} THEN 4
    ELSE IF a \in {179, 186} THEN 61
    ELSE IF a \in {162} THEN 129
    ELSE 0]

\* ... the default of a string ...
BlobOf == [a \in 0..200 |->
            IF a = 162 THEN 0 ELSE IF a = 179 THEN 44 ELSE IF a = 186 THEN 52 ELSE NoBlob]

\* ... and the first byte in the store, where the walk should arrive.
StartOf ==
  [a \in 0..201 |->
    IF a <= 34 THEN 0 ELSE IF a <= 35 THEN 1 ELSE IF a <= 36 THEN 2 ELSE
    IF a <= 37 THEN 3 ELSE IF a <= 38 THEN 7 ELSE IF a <= 134 THEN 9 ELSE
    IF a <= 139 THEN 13 ELSE IF a <= 161 THEN 17 ELSE IF a <= 162 THEN 21 ELSE
    IF a <= 166 THEN 150 ELSE IF a <= 177 THEN 152 ELSE IF a <= 178 THEN 153 ELSE
    IF a <= 179 THEN 154 ELSE IF a <= 180 THEN 215 ELSE IF a <= 181 THEN 219 ELSE
    IF a <= 182 THEN 220 ELSE IF a <= 183 THEN 221 ELSE IF a <= 184 THEN 222 ELSE
    IF a <= 185 THEN 223 ELSE IF a <= 186 THEN 224 ELSE IF a <= 187 THEN 285 ELSE
    IF a <= 189 THEN 286 ELSE IF a <= 191 THEN 290 ELSE IF a <= 192 THEN 292 ELSE
    IF a <= 193 THEN 294 ELSE IF a <= 194 THEN 296 ELSE IF a <= 195 THEN 300 ELSE
    IF a <= 196 THEN 302 ELSE IF a <= 197 THEN 304 ELSE IF a <= 198 THEN 306 ELSE
    IF a <= 199 THEN 308 ELSE IF a <= 200 THEN 312 ELSE 314]

\* Row r says what the columns say.
Shape(r, id, size, blob) ==
  /\ r.id = id /\ r.blob = blob
  /\ r.stored <=> size # 0
  /\ r.stored => r.size = size

\* The attributes that a client can write.
Settings == {6, 7, 18, 19, 33, 39, 50, 149, 167}
HasShape(r, a) == Shape(r, IdOf[a], SizeOf[a], BlobOf[a]) /\ (r.writable <=> a \in Settings)

(* The four shapes of a row.                                                *)
LEMMA Shapes ==
  /\ Shape(Plain, NoId, 0, NoBlob) /\ ~Plain.writable
  /\ \A id : Shape(Setting(id), id, 0, NoBlob) /\ Setting(id).writable
  /\ \A id : \A size \in Nat \ {0} :
       Shape(Scalar(id, size), id, size, NoBlob) /\ ~Scalar(id, size).writable
  /\ \A id, blob : \A size \in Nat \ {0} :
       Shape(Text(id, size, blob), id, size, blob) /\ ~Text(id, size, blob).writable
BY DEF Shape, Plain, Setting, Scalar, Text, Attribute

(* Every row of the three tables says what the columns say.                 *)
LEMMA UtilityRows == \A a \in 0..70 : HasShape(UtilityTable[a + 1], a)
<1> DEFINE special == {6, 7, 18, 19, 33, 34, 35, 36, 37, 38, 39, 50}
<1>1. \A a \in 0..70 : a \notin special =>
        /\ UtilityTable[a + 1] = Plain
        /\ IdOf[a] = NoId /\ SizeOf[a] = 0 /\ a \notin Settings /\ BlobOf[a] = NoBlob
  <2> TAKE a \in 0..70
  <2>1. a \notin special => UtilityTable[a + 1] = Plain
    BY SMTT(60) DEF UtilityTable
  <2>2. a \notin special => IdOf[a] = NoId /\ SizeOf[a] = 0
    BY SMTT(60) DEF IdOf, SizeOf
  <2>3. a \notin special => a \notin Settings /\ BlobOf[a] = NoBlob
    BY SMTT(60) DEF Settings, BlobOf
  <2> QED BY <2>1, <2>2, <2>3
<1>2. /\ UtilityTable[7] = Setting(0) /\ UtilityTable[8] = Setting(1)
      /\ UtilityTable[19] = Setting(5) /\ UtilityTable[20] = Setting(6)
      /\ UtilityTable[34] = Setting(0) /\ UtilityTable[35] = Scalar(1, 1)
      /\ UtilityTable[36] = Scalar(2, 1) /\ UtilityTable[37] = Scalar(3, 1)
      /\ UtilityTable[38] = Scalar(FeatureMap, 4)
      /\ UtilityTable[39] = Scalar(ClusterRevision, 2) /\ UtilityTable[40] = Setting(0)
      /\ UtilityTable[51] = Setting(4)
  BY SMTT(60) DEF UtilityTable
<1>3. /\ IdOf[6] = 0 /\ IdOf[7] = 1 /\ IdOf[18] = 5 /\ IdOf[19] = 6 /\ IdOf[33] = 0
      /\ IdOf[34] = 1 /\ IdOf[35] = 2 /\ IdOf[36] = 3 /\ IdOf[37] = FeatureMap
      /\ IdOf[38] = ClusterRevision /\ IdOf[39] = 0 /\ IdOf[50] = 4 /\ SizeOf[6] = 0
      /\ SizeOf[7] = 0 /\ SizeOf[18] = 0 /\ SizeOf[19] = 0 /\ SizeOf[33] = 0
      /\ SizeOf[34] = 1 /\ SizeOf[35] = 1 /\ SizeOf[36] = 1 /\ SizeOf[37] = 4
      /\ SizeOf[38] = 2 /\ SizeOf[39] = 0 /\ SizeOf[50] = 0 /\ BlobOf[6] = NoBlob
      /\ BlobOf[7] = NoBlob /\ BlobOf[18] = NoBlob /\ BlobOf[19] = NoBlob
      /\ BlobOf[33] = NoBlob /\ BlobOf[34] = NoBlob /\ BlobOf[35] = NoBlob
      /\ BlobOf[36] = NoBlob /\ BlobOf[37] = NoBlob /\ BlobOf[38] = NoBlob
      /\ BlobOf[39] = NoBlob /\ BlobOf[50] = NoBlob
  BY SMTT(60) DEF IdOf, SizeOf, BlobOf
<1>4. /\ HasShape(UtilityTable[7], 6) /\ HasShape(UtilityTable[8], 7)
      /\ HasShape(UtilityTable[19], 18) /\ HasShape(UtilityTable[20], 19)
      /\ HasShape(UtilityTable[34], 33) /\ HasShape(UtilityTable[40], 39)
      /\ HasShape(UtilityTable[51], 50)
  BY <1>2, <1>3, Shapes, SMTT(60) DEF HasShape, Settings
<1>5. /\ HasShape(UtilityTable[35], 34) /\ HasShape(UtilityTable[36], 35)
      /\ HasShape(UtilityTable[37], 36) /\ HasShape(UtilityTable[38], 37)
      /\ HasShape(UtilityTable[39], 38)
  BY <1>2, <1>3, Shapes, SMTT(60) DEF HasShape, Settings
<1>6. \A a \in 0..70 : a \notin special => HasShape(UtilityTable[a + 1], a)
  BY <1>1, Shapes DEF HasShape
<1>7. \A a \in special : HasShape(UtilityTable[a + 1], a)
  BY <1>4, <1>5, SMTT(60)
<1> QED BY <1>6, <1>7

(* The same for the network clusters ...                                    *)
LEMMA NetworkRows == \A a \in 71..166 : HasShape(NetworkTable[a - 70], a)
<1> DEFINE special == {134, 139, 149, 161, 162, 166}
<1>1. \A a \in 71..166 : a \notin special =>
        /\ NetworkTable[a - 70] = Plain
        /\ IdOf[a] = NoId /\ SizeOf[a] = 0 /\ a \notin Settings /\ BlobOf[a] = NoBlob
  <2> TAKE a \in 71..166
  <2>1. a \notin special => NetworkTable[a - 70] = Plain
    BY SMTT(60) DEF NetworkTable
  <2>2. a \notin special => IdOf[a] = NoId /\ SizeOf[a] = 0
    BY SMTT(60) DEF IdOf, SizeOf
  <2>3. a \notin special => a \notin Settings /\ BlobOf[a] = NoBlob
    BY SMTT(60) DEF Settings, BlobOf
  <2> QED BY <2>1, <2>2, <2>3
<1>2. /\ NetworkTable[64] = Scalar(FeatureMap, 4)
      /\ NetworkTable[69] = Scalar(FeatureMap, 4) /\ NetworkTable[79] = Setting(0)
      /\ NetworkTable[91] = Scalar(6, 4) /\ NetworkTable[92] = Text(7, 129, 0)
      /\ NetworkTable[96] = Scalar(ClusterRevision, 2)
  BY SMTT(60) DEF NetworkTable
<1>3. /\ IdOf[134] = FeatureMap /\ IdOf[139] = FeatureMap /\ IdOf[149] = 0 /\ IdOf[161] = 6
      /\ IdOf[162] = 7 /\ IdOf[166] = ClusterRevision /\ SizeOf[134] = 4 /\ SizeOf[139] = 4
      /\ SizeOf[149] = 0 /\ SizeOf[161] = 4 /\ SizeOf[162] = 129 /\ SizeOf[166] = 2
      /\ BlobOf[134] = NoBlob /\ BlobOf[139] = NoBlob /\ BlobOf[149] = NoBlob
      /\ BlobOf[161] = NoBlob /\ BlobOf[162] = 0 /\ BlobOf[166] = NoBlob
  BY SMTT(60) DEF IdOf, SizeOf, BlobOf
<1>4. /\ HasShape(NetworkTable[79], 149)
  BY <1>2, <1>3, Shapes, SMTT(60) DEF HasShape, Settings
<1>5. /\ HasShape(NetworkTable[64], 134) /\ HasShape(NetworkTable[69], 139)
      /\ HasShape(NetworkTable[91], 161) /\ HasShape(NetworkTable[92], 162)
      /\ HasShape(NetworkTable[96], 166)
  BY <1>2, <1>3, Shapes, SMTT(60) DEF HasShape, Settings
<1>6. \A a \in 71..166 : a \notin special => HasShape(NetworkTable[a - 70], a)
  BY <1>1, Shapes DEF HasShape
<1>7. \A a \in special : HasShape(NetworkTable[a - 70], a)
  BY <1>4, <1>5, SMTT(60)
<1> QED BY <1>6, <1>7

(* ... and for endpoint 1.                                                  *)
LEMMA SensorRows == \A a \in 167..200 : HasShape(SensorTable[a - 166], a)
<1> DEFINE special == {167, 177, 178, 179, 180, 181, 182, 183, 184, 185, 186, 187, 189, 191,
                      192, 193, 194, 195, 196, 197, 198, 199, 200}
<1>1. \A a \in 167..200 : a \notin special =>
        /\ SensorTable[a - 166] = Plain
        /\ IdOf[a] = NoId /\ SizeOf[a] = 0 /\ a \notin Settings /\ BlobOf[a] = NoBlob
  <2> TAKE a \in 167..200
  <2>1. a \notin special => SensorTable[a - 166] = Plain
    BY SMTT(150) DEF SensorTable
  <2>2. a \notin special => IdOf[a] = NoId /\ SizeOf[a] = 0
    BY SMTT(60) DEF IdOf, SizeOf
  <2>3. a \notin special => a \notin Settings /\ BlobOf[a] = NoBlob
    BY SMTT(60) DEF Settings, BlobOf
  <2> QED BY <2>1, <2>2, <2>3
<1>2. /\ SensorTable[1] = Setting(0) /\ SensorTable[11] = Scalar(0, 1)
      /\ SensorTable[12] = Scalar(1, 1) /\ SensorTable[13] = Text(2, 61, 44)
      /\ SensorTable[14] = Scalar(11, 4) /\ SensorTable[15] = Scalar(12, 1)
      /\ SensorTable[16] = Scalar(14, 1) /\ SensorTable[17] = Scalar(15, 1)
      /\ SensorTable[18] = Scalar(16, 1) /\ SensorTable[19] = Scalar(17, 1)
      /\ SensorTable[20] = Text(19, 61, 52) /\ SensorTable[21] = Scalar(25, 1)
      /\ SensorTable[23] = Scalar(FeatureMap, 4) /\ SensorTable[25] = Scalar(0, 2)
      /\ SensorTable[26] = Scalar(1, 2) /\ SensorTable[27] = Scalar(2, 2)
      /\ SensorTable[28] = Scalar(FeatureMap, 4)
      /\ SensorTable[29] = Scalar(ClusterRevision, 2) /\ SensorTable[30] = Scalar(0, 2)
      /\ SensorTable[31] = Scalar(1, 2) /\ SensorTable[32] = Scalar(2, 2)
      /\ SensorTable[33] = Scalar(FeatureMap, 4)
      /\ SensorTable[34] = Scalar(ClusterRevision, 2)
  <2>1. /\ SensorTable[1] = Setting(0) /\ SensorTable[11] = Scalar(0, 1)
        /\ SensorTable[12] = Scalar(1, 1) /\ SensorTable[13] = Text(2, 61, 44)
        /\ SensorTable[14] = Scalar(11, 4) /\ SensorTable[15] = Scalar(12, 1)
        /\ SensorTable[16] = Scalar(14, 1) /\ SensorTable[17] = Scalar(15, 1)
    BY SMTT(60) DEF SensorTable
  <2>2. /\ SensorTable[18] = Scalar(16, 1) /\ SensorTable[19] = Scalar(17, 1)
        /\ SensorTable[20] = Text(19, 61, 52) /\ SensorTable[21] = Scalar(25, 1)
        /\ SensorTable[23] = Scalar(FeatureMap, 4) /\ SensorTable[25] = Scalar(0, 2)
        /\ SensorTable[26] = Scalar(1, 2) /\ SensorTable[27] = Scalar(2, 2)
    BY SMTT(60) DEF SensorTable
  <2>3. /\ SensorTable[28] = Scalar(FeatureMap, 4)
        /\ SensorTable[29] = Scalar(ClusterRevision, 2) /\ SensorTable[30] = Scalar(0, 2)
        /\ SensorTable[31] = Scalar(1, 2) /\ SensorTable[32] = Scalar(2, 2)
        /\ SensorTable[33] = Scalar(FeatureMap, 4)
        /\ SensorTable[34] = Scalar(ClusterRevision, 2)
    BY SMTT(60) DEF SensorTable
  <2> QED BY <2>1, <2>2, <2>3
<1>3. /\ IdOf[167] = 0 /\ IdOf[177] = 0 /\ IdOf[178] = 1 /\ IdOf[179] = 2 /\ IdOf[180] = 11
      /\ IdOf[181] = 12 /\ IdOf[182] = 14 /\ IdOf[183] = 15 /\ IdOf[184] = 16
      /\ IdOf[185] = 17 /\ IdOf[186] = 19 /\ IdOf[187] = 25 /\ IdOf[189] = FeatureMap
      /\ IdOf[191] = 0 /\ IdOf[192] = 1 /\ IdOf[193] = 2 /\ IdOf[194] = FeatureMap
      /\ IdOf[195] = ClusterRevision /\ IdOf[196] = 0 /\ IdOf[197] = 1 /\ IdOf[198] = 2
      /\ IdOf[199] = FeatureMap /\ IdOf[200] = ClusterRevision /\ SizeOf[167] = 0
      /\ SizeOf[177] = 1 /\ SizeOf[178] = 1 /\ SizeOf[179] = 61 /\ SizeOf[180] = 4
      /\ SizeOf[181] = 1 /\ SizeOf[182] = 1 /\ SizeOf[183] = 1 /\ SizeOf[184] = 1
      /\ SizeOf[185] = 1 /\ SizeOf[186] = 61 /\ SizeOf[187] = 1 /\ SizeOf[189] = 4
      /\ SizeOf[191] = 2 /\ SizeOf[192] = 2 /\ SizeOf[193] = 2 /\ SizeOf[194] = 4
      /\ SizeOf[195] = 2 /\ SizeOf[196] = 2 /\ SizeOf[197] = 2 /\ SizeOf[198] = 2
      /\ SizeOf[199] = 4 /\ SizeOf[200] = 2 /\ BlobOf[167] = NoBlob /\ BlobOf[177] = NoBlob
      /\ BlobOf[178] = NoBlob /\ BlobOf[179] = 44 /\ BlobOf[180] = NoBlob
      /\ BlobOf[181] = NoBlob /\ BlobOf[182] = NoBlob /\ BlobOf[183] = NoBlob
      /\ BlobOf[184] = NoBlob /\ BlobOf[185] = NoBlob /\ BlobOf[186] = 52
      /\ BlobOf[187] = NoBlob /\ BlobOf[189] = NoBlob /\ BlobOf[191] = NoBlob
      /\ BlobOf[192] = NoBlob /\ BlobOf[193] = NoBlob /\ BlobOf[194] = NoBlob
      /\ BlobOf[195] = NoBlob /\ BlobOf[196] = NoBlob /\ BlobOf[197] = NoBlob
      /\ BlobOf[198] = NoBlob /\ BlobOf[199] = NoBlob /\ BlobOf[200] = NoBlob
  BY SMTT(60) DEF IdOf, SizeOf, BlobOf
<1>4. /\ HasShape(SensorTable[1], 167)
  BY <1>2, <1>3, Shapes, SMTT(60) DEF HasShape, Settings
<1>5. /\ HasShape(SensorTable[11], 177) /\ HasShape(SensorTable[12], 178)
      /\ HasShape(SensorTable[13], 179) /\ HasShape(SensorTable[14], 180)
      /\ HasShape(SensorTable[15], 181) /\ HasShape(SensorTable[16], 182)
      /\ HasShape(SensorTable[17], 183) /\ HasShape(SensorTable[18], 184)
      /\ HasShape(SensorTable[19], 185) /\ HasShape(SensorTable[20], 186)
      /\ HasShape(SensorTable[21], 187) /\ HasShape(SensorTable[23], 189)
      /\ HasShape(SensorTable[25], 191) /\ HasShape(SensorTable[26], 192)
      /\ HasShape(SensorTable[27], 193) /\ HasShape(SensorTable[28], 194)
      /\ HasShape(SensorTable[29], 195) /\ HasShape(SensorTable[30], 196)
      /\ HasShape(SensorTable[31], 197) /\ HasShape(SensorTable[32], 198)
      /\ HasShape(SensorTable[33], 199) /\ HasShape(SensorTable[34], 200)
  BY <1>2, <1>3, Shapes, SMTT(60) DEF HasShape, Settings
<1>6. \A a \in 167..200 : a \notin special => HasShape(SensorTable[a - 166], a)
  BY <1>1, Shapes DEF HasShape
<1>7. \A a \in special : HasShape(SensorTable[a - 166], a)
  BY <1>4, <1>5, SMTT(60)
<1> QED BY <1>6, <1>7

(* So every row of GENERATED_ATTRIBUTES does.                               *)
LEMMA AttributeRows == \A a \in 0..200 : HasShape(AttributeAt(a), a)
<1> TAKE a \in 0..200
<1>1. CASE a \in 0..70
  BY <1>1, AttributesAre, UtilityRows, ZenonT(60)
<1>2. CASE a \in 71..166
  BY <1>2, AttributesAre, NetworkRows, ZenonT(60)
<1>3. CASE a \in 167..200
  BY <1>3, AttributesAre, SensorRows, ZenonT(60)
<1> QED BY <1>1, <1>2, <1>3

-----------------------------------------------------------------------------
(* Settings of the root endpoint.                                           *)

(* Every attribute of the root endpoint that can be written has a row of    *)
(* access.h.                                                                *)
LEMMA SettingsAreRows ==
  ASSUME NEW c \in 0..14, NEW i \in AttributesOf(c), AttributeAt(i).writable
  PROVE  \E r \in 1..8 : WriteClusters[r] = ClusterAt(c).id /\ WriteIds[r] = AttributeAt(i).id
<1>1. /\ i \in Firsts[c + 1] .. Firsts[c + 1] + Counts[c + 1] - 1
      /\ ClusterAt(c).id = Names[c + 1]
  BY ClusterRows DEF AttributesOf
<1>2. i \in 0..166
  BY <1>1, SMT DEF Firsts, Counts
<1>3. i \in Settings /\ AttributeAt(i).id = IdOf[i]
  BY <1>2, AttributeRows, SMTT(60) DEF HasShape, Shape
<1> DEFINE row(r) == WriteClusters[r] = Names[c + 1] /\ WriteIds[r] = AttributeAt(i).id
<1>4. row(1) \/ row(2) \/ row(3) \/ row(4) \/ row(5) \/ row(6) \/ row(7) \/ row(8)
  <2>1. CASE i \in {6, 7}
    <3>1. c = 1 /\ AttributeAt(i).id = i - 6
      BY <1>1, <1>3, <2>1, SMT DEF Firsts, Counts, IdOf
    <3> QED BY <2>1, <3>1, SMT DEF WriteClusters, WriteIds, Names
  <2>2. CASE i \in {18, 19}
    <3>1. c = 2 /\ AttributeAt(i).id = i - 13
      BY <1>1, <1>3, <2>2, SMT DEF Firsts, Counts, IdOf
    <3> QED BY <2>2, <3>1, SMT DEF WriteClusters, WriteIds, Names
  <2>3. CASE i = 33
    <3>1. c = 4 /\ AttributeAt(i).id = 0
      BY <1>1, <1>3, <2>3, SMT DEF Firsts, Counts, IdOf
    <3> QED BY <3>1, SMT DEF WriteClusters, WriteIds, Names
  <2>4. CASE i = 39
    <3>1. c = 5 /\ AttributeAt(i).id = 0
      BY <1>1, <1>3, <2>4, SMT DEF Firsts, Counts, IdOf
    <3> QED BY <3>1, SMT DEF WriteClusters, WriteIds, Names
  <2>5. CASE i = 50
    <3>1. c = 6 /\ AttributeAt(i).id = 4
      BY <1>1, <1>3, <2>5, SMT DEF Firsts, Counts, IdOf
    <3> QED BY <3>1, SMT DEF WriteClusters, WriteIds, Names
  <2>6. CASE i = 149
    <3>1. c = 13 /\ AttributeAt(i).id = 0
      BY <1>1, <1>3, <2>6, SMT DEF Firsts, Counts, IdOf
    <3> QED BY <3>1, SMT DEF WriteClusters, WriteIds, Names
  <2> HIDE DEF row
  <2> QED BY <1>2, <1>3, <2>1, <2>2, <2>3, <2>4, <2>5, <2>6 DEF Settings
<1> HIDE DEF row
<1>5. \E r \in 1..8 : row(r)
  BY <1>4
<1> QED BY <1>1, <1>5 DEF row

(* So a listed write at the root endpoint needs Manage at least.            *)
LEMMA SettingsGuarded ==
  ASSUME NEW r \in Requests, r.kind = "write", r.ep = 0, Listed(r)
  PROVE  RequiredPrivilege(r.kind, r.cluster, r.id) \in {Manage, Administer}
<1> PICK c \in ServersAt(r.ep, r.cluster) :
         \E i \in AttributesOf(c) : AttributeAt(i).id = r.id /\ AttributeAt(i).writable
  BY DEF Listed
<1>1. c \in 0..14 /\ ClusterAt(c).id = r.cluster
  <2>1. /\ c \in UNION {ClustersOf(e) : e \in Endpoints \cap {0}}
        /\ ClusterAt(c).id = r.cluster
    BY DEF ServersAt
  <2> QED BY <2>1, EndpointRows
<1> PICK i \in AttributesOf(c) : AttributeAt(i).id = r.id /\ AttributeAt(i).writable
  OBVIOUS
<1> PICK q \in 1..8 : WriteClusters[q] = r.cluster /\ WriteIds[q] = r.id
  BY <1>1, SettingsAreRows
<1>2. WritePrivileges[q] \in {Manage, Administer}
  BY DEF WritePrivileges
<1> QED BY <1>2, WriteRow

(* For every set of requests, the commands that commission the node and its *)
(* access control list are for administrators only, and settings of the     *)
(* root endpoint for those who manage it (CommissioningGuarded).            *)
THEOREM OnlyAdministratorsCommission == Spec => []CommissioningGuarded
<1>1. RequestInv => CommissioningGuarded
  <2> SUFFICES ASSUME RequestInv, stage = "done", ran
               PROVE  CommissioningGuarded
    BY DEF CommissioningGuarded
  <2>1. req \in Requests /\ Listed(req) /\ req.privilege \in Privileges
        /\ req.privilege >= RequiredPrivilege(req.kind, req.cluster, req.id)
    BY RequestsAssumption DEF RequestInv, Authorized
  <2>2. req.privilege >= Administer => req.privilege = Administer
    BY <2>1 DEF Privileges, View, Administer
  <2>3. req.kind = "invoke" /\ req.cluster \in FabricClusters => req.privilege = Administer
    BY <2>1, <2>2, FabricCommandsGuarded
  <2>4. req.cluster = "AccessControl" /\ req.kind \in {"read", "write"} /\ req.id \in {0, 1}
          => req.privilege = Administer
    BY <2>1, <2>2, AccessListGuarded
  <2>5. req.kind = "write" /\ req.ep = 0 => req.privilege >= Manage
    <3>1. CASE req.kind = "write" /\ req.ep = 0
      <4>1. RequiredPrivilege(req.kind, req.cluster, req.id) \in {Manage, Administer}
        BY <2>1, <3>1, SettingsGuarded
      <4> QED BY <2>1, <4>1 DEF Privileges, View, Administer, Manage
    <3> QED BY <3>1
  <2> QED BY <2>3, <2>4, <2>5 DEF CommissioningGuarded
<1> QED BY <1>1, RequestInvHolds, PTL

-----------------------------------------------------------------------------
(* The attribute store: its inductive invariant.                            *)

\* The first byte of every cluster, and of what is behind the last one.
Areas == <<0, 0, 0, 0, 0, 9, 9, 9, 9, 9, 9, 13, 17, 17, 17, 152, 152, 152, 290, 302, 314>>

\* The first byte of every endpoint, and of what is behind them.
EndpointStart == <<0, 152, 314>>

\* The bytes of an attribute, and that it is the last one written to each of them.
BytesOf(a) == StartOf[a] .. StartOf[a] + SizeOf[a] - 1
Owned(a) == \A b \in BytesOf(a) : owner[b] = a + 1

\* The clusters of an endpoint and the attributes of a cluster.
ClusterRange(e) == IF e = 0 THEN 0..14 ELSE 15..19
AttributeRange(c) == Firsts[c + 1] .. Firsts[c + 1] + Counts[c + 1] - 1

\* The cluster that a job names ...
IsTarget(j, c) == /\ j.ep \in {0, 1} /\ c \in ClusterRange(j.ep)
                  /\ c # 3 /\ Names[c + 1] = j.cluster

\* ... the stored attribute that it names ...
Aims(j, c, a) == IsTarget(j, c) /\ a \in AttributeRange(c) /\ IdOf[a] = j.id /\ SizeOf[a] # 0

\* ... and whether what it writes fits that attribute.
Suits(j, a) == IF BlobOf[a] = NoBlob THEN j.bytes = SizeOf[a] ELSE j.bytes <= SizeOf[a]

\* The walk has not passed this place yet.
Ahead(c, a) ==
  /\ at.level = "endpoint" => at.ep <= job.ep
  /\ at.level = "cluster" => at.c <= c
  /\ at.level = "attribute" => at.a <= a

\* What any job is.
Asked(j) == j.kind \in {"read", "write"} /\ j.ep \in Nat /\ j.id \in Nat

\* Every byte of the store belongs to one of the 201 attributes or to none yet.
OwnersTyped == owner \in [0..313 -> 0..201]

\* Where a walk can be.
Places ==
  [level : {"endpoint", "cluster", "attribute"}, ep : 0..2, c : 0..20, a : 0..201, offset : Nat]

\* Where the variables range; clients are served only after all defaults.
StoreTyped ==
  /\ DOMAIN owner = 0..313
  /\ next \in 0..201 /\ slot \in 0..18
  /\ job = NoJob \/ Asked(job)
  /\ at \in Places
  /\ job.kind = "read" => next = 201

(* Wherever the walk is, its offset is the first byte of that endpoint,     *)
(* cluster or attribute, and it enters only the endpoint and the cluster of *)
(* its job.                                                                 *)
OnItsWay ==
  job # NoJob =>
    /\ at.level = "endpoint" => at.offset = EndpointStart[at.ep + 1]
    /\ at.level = "cluster" => /\ job.ep = at.ep /\ at.ep \in {0, 1}
                               /\ at.c \in ClusterRange(at.ep) \cup {IF at.ep = 0 THEN 15 ELSE 20}
                               /\ at.offset = Areas[at.c + 1]
    /\ at.level = "attribute" => /\ IsTarget(job, at.c)
                                 /\ at.a \in AttributeRange(at.c)
                                               \cup {Firsts[at.c + 1] + Counts[at.c + 1]}
                                 /\ at.offset = StartOf[at.a]

(* Whatever is written is aimed at an attribute it fits, still ahead; while *)
(* defaults are loaded it is the one before the next.                       *)
Arrives ==
  job.kind = "write" =>
    \E c \in 0..19, a \in 0..200 : /\ Aims(job, c, a) /\ Suits(job, a) /\ Ahead(c, a)
                                   /\ next < 201 => a = next - 1

(* Every attribute whose default was loaded owns its bytes, but for the one *)
(* that is being written.                                                   *)
Filled ==
  \A a \in 0..200 :
    a < next /\ SizeOf[a] # 0 =>
      Owned(a) \/ (job.kind = "write" /\ \E c \in 0..19 : Aims(job, c, a))

\* The inductive invariant of the store.
StoreInv ==
  OwnersTyped /\ StoreTyped /\ OnItsWay /\ Arrives /\ Filled /\ strange = {} /\ lost = {}

-----------------------------------------------------------------------------
(* Sizes and offsets of the three tables.                                   *)

(* An attribute starts where the one before it ends.                        *)
LEMMA StartsAddUp == \A a \in 0..200 : StartOf[a + 1] = StartOf[a] + SizeOf[a]
<1> TAKE a \in 0..200
<1>1. CASE a \in 0..133
  BY <1>1, SMTT(60) DEF StartOf, SizeOf
<1>2. CASE a \in 134..179
  BY <1>2, SMTT(60) DEF StartOf, SizeOf
<1>3. CASE a \in 180..190
  BY <1>3, SMTT(60) DEF StartOf, SizeOf
<1>4. CASE a \in 191..200
  BY <1>4, SMTT(60) DEF StartOf, SizeOf
<1> QED BY <1>1, <1>2, <1>3, <1>4

(* The columns hold numbers.                                                *)
LEMMA ColumnsTyped == \A a \in 0..200 : SizeOf[a] \in Nat /\ IdOf[a] \in Int /\ BlobOf[a] \in Int
<1>1. \A a \in 0..200 : SizeOf[a] \in Nat
  BY SMTT(60) DEF SizeOf
<1>2. \A a \in 0..200 : IdOf[a] \in Int
  BY SMTT(60) DEF IdOf, NoId, FeatureMap, ClusterRevision
<1>3. \A a \in 0..200 : BlobOf[a] \in Int
  BY SMTT(60) DEF BlobOf, NoBlob
<1> QED BY <1>1, <1>2, <1>3

(* Every attribute starts in the store ...                                  *)
LEMMA StartsInStore == \A a \in 0..201 : StartOf[a] \in Nat /\ StartOf[a] <= 314
<1>1. \A a \in 0..201 : StartOf[a] \in Nat
  BY SMTT(60) DEF StartOf
<1>2. \A a \in 0..201 : StartOf[a] <= 314
  BY SMTT(60) DEF StartOf
<1> QED BY <1>1, <1>2

(* ... not before those of lower position.                                  *)
LEMMA StartsGrow == \A a, b \in 0..201 : a <= b => StartOf[a] <= StartOf[b]
BY SMTT(120) DEF StartOf

(* So no byte belongs to two attributes ...                                 *)
LEMMA BytesApart ==
  \A a, b \in 0..200 : \A x \in BytesOf(a) : x \in BytesOf(b) => a = b
<1> SUFFICES ASSUME NEW a \in 0..200, NEW b \in 0..200, NEW x \in BytesOf(a), x \in BytesOf(b)
             PROVE  a = b
  OBVIOUS
<1>1. /\ StartOf[a] \in Nat /\ StartOf[b] \in Nat /\ SizeOf[a] \in Nat /\ SizeOf[b] \in Nat
      /\ StartOf[a + 1] \in Nat /\ StartOf[b + 1] \in Nat
      /\ a \in 0..201 /\ b \in 0..201 /\ a + 1 \in 0..201 /\ b + 1 \in 0..201
  <2>1. a \in 0..201 /\ b \in 0..201 /\ a + 1 \in 0..201 /\ b + 1 \in 0..201
    OBVIOUS
  <2> QED BY <2>1, ColumnsTyped, StartsInStore
<1>2. /\ x \in Int /\ StartOf[a] <= x /\ x < StartOf[a + 1] /\ StartOf[b] <= x /\ x < StartOf[b + 1]
  BY <1>1, StartsAddUp DEF BytesOf
<1>3. CASE a < b
  <2>1. a + 1 <= b
    BY <1>3
  <2>2. StartOf[a + 1] <= StartOf[b]
    BY <1>1, <2>1, StartsGrow
  <2> QED BY <1>1, <1>2, <2>2
<1>4. CASE b < a
  <2>1. b + 1 <= a
    BY <1>4
  <2>2. StartOf[b + 1] <= StartOf[a]
    BY <1>1, <2>1, StartsGrow
  <2> QED BY <1>1, <1>2, <2>2
<1> QED BY <1>3, <1>4

(* ... and none is outside the store of ATTRIBUTE_MAX_SIZE bytes.           *)
LEMMA BytesInStore == \A a \in 0..200 : BytesOf(a) \subseteq 0..313
<1> TAKE a \in 0..200
<1>1. StartOf[a] \in Nat /\ SizeOf[a] \in Nat /\ StartOf[a] + SizeOf[a] <= 314
  <2>1. a \in 0..201 /\ a + 1 \in 0..201
    OBVIOUS
  <2> QED BY <2>1, ColumnsTyped, StartsInStore, StartsAddUp
<1> QED BY <1>1 DEF BytesOf

(* Every byte of the store belongs to an attribute.                         *)
LEMMA EveryByteOwned == \A b \in 0..313 : \E a \in 0..200 : SizeOf[a] # 0 /\ b \in BytesOf(a)
<1> TAKE b \in 0..313
<1> DEFINE in(a) == SizeOf[a] # 0 /\ b \in BytesOf(a)
<1>1. CASE b < 150
  <2>1. \/ in(34) \/ in(35) \/ in(36) \/ in(37) \/ in(38) \/ in(134)
        \/ in(139) \/ in(161) \/ in(162)
    BY <1>1, SMTT(60) DEF BytesOf, StartOf, SizeOf
  <2> HIDE DEF in
  <2>2. \E a \in 0..200 : in(a)
    BY <2>1
  <2> QED BY <2>2 DEF in
<1>2. CASE b >= 150 /\ b < 290
  <2>1. CASE b < 154
    <3>1. in(166) \/ in(177) \/ in(178)
      BY <1>2, <2>1, SMTT(60) DEF BytesOf, StartOf, SizeOf
    <3> HIDE DEF in
    <3>2. \E a \in 0..200 : in(a)
      BY <3>1
    <3> QED BY <3>2 DEF in
  <2>2. CASE b >= 154 /\ b < 215
    <3>1. in(179)
      BY <1>2, <2>2, SMTT(60) DEF BytesOf, StartOf, SizeOf
    <3> HIDE DEF in
    <3>2. \E a \in 0..200 : in(a)
      BY <3>1
    <3> QED BY <3>2 DEF in
  <2>3. CASE b >= 215 /\ b < 222
    <3>1. in(180) \/ in(181) \/ in(182) \/ in(183)
      BY <1>2, <2>3, SMTT(60) DEF BytesOf, StartOf, SizeOf
    <3> HIDE DEF in
    <3>2. \E a \in 0..200 : in(a)
      BY <3>1
    <3> QED BY <3>2 DEF in
  <2>4. CASE b >= 222
    <3>1. in(184) \/ in(185) \/ in(186) \/ in(187) \/ in(189)
      BY <1>2, <2>4, SMTT(60) DEF BytesOf, StartOf, SizeOf
    <3> HIDE DEF in
    <3>2. \E a \in 0..200 : in(a)
      BY <3>1
    <3> QED BY <3>2 DEF in
  <2> QED BY <1>2, <2>1, <2>2, <2>3, <2>4
<1>3. CASE b >= 290
  <2>1. \/ in(191) \/ in(192) \/ in(193) \/ in(194) \/ in(195) \/ in(196) \/ in(197) \/ in(198)
        \/ in(199) \/ in(200)
    BY <1>3, SMTT(60) DEF BytesOf, StartOf, SizeOf
  <2> HIDE DEF in
  <2>2. \E a \in 0..200 : in(a)
    BY <2>1
  <2> QED BY <2>2 DEF in
<1> QED BY <1>1, <1>2, <1>3

(* clusterSize of every row is the distance to the next cluster.            *)
LEMMA ClusterSizes == \A c \in 0..19 : Areas[c + 2] = Areas[c + 1] + ClusterAt(c).size
<1>1. \A c \in 0..14 : Areas[c + 2] = Areas[c + 1] + RootClusters[c + 1].size
  BY SMTT(60) DEF RootClusters, Cluster, Areas, NoList
<1>2. \A c \in 15..19 : Areas[c + 2] = Areas[c + 1] + SensorClusters[c - 14].size
  BY SMTT(60) DEF SensorClusters, Cluster, Areas, NoList
<1> QED BY <1>1, <1>2, ClustersAre

(* A cluster starts where its first attribute does.                         *)
LEMMA AreasStart ==
  /\ \A c \in 0..20 : Areas[c + 1] \in Nat
  /\ \A c \in 0..19 : /\ Firsts[c + 1] \in 0..200 /\ Counts[c + 1] \in 0..65
                      /\ Firsts[c + 1] + Counts[c + 1] \in 0..201
                      /\ Areas[c + 1] = StartOf[Firsts[c + 1]]
<1>1. \A c \in 0..20 : Areas[c + 1] \in Nat
  BY SMT DEF Areas
<1>2. \A c \in 0..19 : /\ Firsts[c + 1] \in 0..200 /\ Counts[c + 1] \in 0..65
                       /\ Firsts[c + 1] + Counts[c + 1] \in 0..201
  BY SMTT(60) DEF Firsts, Counts
<1>3. \A c \in 0..19 : Areas[c + 1] = StartOf[Firsts[c + 1]]
  <2>1. /\ StartOf[0] = 0 /\ StartOf[6] = 0 /\ StartOf[13] = 0 /\ StartOf[33] = 0
        /\ StartOf[39] = 9 /\ StartOf[46] = 9 /\ StartOf[58] = 9 /\ StartOf[60] = 9
        /\ StartOf[67] = 9 /\ StartOf[71] = 9 /\ StartOf[136] = 13 /\ StartOf[141] = 17
        /\ StartOf[149] = 17 /\ StartOf[155] = 17 /\ StartOf[167] = 152
        /\ StartOf[171] = 152 /\ StartOf[177] = 152 /\ StartOf[191] = 290 /\ StartOf[196] = 302
    BY SMTT(60) DEF StartOf
  <2> QED BY <2>1, SMTT(60) DEF Areas, Firsts
<1>4. ASSUME NEW c \in 0..19
      PROVE  /\ Firsts[c + 1] \in 0..200 /\ Counts[c + 1] \in 0..65
             /\ Firsts[c + 1] + Counts[c + 1] \in 0..201
             /\ Areas[c + 1] = StartOf[Firsts[c + 1]]
  BY <1>2, <1>3, ZenonT(60)
<1> QED BY <1>1, <1>4, ZenonT(60)

(* The attributes of a cluster by position.                                 *)
LEMMA AttributeRanges ==
  \A c \in 0..19 : AttributesOf(c) = AttributeRange(c) /\ AttributeRange(c) \subseteq 0..200
<1> TAKE c \in 0..19
<1>1. AttributesOf(c) = AttributeRange(c)
  BY ClusterRows DEF AttributesOf, AttributeRange
<1>2. AttributeRange(c) \subseteq 0..200
  <2> PICK f \in 0..200 : f = Firsts[c + 1]
    BY AreasStart
  <2> PICK n \in 0..65 : n = Counts[c + 1]
    BY AreasStart
  <2>1. f + n \in 0..201
    BY AreasStart
  <2>2. AttributeRange(c) = f .. f + n - 1
    BY DEF AttributeRange
  <2>3. f .. f + n - 1 \subseteq 0..200
    BY <2>1, SMTT(60)
  <2> QED BY <2>2, <2>3, Zenon
<1> QED BY <1>1, <1>2

(* No cluster has two attributes with one id, apart from those without.     *)
LEMMA OneId ==
  \A c \in 0..19 : \A a, b \in AttributeRange(c) : IdOf[a] = IdOf[b] /\ IdOf[a] \in Nat => a = b
<1> TAKE c \in 0..19
<1> SUFFICES ASSUME NEW a \in AttributeRange(c), NEW b \in AttributeRange(c),
                    IdOf[a] = IdOf[b], IdOf[a] \in Nat
             PROVE  a = b
  OBVIOUS
<1>1. a \in 0..200 /\ b \in 0..200
  BY AttributeRanges
<1>2. CASE c \in 0..9
  BY <1>1, <1>2, SMTT(120)
  DEF AttributeRange, Firsts, Counts, IdOf, NoId, FeatureMap, ClusterRevision
<1>3. CASE c \in 10..15
  BY <1>1, <1>3, SMTT(120)
  DEF AttributeRange, Firsts, Counts, IdOf, NoId, FeatureMap, ClusterRevision
<1>4. CASE c \in 16..19
  BY <1>1, <1>4, SMTT(120)
  DEF AttributeRange, Firsts, Counts, IdOf, NoId, FeatureMap, ClusterRevision
<1> QED BY <1>2, <1>3, <1>4

(* A job names at most one cluster.                                         *)
LEMMA OneTarget ==
  ASSUME NEW j, NEW c \in 0..19, NEW d \in 0..19, IsTarget(j, c), IsTarget(j, d)
  PROVE  c = d
<1>1. Names[c + 1] = Names[d + 1] /\ (c < 15 <=> d < 15)
  BY DEF IsTarget, ClusterRange
<1> QED BY <1>1, DistinctNames

(* A server cluster has its data version among the 19 of                    *)
(* ZAP_FIXED_ENDPOINT_DATA_VERSION_COUNT.                                   *)
LEMMA SlotsFit == \A c \in 0..19 : c # 3 => DataVersionSlot(c) \in 0..18
<1> SUFFICES ASSUME NEW c \in 0..19, c # 3 PROVE DataVersionSlot(c) \in 0..18
  OBVIOUS
<1>0. PICK n \in Nat : n = 18
  OBVIOUS
<1> DEFINE before == {d \in 0 .. c - 1 : ClusterAt(d).server}
           all == 0..n
           most == all \ {3}
<1>1. before \subseteq most
  BY <1>0, ClusterRows
<1>2. IsFiniteSet(most) /\ Cardinality(most) = 18
  <2>1. IsFiniteSet(all) /\ Cardinality(all) = n + 1
    BY FS_Interval
  <2>2. 3 \in all
    BY <1>0
  <2> HIDE DEF all
  <2>3. IsFiniteSet(most) /\ Cardinality(most) = n + 1 - 1
    BY <2>1, <2>2, FS_RemoveElement
  <2> QED BY <1>0, <2>3
<1> HIDE DEF before, most
<1>3. IsFiniteSet(before) /\ Cardinality(before) <= 18
  BY <1>1, <1>2, FS_Subset
<1>4. Cardinality(before) \in Nat
  BY <1>3, FS_CardinalityType
<1> QED BY <1>3, <1>4 DEF DataVersionSlot, before

-----------------------------------------------------------------------------
(* Where writes arrive.                                                     *)

(* Every attribute is in one cluster of one endpoint, and that cluster is a *)
(* server.                                                                  *)
LEMMA Homes ==
  \A a \in 0..200 :
    /\ ClusterWith(a) \in 0..19 /\ ClusterWith(a) # 3 /\ a \in AttributeRange(ClusterWith(a))
    /\ EndpointWith(ClusterWith(a)) \in {0, 1}
    /\ ClusterWith(a) \in ClusterRange(EndpointWith(ClusterWith(a)))
<1> TAKE a \in 0..200
<1>1. \E c \in 0..19 : a \in AttributeRange(c)
  <2> DEFINE in(c) == a \in AttributeRange(c)
  <2>1. \/ in(0) \/ in(1) \/ in(2) \/ in(4) \/ in(5) \/ in(6) \/ in(7) \/ in(8) \/ in(9) \/ in(10)
        \/ in(11) \/ in(12) \/ in(13) \/ in(14) \/ in(15) \/ in(16) \/ in(17) \/ in(18) \/ in(19)
    BY SMTT(60) DEF AttributeRange, Firsts, Counts
  <2> HIDE DEF in
  <2>2. \E c \in 0..19 : in(c)
    BY <2>1
  <2> QED BY <2>2 DEF in
<1> DEFINE c == ClusterWith(a)
<1>2. c \in 0..19 /\ a \in AttributeRange(c)
  <2>1. \E k \in 0 .. Len(Clusters) - 1 : a \in AttributesOf(k)
    BY <1>1, ClustersAre, AttributeRanges
  <2>2. ClusterWith(a) \in 0 .. Len(Clusters) - 1 /\ a \in AttributesOf(ClusterWith(a))
    BY <2>1, Zenon DEF ClusterWith
  <2> QED BY <2>2, ClustersAre, AttributeRanges
<1> HIDE DEF c
<1>3. c # 3
  BY <1>2, SMT DEF AttributeRange, Firsts, Counts
<1>4. EndpointWith(c) = IF c < 15 THEN 0 ELSE 1
  BY <1>2, EndpointRows DEF EndpointWith, EndpointOf
<1>5. EndpointWith(c) \in {0, 1} /\ c \in ClusterRange(EndpointWith(c))
  BY <1>2, <1>4 DEF ClusterRange
<1> QED BY <1>2, <1>3, <1>5 DEF c

(* The sizes of GENERATED_ENDPOINT_TYPES are those of their clusters        *)
(* together.                                                                *)
LEMMA EndpointTable ==
  /\ Endpoints = {0, 1}
  /\ EndpointAt(0).size = 152 /\ EndpointAt(1).size = 162
  /\ EndpointAt(0).first = 0 /\ EndpointAt(1).first = 15
  /\ ClustersOf(0) = ClusterRange(0) /\ ClustersOf(1) = ClusterRange(1)
<1>1. /\ EndpointAt(0).size = 152 /\ EndpointAt(1).size = 162
      /\ EndpointAt(0).first = 0 /\ EndpointAt(1).first = 15
  BY DEF EndpointAt, EndpointTypes
<1> QED BY <1>1, EndpointRows DEF ClusterRange

\* A job has an attribute that it fits.
Goal(j) == \E c \in 0..19, a \in 0..200 : Aims(j, c, a) /\ Suits(j, a)

\* A write that has one.
Lands(j) == Asked(j) /\ j.kind = "write" /\ Goal(j)

\* Attribute a of cluster c answers to these names and holds these bytes.
Place(c, a, ep, cluster, id, bytes) ==
  /\ ep \in {0, 1} /\ id \in Nat /\ bytes \in Nat
  /\ c \in 0..19 /\ c \in ClusterRange(ep) /\ c # 3 /\ Names[c + 1] = cluster
  /\ a \in AttributeRange(c) /\ IdOf[a] = id /\ SizeOf[a] # 0
  /\ IF BlobOf[a] = NoBlob THEN bytes = SizeOf[a] ELSE bytes <= SizeOf[a]

(* A write to such a place has its attribute.                               *)
LEMMA JobLands ==
  ASSUME NEW c, NEW a, NEW ep, NEW cluster, NEW id, NEW bytes,
         Place(c, a, ep, cluster, id, bytes)
  PROVE  Lands(Job("write", ep, cluster, id, bytes))
<1> DEFINE j == Job("write", ep, cluster, id, bytes)
<1>1. /\ j.kind = "write" /\ j.ep = ep /\ j.cluster = cluster /\ j.id = id /\ j.bytes = bytes
      /\ Asked(j)
  BY DEF Job, Asked, Place
<1> HIDE DEF j
<1>2. Aims(j, c, a) /\ Suits(j, a)
  BY <1>1 DEF Aims, IsTarget, Suits, Place
<1>3. c \in 0..19 /\ a \in 0..200
  BY AttributeRanges DEF Place
<1>4. Lands(j)
  BY <1>1, <1>2, <1>3 DEF Lands, Goal
<1> QED BY <1>4 DEF j

(* Everything that AppTask sets has its attribute: it is in the store, at   *)
(* that endpoint and of that size.                                          *)
LEMMA PublishedLand == \A j \in Published : Lands(j)
<1>1. /\ Place(14, 161, 0, "IcdManagement", 6, 4)
      /\ Place(14, 162, 0, "IcdManagement", 7, 27)
  BY SMTT(60)
  DEF Place, ClusterRange, AttributeRange, Names, Firsts, Counts, IdOf, SizeOf, BlobOf, NoBlob
<1>2. /\ Place(18, 191, 1, "TemperatureMeasurement", 0, 2)
      /\ Place(18, 192, 1, "TemperatureMeasurement", 1, 2)
      /\ Place(18, 193, 1, "TemperatureMeasurement", 2, 2)
      /\ Place(19, 196, 1, "RelativeHumidityMeasurement", 0, 2)
  BY SMTT(60)
  DEF Place, ClusterRange, AttributeRange, Names, Firsts, Counts, IdOf, SizeOf, BlobOf, NoBlob
<1>3. /\ Place(17, 177, 1, "PowerSource", 0, 1)
      /\ Place(17, 182, 1, "PowerSource", 14, 1)
      /\ Place(17, 184, 1, "PowerSource", 16, 1)
      /\ Place(17, 185, 1, "PowerSource", 17, 1)
      /\ Place(17, 181, 1, "PowerSource", 12, 1)
      /\ Place(17, 180, 1, "PowerSource", 11, 4)
  BY SMTT(60)
  DEF Place, ClusterRange, AttributeRange, Names, Firsts, Counts, IdOf, SizeOf, BlobOf, NoBlob
<1>4. \A j \in WakeHint \cup WakeInstruction : Lands(j)
  BY <1>1, JobLands DEF WakeHint, WakeInstruction
<1>5. \A j \in SensorRange \cup Measured : Lands(j)
  <2>1. /\ Lands(Job("write", 1, "TemperatureMeasurement", 0, 2))
        /\ Lands(Job("write", 1, "TemperatureMeasurement", 1, 2))
        /\ Lands(Job("write", 1, "TemperatureMeasurement", 2, 2))
        /\ Lands(Job("write", 1, "RelativeHumidityMeasurement", 0, 2))
    BY <1>2, JobLands
  <2>2. 1..2 = {1, 2}
    OBVIOUS
  <2> QED BY <2>1, <2>2 DEF SensorRange, Measured
<1>6. \A j \in Battery : Lands(j)
  <2>1. /\ Lands(Job("write", 1, "PowerSource", 0, 1))
        /\ Lands(Job("write", 1, "PowerSource", 14, 1))
        /\ Lands(Job("write", 1, "PowerSource", 16, 1))
        /\ Lands(Job("write", 1, "PowerSource", 17, 1))
        /\ Lands(Job("write", 1, "PowerSource", 12, 1))
        /\ Lands(Job("write", 1, "PowerSource", 11, 4))
    BY <1>3, JobLands
  <2> QED BY <2>1 DEF Battery
<1> QED BY <1>4, <1>5, <1>6 DEF Published

\* The write that loads a default.
DefaultOf(a) ==
  Job("write", EndpointWith(ClusterWith(a)), ClusterAt(ClusterWith(a)).id, AttributeAt(a).id,
      IF AttributeAt(a).blob = NoBlob THEN AttributeAt(a).size
      ELSE DefaultLength[AttributeAt(a).blob] + 1)

(* It arrives at the attribute itself, and fits.                            *)
LEMMA DefaultsLand ==
  ASSUME NEW a \in 0..200, AttributeAt(a).stored
  PROVE  Lands(DefaultOf(a)) /\ \E c \in 0..19 : Aims(DefaultOf(a), c, a) /\ Suits(DefaultOf(a), a)
<1> DEFINE c == ClusterWith(a)
           ep == EndpointWith(c)
           bytes == IF BlobOf[a] = NoBlob THEN SizeOf[a] ELSE DefaultLength[BlobOf[a]] + 1
<1>1. /\ AttributeAt(a).id = IdOf[a] /\ AttributeAt(a).blob = BlobOf[a]
      /\ AttributeAt(a).size = SizeOf[a] /\ SizeOf[a] # 0
  BY AttributeRows DEF HasShape, Shape
<1>2. /\ c \in 0..19 /\ c # 3 /\ a \in AttributeRange(c) /\ ep \in {0, 1}
      /\ c \in ClusterRange(ep) /\ ClusterAt(c).id = Names[c + 1]
  BY Homes, ClusterRows
<1>3. DefaultOf(a) = Job("write", ep, Names[c + 1], IdOf[a], bytes)
  BY <1>1, <1>2 DEF DefaultOf
<1>4. bytes \in Nat /\ IF BlobOf[a] = NoBlob THEN bytes = SizeOf[a] ELSE bytes <= SizeOf[a]
  <2>1. CASE BlobOf[a] = NoBlob
    BY <2>1, ColumnsTyped
  <2>2. CASE BlobOf[a] # NoBlob
    <3>1. a \in {162, 179, 186}
      BY <2>2, SMT DEF BlobOf
    <3>2. /\ BlobOf[162] = 0 /\ BlobOf[179] = 44 /\ BlobOf[186] = 52
          /\ SizeOf[162] = 129 /\ SizeOf[179] = 61 /\ SizeOf[186] = 61
          /\ DefaultLength[0] = 43 /\ DefaultLength[44] = 7 /\ DefaultLength[52] = 1
      BY SMT DEF BlobOf, SizeOf, DefaultLength
    <3> QED BY <2>2, <3>1, <3>2
  <2> QED BY <2>1, <2>2
<1>5. IdOf[a] \in Nat
  BY <1>1, SMTT(60) DEF IdOf, SizeOf, FeatureMap, ClusterRevision
<1> HIDE DEF c, ep, bytes
<1>6. Place(c, a, ep, Names[c + 1], IdOf[a], bytes)
  BY <1>1, <1>2, <1>4, <1>5 DEF Place
<1>7. Aims(DefaultOf(a), c, a) /\ Suits(DefaultOf(a), a)
  BY <1>3, <1>6 DEF Aims, IsTarget, Suits, Place, Job
<1>8. Lands(DefaultOf(a))
  BY <1>3, <1>6, JobLands
<1> QED BY <1>2, <1>7, <1>8

-----------------------------------------------------------------------------
(* Steps of the store.                                                      *)

\* A job that begins when n defaults are loaded or under way is aimed right.
Reaches(j, n) ==
  \E c \in 0..19, a \in 0..200 :
    /\ Aims(j, c, a) /\ Suits(j, a)
    /\ n < 201 => a = n - 1

\* A job brings the value of an attribute, if it has one in the store.
Brings(j, a) == SizeOf[a] = 0 \/ (j.kind = "write" /\ \E c \in 0..19 : Aims(j, c, a))

(* Beginning a job that is aimed right keeps the invariant.                 *)
LEMMA BeginKeeps ==
  ASSUME StoreInv, NEW j, Asked(j), Begin(j), next' \in 0..201,
         j.kind = "read" => next' = 201,
         j.kind = "write" => Reaches(j, next'),
         \A a \in 0..200 : next <= a /\ a < next' => Brings(j, a)
  PROVE  StoreInv'
<1>1. /\ job = NoJob /\ job' = j /\ at' = WalkStart /\ owner' = owner /\ slot' = slot
      /\ lost' = {} /\ strange' = {} /\ job.kind = "none"
  BY DEF StoreInv, Begin, NoJob, Job
<1>2. /\ at'.level = "endpoint" /\ at'.ep = 0 /\ at'.offset = 0
      /\ at' \in Places
  BY <1>1 DEF WalkStart, Places
<1>3. StoreTyped'
  BY <1>1, <1>2 DEF StoreInv, StoreTyped
<1>4. OnItsWay'
  BY <1>2 DEF OnItsWay, EndpointStart
<1>5. \A c, a : Ahead(c, a)'
  BY <1>1, <1>2 DEF Ahead, Asked
<1>6. Arrives'
  <2>1. job' = j
    BY <1>1
  <2>2. SUFFICES ASSUME job'.kind = "write"
        PROVE  \E c \in 0..19, a \in 0..200 :
                 /\ Aims(job', c, a) /\ Suits(job', a) /\ Ahead(c, a)'
                 /\ next' < 201 => a = next' - 1
    BY Zenon DEF Arrives
  <2>3. j.kind = "write"
    BY <2>1, <2>2, Zenon
  <2> PICK c \in 0..19, a \in 0..200 :
        /\ Aims(j, c, a) /\ Suits(j, a)
        /\ next' < 201 => a = next' - 1
    BY <2>3, Zenon DEF Reaches
  <2>4. Aims(job', c, a) /\ Suits(job', a)
    BY <2>1, Zenon
  <2> QED BY <1>5, <2>4, Zenon
<1>7. Filled'
  <2>1. SUFFICES ASSUME NEW a \in 0..200, a < next', SizeOf[a] # 0
        PROVE  \/ Owned(a)'
               \/ j.kind = "write" /\ \E c \in 0..19 : Aims(j, c, a)
    BY <1>1 DEF Filled
  <2>2. CASE a < next
    <3>1. Owned(a)
      BY <1>1, <2>1, <2>2 DEF StoreInv, Filled
    <3> QED BY <1>1, <3>1 DEF Owned
  <2>3. CASE ~(a < next)
    <3>1. next \in 0..201
      BY DEF StoreInv, StoreTyped
    <3> QED BY <2>1, <2>3, <3>1 DEF Brings
  <2> QED BY <2>2, <2>3
<1>8. OwnersTyped'
  BY <1>1 DEF StoreInv, OwnersTyped
<1> QED BY <1>1, <1>3, <1>4, <1>6, <1>7, <1>8 DEF StoreInv

(* So does a step of the walk that stays on its way and passes nothing by   *)
(* ...                                                                      *)
LEMMA MoveKeeps ==
  ASSUME StoreInv, UNCHANGED <<owner, next, job, slot, lost, strange>>, OnItsWay',
         at' \in Places,
         \A c \in 0..19, a \in 0..200 : Aims(job, c, a) /\ Ahead(c, a) => Ahead(c, a)'
  PROVE  StoreInv'
<1>1. StoreTyped'
  BY DEF StoreInv, StoreTyped
<1>2. Arrives'
  BY DEF StoreInv, Arrives
<1>3. Filled'
  BY DEF StoreInv, Filled, Owned
<1>4. OwnersTyped'
  BY DEF StoreInv, OwnersTyped
<1> QED BY <1>1, <1>2, <1>3, <1>4 DEF StoreInv

(* ... and a step that ends the job with every attribute owning its bytes.  *)
LEMMA FinishKeeps ==
  ASSUME StoreInv, job' = NoJob, at' = WalkStart, next' = next, lost' = {}, strange' = {},
         OwnersTyped', slot' \in 0..18,
         \A a \in 0..200 : a < next /\ SizeOf[a] # 0 => Owned(a)'
  PROVE  StoreInv'
<1>1. job'.kind = "none" /\ at' \in Places
  BY DEF NoJob, Job, WalkStart, Places
<1>2. StoreTyped'
  <2>1. DOMAIN owner' = 0..313
    BY DEF OwnersTyped
  <2> QED BY <1>1, <2>1 DEF StoreInv, StoreTyped
<1>3. OnItsWay' /\ Arrives'
  BY <1>1 DEF OnItsWay, Arrives
<1>4. Filled'
  BY DEF Filled
<1> QED BY <1>2, <1>3, <1>4 DEF StoreInv

(* A job is aimed at one attribute.                                         *)
LEMMA OneAim ==
  ASSUME NEW j, NEW c \in 0..19, NEW a, Aims(j, c, a), j.id \in Nat,
         NEW d \in 0..19, NEW b \in AttributeRange(d), IsTarget(j, d), IdOf[b] = j.id
  PROVE  c = d /\ a = b
<1>1. c = d
  BY OneTarget DEF Aims
<1>2. a \in AttributeRange(d) /\ IdOf[a] = IdOf[b] /\ IdOf[a] \in Nat
  BY <1>1 DEF Aims
<1> QED BY <1>1, <1>2, OneId

(* All 201 attributes are loaded.                                           *)
LEMMA LoadedIs == Loaded <=> next = 201
BY AttributesAre DEF Loaded

(* Each action keeps the invariant. Loading a default:                      *)
LEMMA LoadDefaultKeeps == StoreInv /\ LoadDefault => StoreInv'
<1> SUFFICES ASSUME StoreInv, LoadDefault PROVE StoreInv'
  OBVIOUS
<1>1. next \in 0..200 /\ AttributeAt(next).stored /\ next' = next + 1
  BY LoadedIs DEF LoadDefault, StoreInv, StoreTyped
<1> DEFINE j == DefaultOf(next)
<1>2. Begin(j)
  BY DEF LoadDefault, DefaultOf
<1>3. Lands(j) /\ \E c \in 0..19 : Aims(j, c, next) /\ Suits(j, next)
  BY <1>1, DefaultsLand
<1> HIDE DEF j
<1>4. Asked(j) /\ j.kind = "write"
  BY <1>3 DEF Lands
<1>5. Reaches(j, next')
  <2>1. next = next' - 1
    BY <1>1
  <2> QED BY <1>1, <1>3, <2>1, ZenonT(60) DEF Reaches
<1>6. \A a \in 0..200 : next <= a /\ a < next' => Brings(j, a)
  <2>1. Brings(j, next)
    BY <1>3, <1>4 DEF Brings
  <2>2. \A a \in 0..200 : next <= a /\ a < next' => a = next
    BY <1>1
  <2> QED BY <2>1, <2>2, Zenon
<1>7. next' \in 0..201
  BY <1>1
<1> QED BY <1>2, <1>4, <1>5, <1>6, <1>7, BeginKeeps

(* Passing an attribute that is not in the store:                           *)
LEMMA PassExternalKeeps == StoreInv /\ PassExternal => StoreInv'
<1> SUFFICES ASSUME StoreInv, PassExternal PROVE StoreInv'
  OBVIOUS
<1>1. /\ next \in 0..200 /\ ~AttributeAt(next).stored /\ next' = next + 1 /\ next' \in 0..201
      /\ UNCHANGED <<owner, job, at, slot, lost, strange>> /\ job = NoJob
      /\ job.kind = "none"
  BY LoadedIs DEF PassExternal, StoreInv, StoreTyped, NoJob, Job
<1>2. SizeOf[next] = 0
  BY <1>1, AttributeRows, ColumnsTyped DEF HasShape, Shape
<1>3. StoreTyped'
  BY <1>1 DEF StoreInv, StoreTyped
<1>4. OnItsWay' /\ Arrives'
  BY <1>1 DEF OnItsWay, Arrives
<1>5. Filled'
  <2> SUFFICES ASSUME NEW a \in 0..200, a < next', SizeOf[a] # 0 PROVE Owned(a)'
    BY DEF Filled
  <2>1. a < next
    BY <1>1, <1>2
  <2>2. Owned(a)
    BY <1>1, <2>1 DEF StoreInv, Filled
  <2> QED BY <1>1, <2>2 DEF Owned
<1>6. OwnersTyped'
  BY <1>1 DEF StoreInv, OwnersTyped
<1> QED BY <1>1, <1>3, <1>4, <1>5, <1>6 DEF StoreInv

(* A job that begins once everything is loaded:                             *)
LEMMA RequestKeeps ==
  ASSUME StoreInv, Loaded, UNCHANGED next, NEW j, Begin(j), Asked(j), j.kind = "write" => Goal(j)
  PROVE  StoreInv'
<1>1. next = 201 /\ next' = 201
  BY LoadedIs
<1>2. next' \in 0..201 /\ \A a \in 0..200 : next <= a /\ a < next' => Brings(j, a)
  BY <1>1
<1>3. j.kind = "write" => Reaches(j, next')
  <2>1. ~(next' < 201)
    BY <1>1
  <2> QED BY <2>1, ZenonT(60) DEF Goal, Reaches
<1> QED BY <1>1, <1>2, <1>3, BeginKeeps

(* What the application publishes and what clients read:                    *)
LEMMA RequestsKeep == StoreInv /\ (Publish \/ Read) => StoreInv'
<1>1. ASSUME StoreInv, Publish PROVE StoreInv'
  <2>1. PICK j \in Published : Begin(j)
    BY <1>1 DEF Publish
  <2>2. Asked(j) /\ Goal(j)
    BY PublishedLand DEF Lands
  <2> QED BY <1>1, <2>1, <2>2, RequestKeeps DEF Publish
<1>2. ASSUME StoreInv, Read PROVE StoreInv'
  <2>1. PICK r \in Reads : Begin(Job("read", r.ep, r.cluster, r.id, 0))
    BY <1>2 DEF Read
  <2> DEFINE j == Job("read", r.ep, r.cluster, r.id, 0)
  <2>2. r.ep \in Nat /\ r.id \in Nat
    BY ReadsAssumption
  <2>3. j.kind = "read" /\ Asked(j)
    BY <2>2 DEF Job, Asked
  <2>4. Begin(j)
    BY <2>1
  <2> HIDE DEF j
  <2> QED BY <1>2, <2>3, <2>4, RequestKeeps DEF Read
<1> QED BY <1>1, <1>2

(* Moving on in one of its loops keeps it there.                            *)
LEMMA PlacesKept ==
  ASSUME NEW t \in Places, NEW n \in Nat
  PROVE  /\ \A e \in 0..2 : [t EXCEPT !.ep = e, !.offset = n] \in Places
         /\ \A c \in 0..20 : [t EXCEPT !.c = c, !.offset = n] \in Places
         /\ \A a \in 0..201 : [t EXCEPT !.a = a, !.offset = n] \in Places
         /\ \A c \in 0..20 : [t EXCEPT !.level = "cluster", !.c = c] \in Places
         /\ \A a \in 0..201 : [t EXCEPT !.level = "attribute", !.a = a] \in Places
<1>1. \A e \in 0..2 : [t EXCEPT !.ep = e, !.offset = n] \in Places
  BY ZenonT(60) DEF Places
<1>2. \A c \in 0..20 : [t EXCEPT !.c = c, !.offset = n] \in Places
  BY ZenonT(60) DEF Places
<1>3. \A a \in 0..201 : [t EXCEPT !.a = a, !.offset = n] \in Places
  BY ZenonT(60) DEF Places
<1>4. \A c \in 0..20 : [t EXCEPT !.level = "cluster", !.c = c] \in Places
  BY ZenonT(60) DEF Places
<1>5. \A a \in 0..201 : [t EXCEPT !.level = "attribute", !.a = a] \in Places
  BY ZenonT(60) DEF Places
<1> QED BY <1>1, <1>2, <1>3, <1>4, <1>5

(* Passing an endpoint adds its size:                                       *)
LEMMA SkipEndpointKeeps == StoreInv /\ SkipEndpoint => StoreInv'
<1> SUFFICES ASSUME StoreInv, SkipEndpoint PROVE StoreInv'
  OBVIOUS
<1>1. /\ at.level = "endpoint" /\ at.ep \in {0, 1} /\ at.ep # job.ep /\ job # NoJob
      /\ at' = [at EXCEPT !.ep = @ + 1, !.offset = @ + EndpointAt(at.ep).size]
      /\ at \in Places /\ job.ep \in Nat
      /\ UNCHANGED <<owner, next, job, slot, lost, strange>>
  BY EndpointTable DEF SkipEndpoint, Walking, MoveTo, StoreInv, StoreTyped, Asked, Places
<1>2. /\ EndpointStart[1] = 0 /\ EndpointStart[2] = 152 /\ EndpointStart[3] = 314
  BY DEF EndpointStart
<1>3. at.offset = EndpointStart[at.ep + 1]
  BY <1>1 DEF StoreInv, OnItsWay
<1>4. /\ at'.level = "endpoint" /\ at'.ep = at.ep + 1 /\ at'.ep \in 1..2
      /\ at'.offset = EndpointStart[at'.ep + 1] /\ at' \in Places
  <2>1. /\ at.ep + 1 \in 1..2 /\ at.ep + 1 \in 0..2
        /\ at.offset + EndpointAt(at.ep).size = EndpointStart[(at.ep + 1) + 1]
        /\ at.offset + EndpointAt(at.ep).size \in Nat
    BY <1>1, <1>2, <1>3, EndpointTable
  <2>2. at' \in Places
    BY <1>1, <2>1, PlacesKept
  <2>3. /\ at'.level = "endpoint" /\ at'.ep = at.ep + 1
        /\ at'.offset = at.offset + EndpointAt(at.ep).size
    BY <1>1 DEF Places
  <2> QED BY <2>1, <2>2, <2>3
<1>5. OnItsWay'
  BY <1>4 DEF OnItsWay
<1>6. \A c \in 0..19, a \in 0..200 : Aims(job, c, a) /\ Ahead(c, a) => Ahead(c, a)'
  BY <1>1, <1>4 DEF Ahead
<1> QED BY <1>1, <1>4, <1>5, <1>6, MoveKeeps

(* Entering the endpoint of the job:                                        *)
LEMMA EnterEndpointKeeps == StoreInv /\ EnterEndpoint => StoreInv'
<1> SUFFICES ASSUME StoreInv, EnterEndpoint PROVE StoreInv'
  OBVIOUS
<1>1. /\ at.level = "endpoint" /\ at.ep \in {0, 1} /\ at.ep = job.ep /\ job # NoJob
      /\ at' = [at EXCEPT !.level = "cluster", !.c = EndpointAt(at.ep).first]
      /\ at \in Places
      /\ UNCHANGED <<owner, next, job, slot, lost, strange>>
  BY EndpointTable DEF EnterEndpoint, Walking, MoveTo, StoreInv, StoreTyped, Places
<1>2. /\ EndpointStart[1] = 0 /\ EndpointStart[2] = 152 /\ Areas[1] = 0 /\ Areas[16] = 152
  BY DEF EndpointStart, Areas
<1>3. at.offset = EndpointStart[at.ep + 1]
  BY <1>1 DEF StoreInv, OnItsWay
<1>4. /\ at'.level = "cluster" /\ at'.ep = at.ep /\ at'.offset = at.offset
      /\ at'.c = IF at.ep = 0 THEN 0 ELSE 15
      /\ at' \in Places
  <2>1. EndpointAt(at.ep).first = IF at.ep = 0 THEN 0 ELSE 15
    BY <1>1, EndpointTable
  <2>2. EndpointAt(at.ep).first \in 0..20
    BY <2>1
  <2>3. at' \in Places
    BY <1>1, <2>2, PlacesKept
  <2>4. /\ at'.level = "cluster" /\ at'.ep = at.ep /\ at'.offset = at.offset
        /\ at'.c = EndpointAt(at.ep).first
    BY <1>1 DEF Places
  <2> QED BY <2>1, <2>3, <2>4
<1>5. at'.c \in ClusterRange(at.ep) /\ at'.offset = Areas[at'.c + 1]
  BY <1>1, <1>2, <1>3, <1>4 DEF ClusterRange
<1>6. OnItsWay'
  BY <1>1, <1>4, <1>5 DEF OnItsWay
<1>7. \A c \in 0..19, a \in 0..200 : Aims(job, c, a) /\ Ahead(c, a) => Ahead(c, a)'
  BY <1>1, <1>4 DEF Ahead, Aims, IsTarget, ClusterRange
<1> QED BY <1>1, <1>4, <1>6, <1>7, MoveKeeps

(* A walk that is at a cluster.                                             *)
LEMMA InCluster ==
  ASSUME StoreInv, Walking("cluster"), at.c \in ClustersOf(at.ep)
  PROVE  /\ at \in Places /\ at.ep = job.ep /\ at.ep \in {0, 1}
         /\ at.c \in ClusterRange(at.ep) /\ at.c \in 0..19
         /\ at.offset = Areas[at.c + 1]
         /\ IsCluster(at.c) <=> IsTarget(job, at.c)
<1>1. /\ at \in Places /\ at.ep = job.ep /\ at.ep \in {0, 1} /\ at.offset = Areas[at.c + 1]
  BY DEF Walking, StoreInv, StoreTyped, OnItsWay, Places
<1>2. at.c \in ClusterRange(at.ep)
  BY <1>1, EndpointTable
<1>3. at.c \in 0..19
  BY <1>1, <1>2 DEF ClusterRange
<1>4. ClusterAt(at.c).id = Names[at.c + 1] /\ (ClusterAt(at.c).server <=> at.c # 3)
  BY <1>3, ClusterRows
<1>5. IsCluster(at.c) <=> IsTarget(job, at.c)
  BY <1>1, <1>2, <1>4 DEF IsCluster, IsTarget
<1> QED BY <1>1, <1>2, <1>3, <1>5

(* Passing a cluster adds clusterSize:                                      *)
LEMMA SkipClusterKeeps == StoreInv /\ SkipCluster => StoreInv'
<1> SUFFICES ASSUME StoreInv, SkipCluster PROVE StoreInv'
  OBVIOUS
<1>1. /\ at.level = "cluster"
      /\ at' = [at EXCEPT !.c = @ + 1, !.offset = @ + ClusterAt(at.c).size]
      /\ UNCHANGED <<owner, next, job, slot, lost, strange>>
  BY DEF SkipCluster, Walking, MoveTo
<1>2. /\ at \in Places /\ at.ep = job.ep /\ at.ep \in {0, 1} /\ at.c \in ClusterRange(at.ep)
      /\ at.c \in 0..19 /\ at.offset = Areas[at.c + 1] /\ ~IsTarget(job, at.c)
  BY InCluster DEF SkipCluster
<1>3. Areas[at.c + 2] = at.offset + ClusterAt(at.c).size /\ Areas[at.c + 2] \in Nat
  <2>1. at.c + 1 \in 0..20
    BY <1>2
  <2>2. Areas[(at.c + 1) + 1] \in Nat
    BY <2>1, AreasStart
  <2> QED BY <1>2, <2>2, ClusterSizes
<1>4. /\ at'.level = "cluster" /\ at'.ep = at.ep /\ at'.c = at.c + 1
      /\ at'.offset = Areas[at'.c + 1]
  BY <1>1, <1>2, <1>3 DEF Places
<1>5. at' \in Places
  <2>1. at.c + 1 \in 0..20 /\ at.offset + ClusterAt(at.c).size \in Nat
    BY <1>2, <1>3
  <2> QED BY <1>1, <1>2, <2>1, PlacesKept
<1>6. at'.c \in ClusterRange(at.ep) \cup {IF at.ep = 0 THEN 15 ELSE 20}
  BY <1>2, <1>4 DEF ClusterRange
<1>7. OnItsWay'
  BY <1>1, <1>2, <1>4, <1>6 DEF OnItsWay
<1>8. \A c \in 0..19, a \in 0..200 : Aims(job, c, a) /\ Ahead(c, a) => Ahead(c, a)'
  <2> TAKE c \in 0..19, a \in 0..200
  <2> HAVE Aims(job, c, a) /\ Ahead(c, a)
  <2>1. c # at.c
    BY <1>2 DEF Aims
  <2> QED BY <1>1, <1>2, <1>4, <2>1 DEF Ahead
<1> QED BY <1>1, <1>5, <1>7, <1>8, MoveKeeps

(* Entering the cluster of the job:                                         *)
LEMMA EnterClusterKeeps == StoreInv /\ EnterCluster => StoreInv'
<1> SUFFICES ASSUME StoreInv, EnterCluster PROVE StoreInv'
  OBVIOUS
<1>1. /\ at.level = "cluster"
      /\ at' = [at EXCEPT !.level = "attribute", !.a = ClusterAt(at.c).first]
      /\ UNCHANGED <<owner, next, job, slot, lost, strange>>
      /\ job # NoJob
  BY DEF EnterCluster, Walking, MoveTo
<1>2. /\ at \in Places /\ at.c \in 0..19 /\ at.offset = Areas[at.c + 1] /\ IsTarget(job, at.c)
  BY InCluster DEF EnterCluster
<1>3. /\ ClusterAt(at.c).first = Firsts[at.c + 1] /\ Areas[at.c + 1] = StartOf[Firsts[at.c + 1]]
      /\ Firsts[at.c + 1] \in 0..200 /\ Counts[at.c + 1] \in 0..65
  <2>1. ClusterAt(at.c).first = Firsts[at.c + 1]
    BY <1>2, ClusterRows, ZenonT(60)
  <2>2. /\ Areas[at.c + 1] = StartOf[Firsts[at.c + 1]]
        /\ Firsts[at.c + 1] \in 0..200 /\ Counts[at.c + 1] \in 0..65
    BY <1>2, AreasStart, ZenonT(60)
  <2> QED BY <2>1, <2>2
<1>4. /\ at'.level = "attribute" /\ at'.c = at.c /\ at'.a = Firsts[at.c + 1]
      /\ at'.offset = StartOf[at'.a]
  BY <1>1, <1>2, <1>3 DEF Places
<1>5. at' \in Places
  <2>1. ClusterAt(at.c).first \in 0..201
    BY <1>3
  <2> QED BY <1>1, <1>2, <2>1, PlacesKept
<1>6. at'.a \in AttributeRange(at.c) \cup {Firsts[at.c + 1] + Counts[at.c + 1]}
  <2>1. \A f \in 0..200, n \in 0..65 : f \in (f .. f + n - 1) \cup {f + n}
    OBVIOUS
  <2> QED BY <1>3, <1>4, <2>1 DEF AttributeRange
<1>7. OnItsWay'
  BY <1>1, <1>2, <1>4, <1>6 DEF OnItsWay
<1>8. \A c \in 0..19, a \in 0..200 : Aims(job, c, a) /\ Ahead(c, a) => Ahead(c, a)'
  <2> TAKE c \in 0..19, a \in 0..200
  <2> HAVE Aims(job, c, a) /\ Ahead(c, a)
  <2>1. c = at.c
    BY <1>2, OneTarget DEF Aims
  <2>2. Firsts[at.c + 1] <= a
    BY <1>3, <2>1 DEF Aims, AttributeRange
  <2> QED BY <1>4, <2>2 DEF Ahead
<1> QED BY <1>1, <1>5, <1>7, <1>8, MoveKeeps

(* A walk that is at an attribute has the first byte of that attribute, and *)
(* the bytes it would touch are those of that attribute.                    *)
LEMMA AtAttribute ==
  ASSUME StoreInv, Walking("attribute"), at.a \in AttributesOf(at.c)
  PROVE  /\ at \in Places /\ at.c \in 0..19 /\ at.c # 3 /\ IsTarget(job, at.c)
         /\ at.a \in AttributeRange(at.c) /\ at.a \in 0..200 /\ at.offset = StartOf[at.a]
         /\ Here.id = IdOf[at.a] /\ Here.blob = BlobOf[at.a]
         /\ Here.stored <=> SizeOf[at.a] # 0
         /\ Here.stored => Here.size = SizeOf[at.a] /\ Bytes = BytesOf(at.a)
         /\ job.kind \in {"read", "write"} /\ job.id \in Nat
<1>1. /\ at \in Places /\ IsTarget(job, at.c) /\ at.offset = StartOf[at.a]
      /\ job.kind \in {"read", "write"} /\ job.id \in Nat
  BY DEF Walking, StoreInv, StoreTyped, OnItsWay, Places, Asked
<1>2. at.c \in 0..19 /\ at.c # 3
  BY <1>1 DEF IsTarget, ClusterRange
<1>3. at.a \in AttributeRange(at.c) /\ at.a \in 0..200
  BY <1>2, AttributeRanges
<1>4. /\ Here.id = IdOf[at.a] /\ Here.blob = BlobOf[at.a]
      /\ Here.stored <=> SizeOf[at.a] # 0
      /\ Here.stored => Here.size = SizeOf[at.a]
  BY <1>3, AttributeRows DEF Here, HasShape, Shape
<1>5. Here.stored => Bytes = BytesOf(at.a)
  BY <1>1, <1>4 DEF Bytes, BytesOf
<1> QED BY <1>1, <1>2, <1>3, <1>4, <1>5

(* Passing an attribute adds its size if it is stored:                      *)
LEMMA SkipAttributeKeeps == StoreInv /\ SkipAttribute => StoreInv'
<1> SUFFICES ASSUME StoreInv, SkipAttribute PROVE StoreInv'
  OBVIOUS
<1>1. /\ at.level = "attribute" /\ Here.id # job.id
      /\ at' = [at EXCEPT !.a = @ + 1, !.offset = @ + IF Here.stored THEN Here.size ELSE 0]
      /\ UNCHANGED <<owner, next, job, slot, lost, strange>>
  BY DEF SkipAttribute, Walking, MoveTo
<1>2. /\ at \in Places /\ at.c \in 0..19 /\ IsTarget(job, at.c)
      /\ at.a \in AttributeRange(at.c) /\ at.a \in 0..200 /\ at.offset = StartOf[at.a]
      /\ Here.id = IdOf[at.a]
      /\ (IF Here.stored THEN Here.size ELSE 0) = SizeOf[at.a]
  BY AtAttribute, ColumnsTyped DEF SkipAttribute
<1>3. /\ at.a + 1 \in 0..201 /\ StartOf[at.a + 1] = at.offset + SizeOf[at.a]
      /\ StartOf[at.a + 1] \in Nat
  <2>1. at.a + 1 \in 0..201
    BY <1>2
  <2> QED BY <1>2, <2>1, StartsAddUp, StartsInStore
<1>4. at' = [at EXCEPT !.a = at.a + 1, !.offset = StartOf[at.a + 1]]
  BY <1>1, <1>2, <1>3, Zenon
<1>5. at' \in Places
  BY <1>2, <1>3, <1>4, PlacesKept
<1>6. /\ at'.level = "attribute" /\ at'.c = at.c /\ at'.a = at.a + 1
      /\ at'.offset = StartOf[at'.a]
  BY <1>1, <1>2, <1>4 DEF Places
<1>7. at'.a \in AttributeRange(at.c) \cup {Firsts[at.c + 1] + Counts[at.c + 1]}
  <2>1. \A f \in 0..200, n \in 0..65 :
          \A a \in f .. f + n - 1 : a + 1 \in (f .. f + n - 1) \cup {f + n}
    OBVIOUS
  <2>2. Firsts[at.c + 1] \in 0..200 /\ Counts[at.c + 1] \in 0..65
    BY <1>2, AreasStart, ZenonT(60)
  <2>3. at.a \in Firsts[at.c + 1] .. Firsts[at.c + 1] + Counts[at.c + 1] - 1
    BY <1>2 DEF AttributeRange
  <2>4. at.a + 1 \in (Firsts[at.c + 1] .. Firsts[at.c + 1] + Counts[at.c + 1] - 1)
                     \cup {Firsts[at.c + 1] + Counts[at.c + 1]}
    BY <2>1, <2>2, <2>3, Zenon
  <2> QED BY <1>6, <2>4, Zenon DEF AttributeRange
<1>8. OnItsWay'
  BY <1>1, <1>2, <1>6, <1>7 DEF OnItsWay
<1>9. \A c \in 0..19, a \in 0..200 : Aims(job, c, a) /\ Ahead(c, a) => Ahead(c, a)'
  <2> TAKE c \in 0..19, a \in 0..200
  <2> HAVE Aims(job, c, a) /\ Ahead(c, a)
  <2>1. a # at.a
    BY <1>1, <1>2 DEF Aims
  <2>2. at.a <= a /\ at.a \in Int /\ a \in Int
    BY <1>1, <1>2 DEF Ahead
  <2>3. at'.level = "attribute" /\ at'.a <= a
    BY <1>6, <2>1, <2>2
  <2> QED BY <2>3 DEF Ahead
<1> QED BY <1>1, <1>5, <1>8, <1>9, MoveKeeps

(* A write takes the bytes of its own attribute from nobody:                *)
LEMMA WriteKeeps == StoreInv /\ Write => StoreInv'
<1> SUFFICES ASSUME StoreInv, Write PROVE StoreInv'
  OBVIOUS
<1> DEFINE b == at.a
<1>1. /\ Walking("attribute") /\ b \in AttributesOf(at.c) /\ Here.id = job.id /\ Here.stored
      /\ job.kind = "write" /\ job' = NoJob /\ at' = WalkStart /\ next' = next
      /\ strange' = {}
  BY DEF Write, Found, StoreInv
<1>2. /\ at.c \in 0..19 /\ at.c # 3 /\ IsTarget(job, at.c) /\ b \in AttributeRange(at.c)
      /\ b \in 0..200 /\ IdOf[b] = job.id /\ job.id \in Nat /\ SizeOf[b] # 0
      /\ Here.size = SizeOf[b] /\ Here.blob = BlobOf[b] /\ Bytes = BytesOf(b)
  BY <1>1, AtAttribute
<1>3. \A c \in 0..19, a \in 0..200 : Aims(job, c, a) => c = at.c /\ a = b
  BY <1>2, OneAim
<1>4. Suits(job, b)
  BY <1>1, <1>3, ZenonT(60) DEF StoreInv, Arrives
<1>5. lost' = {}
  BY <1>2, <1>4 DEF Write, Suits, StoreInv
<1>6. /\ DOMAIN owner = 0..313 /\ BytesOf(b) \subseteq 0..313
  BY <1>2, BytesInStore DEF StoreInv, StoreTyped
<1>7. owner' = [x \in DOMAIN owner \cup BytesOf(b) |->
                  IF x \in BytesOf(b) THEN b + 1 ELSE owner[x]]
  BY <1>2, Zenon DEF Write
<1>8. OwnersTyped'
  <2>1. DOMAIN owner \cup BytesOf(b) = 0..313
    BY <1>6
  <2>2. b + 1 \in 0..201
    BY <1>2
  <2>3. \A x \in 0..313 : owner[x] \in 0..201
    BY DEF StoreInv, OwnersTyped
  <2>4. owner' = [x \in 0..313 |-> IF x \in BytesOf(b) THEN b + 1 ELSE owner[x]]
    BY <1>7, <2>1, Zenon
  <2>5. \A x \in 0..313 : (IF x \in BytesOf(b) THEN b + 1 ELSE owner[x]) \in 0..201
    BY <2>2, <2>3, Zenon
  <2> QED BY <2>4, <2>5, Zenon DEF OwnersTyped
<1>9. slot' \in 0..18
  BY <1>2, SlotsFit DEF Write, StoreInv, StoreTyped
<1>10. \A a \in 0..200 : a < next /\ SizeOf[a] # 0 => Owned(a)'
  <2> TAKE a \in 0..200
  <2> HAVE a < next /\ SizeOf[a] # 0
  <2>1. BytesOf(a) \subseteq 0..313
    BY BytesInStore
  <2>2. CASE a = b
    <3>1. \A x \in BytesOf(b) : owner'[x] = b + 1
      BY <1>7
    <3> QED BY <2>2, <3>1 DEF Owned
  <2>3. CASE a # b
    <3>1. Owned(a)
      BY <1>3, <2>3 DEF StoreInv, Filled
    <3>2. \A x \in BytesOf(a) : x \notin BytesOf(b) /\ x \in DOMAIN owner
      BY <1>2, <1>6, <2>1, <2>3, BytesApart
    <3>3. \A x \in BytesOf(a) : owner'[x] = owner[x]
      BY <1>7, <3>2
    <3> QED BY <3>1, <3>3 DEF Owned
  <2> QED BY <2>2, <2>3
<1> QED BY <1>1, <1>5, <1>8, <1>9, <1>10, FinishKeeps

(* Unless a write is under way, every loaded attribute owns its bytes.      *)
LEMMA ReadsFindOwn ==
  ASSUME StoreInv, job.kind # "write"
  PROVE  \A a \in 0..200 : a < next /\ SizeOf[a] # 0 => Owned(a)
BY DEF StoreInv, Filled

(* A read sees bytes of its own attribute only:                             *)
LEMMA ReadBytesKeeps == StoreInv /\ ReadBytes => StoreInv'
<1> SUFFICES ASSUME StoreInv, ReadBytes PROVE StoreInv'
  OBVIOUS
<1>1. /\ Walking("attribute") /\ at.a \in AttributesOf(at.c) /\ Here.stored
      /\ job.kind = "read" /\ job' = NoJob /\ at' = WalkStart
      /\ UNCHANGED <<owner, next, slot, lost>>
  BY DEF ReadBytes, Found
<1>2. at.a \in 0..200 /\ SizeOf[at.a] # 0 /\ Bytes = BytesOf(at.a)
  BY <1>1, AtAttribute
<1>3. next = 201 /\ DOMAIN owner = 0..313 /\ slot \in 0..18 /\ lost = {} /\ strange = {}
  BY <1>1 DEF StoreInv, StoreTyped
<1>4. \A a \in 0..200 : a < next /\ SizeOf[a] # 0 => Owned(a)
  BY <1>1, ReadsFindOwn
<1>5. \A b \in Bytes : b \in DOMAIN owner /\ owner[b] = at.a + 1
  <2>1. Owned(at.a)
    BY <1>2, <1>3, <1>4
  <2>2. BytesOf(at.a) \subseteq 0..313
    BY <1>2, BytesInStore
  <2> QED BY <1>2, <1>3, <2>1, <2>2 DEF Owned
<1>6. strange' = {}
  BY <1>3, <1>5, Zenon DEF ReadBytes
<1>7. \A a \in 0..200 : a < next /\ SizeOf[a] # 0 => Owned(a)'
  BY <1>1, <1>4 DEF Owned
<1>8. OwnersTyped'
  BY <1>1 DEF StoreInv, OwnersTyped
<1> QED BY <1>1, <1>3, <1>6, <1>7, <1>8, FinishKeeps

(* No walk of a write ends without its attribute ...                        *)
LEMMA WritesAreNotRefused == StoreInv /\ Refuse => job.kind # "write"
<1> SUFFICES ASSUME StoreInv, Refuse, job.kind = "write" PROVE FALSE
  OBVIOUS
<1>1. PICK c \in 0..19, a \in 0..200 : Aims(job, c, a) /\ Ahead(c, a)
  BY DEF StoreInv, Arrives
<1>2. /\ job.ep \in {0, 1} /\ c \in ClusterRange(job.ep) /\ IsTarget(job, c)
      /\ a \in AttributeRange(c) /\ IdOf[a] = job.id /\ SizeOf[a] # 0
  BY <1>1 DEF Aims, IsTarget
<1>3. at \in Places /\ job # NoJob
  BY DEF StoreInv, StoreTyped, Places, Refuse, Walking
<1>4. CASE Walking("endpoint") /\ at.ep \notin Endpoints
  BY <1>1, <1>2, <1>3, <1>4, EndpointTable DEF Walking, Ahead, Places
<1>5. CASE Walking("cluster") /\ at.c \notin ClustersOf(at.ep)
  <2>1. /\ at.c <= c /\ job.ep = at.ep /\ at.ep \in {0, 1}
        /\ at.c \in ClusterRange(at.ep) \cup {IF at.ep = 0 THEN 15 ELSE 20}
    BY <1>1, <1>3, <1>5 DEF Walking, Ahead, StoreInv, OnItsWay
  <2>2. at.c \notin ClusterRange(at.ep)
    BY <1>5, <2>1, EndpointTable
  <2> QED BY <1>2, <2>1, <2>2 DEF ClusterRange
<1>6. CASE Walking("attribute") /\ at.a \notin AttributesOf(at.c)
  <2>1. /\ at.a <= a /\ IsTarget(job, at.c)
        /\ at.a \in AttributeRange(at.c) \cup {Firsts[at.c + 1] + Counts[at.c + 1]}
    BY <1>1, <1>3, <1>6 DEF Walking, Ahead, StoreInv, OnItsWay
  <2>2. at.c \in 0..19
    BY <2>1 DEF IsTarget, ClusterRange
  <2>3. at.a = Firsts[at.c + 1] + Counts[at.c + 1]
    BY <1>6, <2>1, <2>2, AttributeRanges
  <2>4. c = at.c
    BY <1>2, <2>1, <2>2, OneTarget
  <2>5. \A f \in 0..200, n \in 0..65 : \A x \in f .. f + n - 1 : ~(f + n <= x)
    OBVIOUS
  <2> QED BY <1>2, <2>1, <2>2, <2>3, <2>4, <2>5, AreasStart DEF AttributeRange
<1>7. CASE Walking("attribute") /\ at.a \in AttributesOf(at.c) /\ Here.id = job.id /\ ~Here.stored
  <2>1. /\ at.c \in 0..19 /\ IsTarget(job, at.c) /\ at.a \in AttributeRange(at.c)
        /\ IdOf[at.a] = job.id /\ job.id \in Nat /\ SizeOf[at.a] = 0
    BY <1>7, AtAttribute, ColumnsTyped
  <2>2. a = at.a
    BY <1>1, <2>1, OneAim
  <2> QED BY <1>2, <2>1, <2>2
<1> QED BY <1>4, <1>5, <1>6, <1>7 DEF Refuse

(* ... so what is refused are reads:                                        *)
LEMMA RefuseKeeps == StoreInv /\ Refuse => StoreInv'
<1> SUFFICES ASSUME StoreInv, Refuse PROVE StoreInv'
  OBVIOUS
<1>1. job.kind # "write"
  BY WritesAreNotRefused
<1>2. /\ lost' = {} /\ strange' = {} /\ job' = NoJob /\ at' = WalkStart
      /\ UNCHANGED <<owner, next, slot>> /\ OwnersTyped' /\ slot \in 0..18
  BY <1>1 DEF Refuse, StoreInv, StoreTyped, OwnersTyped
<1>3. \A a \in 0..200 : a < next /\ SizeOf[a] # 0 => Owned(a)'
  BY <1>1, <1>2, ReadsFindOwn DEF Owned
<1> QED BY <1>2, <1>3, FinishKeeps

(* Reporting a change of a cluster stays among the data versions:           *)
LEMMA ReportChangeKeeps == StoreInv /\ ReportChange => StoreInv'
<1> SUFFICES ASSUME StoreInv, ReportChange PROVE StoreInv'
  OBVIOUS
<1>1. PICK c \in 0..19 : ClusterAt(c).server /\ slot' = DataVersionSlot(c)
  BY ClustersAre DEF ReportChange
<1>2. slot' \in 0..18
  BY <1>1, ClusterRows, SlotsFit
<1>3. UNCHANGED <<owner, next, job, at, lost, strange>>
  BY DEF ReportChange
<1>4. StoreTyped'
  BY <1>2, <1>3 DEF StoreInv, StoreTyped
<1>5. OnItsWay'
  BY <1>3 DEF StoreInv, OnItsWay
<1>6. Arrives'
  BY <1>3, ZenonT(60) DEF StoreInv, Arrives, Ahead
<1>7. Filled'
  BY <1>3 DEF StoreInv, Filled, Owned
<1>8. OwnersTyped'
  BY <1>3 DEF StoreInv, OwnersTyped
<1> QED BY <1>3, <1>4, <1>5, <1>6, <1>7, <1>8 DEF StoreInv

-----------------------------------------------------------------------------
(* The properties of the store.                                             *)

(* So every step keeps the invariant ...                                    *)
LEMMA StoreStep == StoreInv /\ [StoreNext]_storeVars => StoreInv'
<1> SUFFICES ASSUME StoreInv, [StoreNext]_storeVars PROVE StoreInv'
  OBVIOUS
<1>1. CASE UNCHANGED storeVars
  <2>1. UNCHANGED <<owner, next, job, at, slot, lost, strange>>
    BY <1>1 DEF storeVars
  <2>2. StoreTyped'
    BY <2>1 DEF StoreInv, StoreTyped
  <2>3. OnItsWay'
    BY <2>1 DEF StoreInv, OnItsWay
  <2>4. Arrives'
    BY <2>1, ZenonT(60) DEF StoreInv, Arrives, Ahead
  <2>5. Filled'
    BY <2>1 DEF StoreInv, Filled, Owned
  <2>6. OwnersTyped'
    BY <2>1 DEF StoreInv, OwnersTyped
  <2> QED BY <2>1, <2>2, <2>3, <2>4, <2>5, <2>6 DEF StoreInv
<1>2. CASE LoadDefault \/ PassExternal \/ Publish \/ Read
  BY <1>2, LoadDefaultKeeps, PassExternalKeeps, RequestsKeep
<1>3. CASE SkipEndpoint \/ EnterEndpoint \/ SkipCluster \/ EnterCluster \/ SkipAttribute
  BY <1>3, SkipEndpointKeeps, EnterEndpointKeeps, SkipClusterKeeps, EnterClusterKeeps,
     SkipAttributeKeeps
<1>4. CASE Write \/ ReadBytes \/ Refuse \/ ReportChange
  BY <1>4, WriteKeeps, ReadBytesKeeps, RefuseKeeps, ReportChangeKeeps
<1> QED BY <1>1, <1>2, <1>3, <1>4 DEF StoreNext

(* ... which holds before the defaults are loaded ...                       *)
LEMMA StoreStart == StoreInit => StoreInv
<1> SUFFICES ASSUME StoreInit PROVE StoreInv
  OBVIOUS
<1>1. /\ next = 0 /\ job = NoJob /\ job.kind = "none" /\ at = WalkStart /\ slot = 0
      /\ lost = {} /\ strange = {} /\ DOMAIN owner = 0..313
  BY DEF StoreInit, NoJob, Job, AttributeMaxSize
<1>2. at \in Places
  BY <1>1 DEF WalkStart, Places
<1>3. StoreTyped
  BY <1>1, <1>2 DEF StoreTyped, Places
<1>4. OnItsWay /\ Arrives /\ Filled
  BY <1>1 DEF OnItsWay, Arrives, Filled
<1>5. OwnersTyped
  BY DEF StoreInit, OwnersTyped, AttributeMaxSize
<1> QED BY <1>1, <1>3, <1>4, <1>5 DEF StoreInv

(* ... and therefore always.                                                *)
THEOREM StoreInvHolds == StoreSpec => []StoreInv
BY StoreStart, StoreStep, PTL DEF StoreSpec

(* For every set of reads, a client gets the bytes of the attribute it asks *)
(* for, after any number of writes to others (ReadsOwnBytes).               *)
THEOREM ReadsReturnOwnBytes == StoreSpec => []ReadsOwnBytes
<1>1. StoreInv => ReadsOwnBytes
  BY DEF StoreInv, ReadsOwnBytes
<1> QED BY <1>1, StoreInvHolds, PTL

(* Everything the application sets and every default arrives, and whole     *)
(* (NothingLost).                                                           *)
THEOREM NothingIsLost == StoreSpec => []NothingLost
<1>1. StoreInv => NothingLost
  BY DEF StoreInv, NothingLost
<1> QED BY <1>1, StoreInvHolds, PTL

(* For every set of reads, the generated counts fit the tables: no write    *)
(* leaves the store, no change the data versions, and the attributes fill   *)
(* the store (StoreFits).                                                   *)
THEOREM StoreNeverOverrun == StoreSpec => []StoreFits
<1>1. ASSUME StoreInv PROVE StoreFits
  <2>1. DOMAIN owner = 0..313 /\ slot \in 0..18
    BY <1>1 DEF StoreInv, StoreTyped
  <2>2. ASSUME Loaded, job = NoJob, NEW b \in DOMAIN owner PROVE owner[b] # 0
    <3>1. PICK a \in 0..200 : SizeOf[a] # 0 /\ b \in BytesOf(a)
      BY <2>1, <2>2, EveryByteOwned
    <3>2. next = 201 /\ job.kind # "write"
      BY <2>2, LoadedIs DEF NoJob, Job
    <3>3. Owned(a)
      BY <1>1, <3>1, <3>2, ReadsFindOwn
    <3> QED BY <3>1, <3>3 DEF Owned
  <2> QED BY <2>1, <2>2 DEF StoreFits, AttributeMaxSize, DataVersionCount
<1> QED BY <1>1, StoreInvHolds, PTL

(* The variables of the store keep their types.                             *)
THEOREM StoreTypeCorrect == StoreSpec => []StoreTypeOK
<1>1. ASSUME StoreInv PROVE StoreTypeOK
  <2>1. /\ next \in 0..201 /\ slot \in Nat /\ at \in Places
        /\ job.kind \in {"none", "read", "write"}
    BY <1>1 DEF StoreInv, StoreTyped, NoJob, Job, Asked
  <2>2. owner \in [DOMAIN owner -> 0..201]
    BY <1>1 DEF StoreInv, OwnersTyped
  <2>3. at.level \in {"endpoint", "cluster", "attribute"} /\ at.offset \in Nat
    BY <2>1 DEF Places
  <2> QED BY <2>1, <2>2, <2>3, AttributesAre DEF StoreTypeOK
<1> QED BY <1>1, StoreInvHolds, PTL

=============================================================================
