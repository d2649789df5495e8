-------------------------- MODULE CommandDispatch --------------------------
(***************************************************************************)
(* From a request of a client to its one answer, on the Matter thread.     *)
(*                                                                         *)
(* Before serving, the SDK calls emberAfClusterInitCallback and            *)
(* MatterClusterServerInitCallback for every cluster of the tables; the    *)
(* second registers the clusters that are implemented in code.  A command  *)
(* goes to a registered cluster, or to the handler of Network              *)
(* Commissioning, or else to DispatchSingleClusterCommand.  So the lists   *)
(* of accepted commands, three switches, the counts of gen_config.h and    *)
(* the rows of access.h must agree on every command.                       *)
(***************************************************************************)
EXTENDS AccessTable, FiniteSets

CONSTANT Requests \* what clients may send, and whether a callback accepts it

ASSUME RequestsAssumption ==
  Requests \subseteq [kind : {"read", "write", "invoke", "event"}, ep : Nat,
                      cluster : STRING, id : Nat, privilege : Privileges,
                      decodes : BOOLEAN, accepts : BOOLEAN]

VARIABLES
  life,       \* "down", "starting", "serving" or "stopping"
  pos,        \* the next cluster of the tables to start or to stop
  called,     \* <<ep, cluster>> whose emberAf*ClusterInitCallback was called
  plugins,    \* clusters whose Matter*PluginServerInitCallback was called
  registered, \* <<ep, cluster>> whose code is registered with the SDK
  req,        \* the request under way
  stage,      \* "idle", "exists", "access", "dispatch" or "done"
  answers,    \* what the request has been answered, in order
  ran         \* its handler was called

servers == <<life, pos, called, plugins, registered>>
request == <<req, stage, answers, ran>>
vars == <<servers, request>>

NoRequest == [kind |-> "none"]

EndpointOf(c) == CHOOSE e \in Endpoints : c \in ClustersOf(e)
Instance(c) == <<EndpointOf(c), ClusterAt(c).id>>

-----------------------------------------------------------------------------
(* Starting and stopping the servers of the clusters.                       *)

\* The cases of emberAfClusterInitCallback; the weak callbacks do nothing.
EmberInitCases ==
  {"AccessControl", "AdministratorCommissioning", "BasicInformation", "Descriptor",
   "DiagnosticLogs", "GeneralCommissioning", "GeneralDiagnostics", "GroupKeyManagement",
   "IcdManagement", "Identify", "NetworkCommissioning", "OtaSoftwareUpdateProvider",
   "OtaSoftwareUpdateRequestor", "OperationalCredentials", "PowerSource",
   "RelativeHumidityMeasurement", "SoftwareDiagnostics", "TemperatureMeasurement",
   "ThreadNetworkDiagnostics"}

\* The cases of MatterClusterServerInitCallback.
InitCases ==
  {"Identify", "Descriptor", "AccessControl", "BasicInformation", "GeneralCommissioning",
   "DiagnosticLogs", "GeneralDiagnostics", "SoftwareDiagnostics",
   "AdministratorCommissioning", "OperationalCredentials", "GroupKeyManagement"}

\* Mutant: a case missing of the second switch.
ShutdownCasesButOne == InitCases \ {"Descriptor"}
\* The cases of MatterClusterServerShutdownCallback.
ShutdownCases ==
  {"Identify", "Descriptor", "AccessControl", "BasicInformation", "GeneralCommissioning",
   "DiagnosticLogs", "GeneralDiagnostics", "SoftwareDiagnostics",
   "AdministratorCommissioning", "OperationalCredentials", "GroupKeyManagement"}

Init ==
  /\ life = "down" /\ pos = 0
  /\ called = {} /\ plugins = {} /\ registered = {}
  /\ req = NoRequest /\ stage = "idle" /\ answers = <<>> /\ ran = FALSE

Start ==
  /\ life = "down"
  /\ life' = "starting" /\ pos' = 0
  /\ called' = {} /\ plugins' = {}
  /\ UNCHANGED <<registered, request>>

EmberInit(c) ==
  called' = IF ClusterAt(c).id \in EmberInitCases THEN called \cup {Instance(c)} ELSE called

\* A cluster in code has as many slots as gen_config.h counts endpoints.
HasSlot(id) == Cardinality({i \in registered : i[2] = id}) < ServerEndpointCount(id)

ServerInit(c) ==
  registered' = IF /\ ClusterAt(c).server /\ ClusterAt(c).id \in InitCases
                   /\ HasSlot(ClusterAt(c).id)
                THEN registered \cup {Instance(c)} ELSE registered

InitCluster ==
  /\ life = "starting" /\ pos < Len(Clusters)
  /\ EmberInit(pos) /\ ServerInit(pos)
  /\ pos' = pos + 1
  /\ UNCHANGED <<life, plugins, request>>

PluginsInit ==
  /\ life = "starting" /\ plugins = {}
  /\ plugins' = PluginServers
  /\ UNCHANGED <<life, pos, called, registered, request>>

Serve ==
  /\ life = "starting" /\ pos = Len(Clusters) /\ plugins # {}
  /\ life' = "serving"
  /\ UNCHANGED <<pos, called, plugins, registered, request>>

Stop ==
  /\ life = "serving" /\ stage = "idle"
  /\ life' = "stopping" /\ pos' = 0
  /\ UNCHANGED <<called, plugins, registered, request>>

ServerShutdown(c) ==
  registered' = IF ClusterAt(c).server /\ ClusterAt(c).id \in ShutdownCases
                THEN registered \ {Instance(c)} ELSE registered

ShutdownCluster ==
  /\ life = "stopping" /\ pos < Len(Clusters)
  /\ ServerShutdown(pos)
  /\ pos' = pos + 1
  /\ UNCHANGED <<life, called, plugins, request>>

Down ==
  /\ life = "stopping" /\ pos = Len(Clusters)
  /\ life' = "down"
  /\ UNCHANGED <<pos, called, plugins, registered, request>>

-----------------------------------------------------------------------------
(* A request.                                                               *)

Receive ==
  /\ life = "serving" /\ stage = "idle"
  /\ req' \in Requests
  /\ stage' = "exists" /\ answers' = <<>> /\ ran' = FALSE
  /\ UNCHANGED servers

Answer(status) ==
  /\ answers' = Append(answers, status)
  /\ stage' = "done"
  /\ UNCHANGED <<servers, req>>

Advance(to) == stage' = to /\ UNCHANGED <<servers, req, answers, ran>>

ServersAt(ep, id) ==
  {c \in UNION {ClustersOf(e) : e \in Endpoints \cap {ep}} :
     ClusterAt(c).server /\ ClusterAt(c).id = id}

\* The tables list the command, or an attribute that can be written.
Listed(r) ==
  \E c \in ServersAt(r.ep, r.cluster) :
    CASE r.kind = "invoke" -> r.id \in CommandList(ClusterAt(c).accepted)
      [] r.kind = "write" -> \E i \in AttributesOf(c) :
                               AttributeAt(i).id = r.id /\ AttributeAt(i).writable
      [] OTHER -> TRUE

CheckExists ==
  /\ stage = "exists"
  /\ IF Listed(req) THEN Advance("access") ELSE Answer("Unsupported") /\ UNCHANGED ran

CheckAccess ==
  /\ stage = "access"
  /\ IF req.privilege >= RequiredPrivilege(req.kind, req.cluster, req.id)
     THEN Advance("dispatch") ELSE Answer("UnsupportedAccess") /\ UNCHANGED ran

\* Reads and writes are answered by the attribute store or by a cluster's own code.
ServeAttribute ==
  /\ stage = "dispatch" /\ req.kind # "invoke"
  /\ Answer("done") /\ ran' = TRUE

\* Code registered with the SDK decodes and answers by itself.
HasHandler(ep, id) == <<ep, id>> \in registered \/ id = "NetworkCommissioning"

InvokeHandler ==
  /\ stage = "dispatch" /\ req.kind = "invoke" /\ HasHandler(req.ep, req.cluster)
  /\ Answer(IF req.decodes THEN "done" ELSE "InvalidCommand")
  /\ ran' = req.decodes

IcdRegisterClient == 0
IcdUnregisterClient == 2
IcdStayActiveRequest == 3

\* DispatchServerCommand of a cluster: the status it returns.
ServerCommandStatus(commands) ==
  IF req.id \notin commands THEN "UnsupportedCommand"
  ELSE IF ~req.decodes \/ ~req.accepts THEN "InvalidCommand" ELSE "Success"

\* Mutant: written before the cluster got StayActiveRequest.
OldIcdCommands == {IcdRegisterClient, IcdUnregisterClient}
IcdCommands == {IcdRegisterClient, IcdUnregisterClient, IcdStayActiveRequest}
TndCommands == {0} \* ResetCounts

Dispatched(id) ==
  CASE id = "IcdManagement" -> IcdCommands
    [] id = "ThreadNetworkDiagnostics" -> TndCommands
    [] OTHER -> {}

ErrorStatus ==
  IF req.cluster \in {"IcdManagement", "ThreadNetworkDiagnostics"}
  THEN ServerCommandStatus(Dispatched(req.cluster)) ELSE "UnsupportedCluster"

\* Mutant: the status is added whatever it is.
AddAnyStatus == <<ErrorStatus>>
AddStatus == IF ErrorStatus # "Success" THEN <<ErrorStatus>> ELSE <<>>

\* An emberAf*Callback that returns true has answered by itself.
DispatchSingleClusterCommand ==
  /\ stage = "dispatch" /\ req.kind = "invoke" /\ ~HasHandler(req.ep, req.cluster)
  /\ ran' = (req.id \in Dispatched(req.cluster) /\ req.decodes)
  /\ answers' = answers \o (IF ran' /\ req.accepts THEN <<"done">> ELSE <<>>) \o AddStatus
  /\ stage' = "done"
  /\ UNCHANGED <<servers, req>>

Finish ==
  /\ stage = "done"
  /\ req' = NoRequest /\ stage' = "idle" /\ answers' = <<>> /\ ran' = FALSE
  /\ UNCHANGED servers

Next ==
  \/ Start \/ InitCluster \/ PluginsInit \/ Serve \/ Stop \/ ShutdownCluster \/ Down
  \/ Receive \/ CheckExists \/ CheckAccess
  \/ ServeAttribute \/ InvokeHandler \/ DispatchSingleClusterCommand \/ Finish

Spec == Init /\ [][Next]_vars
-----------------------------------------------------------------------------
Instances(Which(_)) ==
  {Instance(c) : c \in {c \in 0 .. Len(Clusters) - 1 : Which(ClusterAt(c))}}
CodeDriven == Instances(LAMBDA k : k.server /\ k.id \in InitCases)
AllInstances == Instances(LAMBDA k : TRUE)

TypeOK ==
  /\ life \in {"down", "starting", "serving", "stopping"}
  /\ pos \in 0 .. Len(Clusters)
  /\ called \subseteq AllInstances /\ registered \subseteq AllInstances
  /\ plugins \subseteq OneServer \cup {"Descriptor"}
  /\ req \in Requests \cup {NoRequest}
  /\ stage \in {"idle", "exists", "access", "dispatch", "done"}
  /\ answers \in Seq({"done", "Unsupported", "UnsupportedAccess", "UnsupportedCommand",
                       "UnsupportedCluster", "InvalidCommand"})
  /\ ran \in BOOLEAN

(* A node that serves has every cluster of its tables running, in whichever *)
(* way the two switches and the counts of gen_config.h provide, after any   *)
(* number of restarts; a node that is down has none left.                   *)
ServersPaired ==
  /\ life = "serving" => /\ registered = CodeDriven
                         /\ called = AllInstances
                         /\ \A i \in AllInstances : i[2] \in plugins \/ i[2] = "OtaSoftwareUpdateProvider"
  /\ life = "down" => registered = {}

(* A request ends with exactly one answer: neither with none, as when a     *)
(* dispatcher takes it for handled, nor with a status added to the response *)
(* of a handler.                                                            *)
AnsweredOnce == stage = "done" => Len(answers) = 1

(* A command the node lists as accepted reaches a handler when it may and   *)
(* decodes: the lists of endpoint_config.h and the two ways of dispatching  *)
(* agree on every command.                                                  *)
AdvertisedIsHandled ==
  (stage = "done" /\ req.kind = "invoke" /\ Listed(req) /\ req.decodes
     /\ req.privilege = Administer) => ran

\* The clusters that decide who is on which fabric.
FabricClusters == {"GeneralCommissioning", "NetworkCommissioning", "AdministratorCommissioning",
                   "OperationalCredentials", "GroupKeyManagement"}

(* Only an administrator runs a command of the clusters that commission the *)
(* node or reads and writes its access control list, and nobody below       *)
(* Manage writes a setting of the root endpoint: every such command and     *)
(* attribute of the tables has its row, and the three arrays are aligned.   *)
CommissioningGuarded ==
  (stage = "done" /\ ran) =>
    /\ req.kind = "invoke" /\ req.cluster \in FabricClusters => req.privilege = Administer
    /\ req.cluster = "AccessControl" /\ req.kind \in {"read", "write"} /\ req.id \in {0, 1}
         => req.privilege = Administer
    /\ req.kind = "write" /\ req.ep = 0 => req.privilege >= Manage

=============================================================================
