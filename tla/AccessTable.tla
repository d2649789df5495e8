---------------------------- MODULE AccessTable ----------------------------
(***************************************************************************)
(* src/default_zap/zap-generated/access.h: the privileges that reading or  *)
(* writing an attribute, invoking a command or reading an event takes.     *)
(* Each kind is three parallel arrays, so the rows exist only by position. *)
(* What has no row takes the privilege the SDK gives by default.           *)
(***************************************************************************)
EXTENDS DataModel

View == 1
Operate == 2
Manage == 3
Administer == 4
Privileges == View .. Administer

ReadCluster == Repeat("AccessControl", 2) \o Repeat("NetworkCommissioning", 5)
               \o <<"OperationalCredentials">> \o Repeat("IcdManagement", 2)
ReadAttribute == <<0, 1>> \o <<0, 1, 5, 6, 7>> \o <<0>> \o <<3, 4>>
ReadPrivilege == Repeat(Administer, 10)

WriteCluster == Repeat("AccessControl", 2) \o Repeat("BasicInformation", 2)
                \o <<"OtaSoftwareUpdateRequestor", "GeneralCommissioning",
                     "NetworkCommissioning", "GroupKeyManagement">>
\* Mutant: without the row of Extension.
WriteAttributeShifted == <<0>> \o <<5, 6>> \o <<0, 0, 4, 0, 0>>
WriteAttribute == <<0, 1>> \o <<5, 6>> \o <<0, 0, 4, 0>>
WritePrivilege == Repeat(Administer, 2) \o <<Manage, Administer>>
                  \o Repeat(Administer, 3) \o <<Manage>>

InvokeCluster ==
  <<"Identify">> \o Repeat("GeneralCommissioning", 3) \o Repeat("NetworkCommissioning", 5)
  \o <<"GeneralDiagnostics", "ThreadNetworkDiagnostics">>
  \o Repeat("AdministratorCommissioning", 3) \o Repeat("OperationalCredentials", 10)
  \o Repeat("GroupKeyManagement", 4) \o Repeat("IcdManagement", 2)
\* Mutant: a second command of General Diagnostics in this array alone.
InvokeCommandShifted ==
  <<0>> \o <<0, 2, 4>> \o <<0, 3, 4, 6, 8>> \o <<0, 1, 0>> \o <<0, 1, 2>>
  \o <<0, 2, 4, 6, 7, 9, 10, 11, 12, 13>> \o <<0, 1, 3, 4>> \o <<0>>
InvokeCommand ==
  <<0>> \o <<0, 2, 4>> \o <<0, 3, 4, 6, 8>> \o <<0, 0>> \o <<0, 1, 2>>
  \o <<0, 2, 4, 6, 7, 9, 10, 11, 12, 13>> \o <<0, 1, 3, 4>> \o <<0, 2>>
InvokePrivilege ==
  <<Manage>> \o Repeat(Administer, 8) \o Repeat(Manage, 2) \o Repeat(Administer, 17)
  \o Repeat(Manage, 2)

EventCluster == Repeat("AccessControl", 3)
EventId == <<0, 1, 2>>
EventPrivilege == Repeat(Administer, 3)

\* The privilege of the first row for this cluster and id.
Lookup(cluster, id, clusters, ids, privileges, default) ==
  LET rows == {r \in 1 .. Len(clusters) : clusters[r] = cluster /\ ids[r] = id}
  IN  IF rows = {} THEN default
      ELSE privileges[CHOOSE r \in rows : \A q \in rows : r <= q]

RequiredPrivilege(kind, cluster, id) ==
  CASE kind = "read"   -> Lookup(cluster, id, ReadCluster, ReadAttribute, ReadPrivilege, View)
    [] kind = "write"  -> Lookup(cluster, id, WriteCluster, WriteAttribute, WritePrivilege, Operate)
    [] kind = "invoke" -> Lookup(cluster, id, InvokeCluster, InvokeCommand, InvokePrivilege, Operate)
    [] kind = "event"  -> Lookup(cluster, id, EventCluster, EventId, EventPrivilege, View)

=============================================================================
