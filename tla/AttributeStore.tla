--------------------------- MODULE AttributeStore ---------------------------
(***************************************************************************)
(* The RAM the Matter SDK keeps attributes in: one array of                *)
(* ATTRIBUTE_MAX_SIZE bytes with no directory.  Every access walks the     *)
(* tables of DataModel and adds up what it passes: the size of an endpoint *)
(* it skips, the clusterSize of a cluster it skips, the size of a stored   *)
(* attribute it skips.  The three kinds of sizes are separate numbers of   *)
(* the generated tables, so an attribute keeps to its own bytes only while *)
(* they agree.  The Matter thread loads the defaults of all attributes,    *)
(* then serves what the application publishes and what clients read.       *)
(***************************************************************************)
EXTENDS DataModel, FiniteSets

CONSTANT Reads \* the [ep, cluster, id] that clients ask for

ASSUME ReadsAssumption == Reads \subseteq [ep : Nat, cluster : STRING, id : Nat]

VARIABLES
  owner,   \* per byte of the store: the attribute (position + 1) last written there, or 0
  next,    \* the next attribute to load a default for
  job,     \* the access under way
  at,      \* how far its walk has come
  slot,    \* the data version last incremented
  lost,    \* what was written and did not arrive, or not whole
  strange  \* attributes whose read returned bytes of another one

storeVars == <<owner, next, job, at, slot, lost, strange>>

Job(kind, ep, cluster, id, bytes) ==
  [kind |-> kind, ep |-> ep, cluster |-> cluster, id |-> id, bytes |-> bytes]
NoJob == Job("none", 0, "none", NoId, 0)

\* In the loop over endpoints; inside one, over clusters; inside one, over attributes.
WalkStart == [level |-> "endpoint", ep |-> 0, c |-> 0, a |-> 0, offset |-> 0]

-----------------------------------------------------------------------------
(* What the application writes: attribute and bytes, for a string with its  *)
(* length byte.                                                             *)

WakeHint == {Job("write", 0, "IcdManagement", 6, 4)}
\* Mutant: an instruction longer than the attribute.
LongInstruction == {Job("write", 0, "IcdManagement", 7, 140)}
WakeInstruction == {Job("write", 0, "IcdManagement", 7, 27)}

SensorRange == {Job("write", 1, "TemperatureMeasurement", id, 2) : id \in 1..2}

\* Mutant: the humidity is published at the root endpoint.
MeasuredAtRoot == {Job("write", 1, "TemperatureMeasurement", 0, 2),
                   Job("write", 0, "RelativeHumidityMeasurement", 0, 2)}
Measured == {Job("write", 1, "TemperatureMeasurement", 0, 2),
             Job("write", 1, "RelativeHumidityMeasurement", 0, 2)}

\* Status, BatChargeLevel, BatReplaceability, BatPresent; BatPercentRemaining; BatVoltage.
Battery == {Job("write", 1, "PowerSource", id, 1) : id \in {0, 14, 16, 17}}
           \cup {Job("write", 1, "PowerSource", 12, 1), Job("write", 1, "PowerSource", 11, 4)}

Published == WakeHint \cup WakeInstruction \cup SensorRange \cup Measured \cup Battery

-----------------------------------------------------------------------------
StoreInit ==
  /\ owner = [b \in 0 .. AttributeMaxSize - 1 |-> 0]
  /\ next = 0
  /\ job = NoJob /\ at = WalkStart
  /\ slot = 0
  /\ lost = {} /\ strange = {}

Begin(j) ==
  /\ job = NoJob
  /\ job' = j /\ at' = WalkStart
  /\ UNCHANGED <<owner, slot, lost, strange>>

ClusterWith(i) == CHOOSE c \in 0 .. Len(Clusters) - 1 : i \in AttributesOf(c)
EndpointWith(c) == CHOOSE e \in Endpoints : c \in ClustersOf(e)
Loaded == next = Len(Attributes)

\* The default of the next stored attribute: a value of its size or a string.
LoadDefault ==
  LET c == ClusterWith(next)
      a == AttributeAt(next)
  IN  /\ ~Loaded /\ a.stored
      /\ Begin(Job("write", EndpointWith(c), ClusterAt(c).id, a.id,
                   IF a.blob = NoBlob THEN a.size ELSE DefaultLength[a.blob] + 1))
      /\ next' = next + 1

PassExternal ==
  /\ ~Loaded /\ ~AttributeAt(next).stored
  /\ job = NoJob
  /\ next' = next + 1
  /\ UNCHANGED <<owner, job, at, slot, lost, strange>>

Publish == Loaded /\ (\E p \in Published : Begin(p)) /\ UNCHANGED next

Read ==
  /\ Loaded
  /\ \E r \in Reads : Begin(Job("read", r.ep, r.cluster, r.id, 0))
  /\ UNCHANGED next

-----------------------------------------------------------------------------
(* emAfReadOrWriteAttribute.                                                *)

Walking(level) == job # NoJob /\ at.level = level
MoveTo(to) == at' = to /\ UNCHANGED <<owner, next, job, slot, lost, strange>>

SkipEndpoint ==
  /\ Walking("endpoint") /\ at.ep \in Endpoints /\ at.ep # job.ep
  /\ MoveTo([at EXCEPT !.ep = @ + 1, !.offset = @ + EndpointAt(at.ep).size])

EnterEndpoint ==
  /\ Walking("endpoint") /\ at.ep = job.ep
  /\ at.ep \in Endpoints
  /\ MoveTo([at EXCEPT !.level = "cluster", !.c = EndpointAt(at.ep).first])

IsCluster(c) == ClusterAt(c).server /\ ClusterAt(c).id = job.cluster

SkipCluster ==
  /\ Walking("cluster") /\ at.c \in ClustersOf(at.ep)
  /\ ~IsCluster(at.c)
  /\ MoveTo([at EXCEPT !.c = @ + 1, !.offset = @ + ClusterAt(at.c).size])

EnterCluster ==
  /\ Walking("cluster") /\ at.c \in ClustersOf(at.ep)
  /\ IsCluster(at.c)
  /\ MoveTo([at EXCEPT !.level = "attribute", !.a = ClusterAt(at.c).first])

Here == AttributeAt(at.a)

SkipAttribute ==
  /\ Walking("attribute") /\ at.a \in AttributesOf(at.c)
  /\ Here.id # job.id
  /\ MoveTo([at EXCEPT !.a = @ + 1, !.offset = @ + IF Here.stored THEN Here.size ELSE 0])

Bytes == at.offset .. at.offset + Here.size - 1

Found ==
  /\ Walking("attribute") /\ at.a \in AttributesOf(at.c)
  /\ Here.id = job.id /\ Here.stored

\* The position of a cluster's data version: server clusters before it.
DataVersionSlot(c) == Cardinality({d \in 0 .. c - 1 : ClusterAt(d).server})

\* A string that does not fit is refused or cut; a scalar fills its attribute.
Write ==
  /\ Found /\ job.kind = "write"
  /\ owner' = [b \in DOMAIN owner \cup Bytes |->
                 IF b \in Bytes THEN at.a + 1 ELSE owner[b]]
  /\ lost' = IF (IF Here.blob = NoBlob THEN job.bytes = Here.size ELSE job.bytes <= Here.size)
             THEN lost ELSE lost \cup {job}
  /\ slot' = IF Loaded THEN DataVersionSlot(at.c) ELSE slot
  /\ job' = NoJob /\ at' = WalkStart
  /\ UNCHANGED <<next, strange>>

ReadBytes ==
  /\ Found /\ job.kind = "read"
  /\ strange' = IF \A b \in Bytes : b \in DOMAIN owner /\ owner[b] = at.a + 1
                THEN strange ELSE strange \cup {at.a}
  /\ job' = NoJob /\ at' = WalkStart
  /\ UNCHANGED <<owner, next, slot, lost>>

\* Unsupported endpoint, cluster or attribute, or one that is not in the store.
Refuse ==
  /\ \/ Walking("endpoint") /\ at.ep \notin Endpoints
     \/ Walking("cluster") /\ at.c \notin ClustersOf(at.ep)
     \/ Walking("attribute") /\ at.a \notin AttributesOf(at.c)
     \/ Walking("attribute") /\ at.a \in AttributesOf(at.c) /\ Here.id = job.id /\ ~Here.stored
  /\ lost' = IF job.kind = "write" THEN lost \cup {job} ELSE lost
  /\ job' = NoJob /\ at' = WalkStart
  /\ UNCHANGED <<owner, next, slot, strange>>

\* The server of a cluster reports a change of an attribute it keeps itself.
ReportChange ==
  /\ Loaded /\ job = NoJob
  /\ \E c \in 0 .. Len(Clusters) - 1 :
       /\ ClusterAt(c).server
       /\ slot' = DataVersionSlot(c)
  /\ UNCHANGED <<owner, next, job, at, lost, strange>>

StoreNext ==
  \/ LoadDefault \/ PassExternal \/ Publish \/ Read
  \/ SkipEndpoint \/ EnterEndpoint \/ SkipCluster \/ EnterCluster \/ SkipAttribute
  \/ Write \/ ReadBytes \/ Refuse \/ ReportChange

StoreSpec == StoreInit /\ [][StoreNext]_storeVars
-----------------------------------------------------------------------------
StoreTypeOK ==
  /\ owner \in [DOMAIN owner -> 0 .. Len(Attributes)]
  /\ next \in 0 .. Len(Attributes)
  /\ job.kind \in {"none", "read", "write"}
  /\ at.level \in {"endpoint", "cluster", "attribute"}
  /\ at.offset \in Nat
  /\ slot \in Nat

(* A client that reads an attribute gets the bytes of that attribute, after *)
(* any number of writes to others: no two attributes share a byte, however  *)
(* the walks that reach them add up their offsets.                          *)
ReadsOwnBytes == strange = {}

(* The generated counts fit the tables.  No walk writes past the store of   *)
(* ATTRIBUTE_MAX_SIZE bytes, no change of a cluster past the data versions  *)
(* of ZAP_FIXED_ENDPOINT_DATA_VERSION_COUNT, and once the defaults are      *)
(* loaded every byte belongs to some attribute: the sizes of attributes,    *)
(* clusters and endpoints add up to the same number.                        *)
StoreFits ==
  /\ DOMAIN owner = 0 .. AttributeMaxSize - 1
  /\ slot < DataVersionCount
  /\ Loaded /\ job = NoJob => \A b \in DOMAIN owner : owner[b] # 0

(* Every attribute that Init, StartApp and UpdateMatterAttributes set is in *)
(* the store of the endpoint they name with the width they write, and every *)
(* default is as long as its attribute can hold: no write is refused or cut *)
(* (most of these calls ignore the status they get).                        *)
NothingLost == lost = {}

=============================================================================
