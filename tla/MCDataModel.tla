----------------------------- MODULE MCDataModel ----------------------------
(* What clients meet on the Matter thread: the dispatch of commands, the    *)
(* store of attributes, and the battery attributes as the voltage drifts.   *)
(* The three share tables and no state, so one run takes each in turn:      *)
(* part says which of them moves.                                           *)
(*                                                                          *)
(* Requests: every cluster of the tables and an unknown one, at both        *)
(* endpoints and a missing one, with every command id in use and every      *)
(* privilege; commands that do not decode, and handlers that decline.       *)
(* Reads: every stored attribute and, at every level of the walk, one that  *)
(* is not there.  Voltages: every sum of samples the ADC can deliver.       *)
EXTENDS CommandDispatch, AttributeStore, BatteryGauge

VARIABLE part

StoredAttributes == {i \in 0 .. Len(Attributes) - 1 : AttributeAt(i).stored}
Path(ep, cluster, id) == [ep |-> ep, cluster |-> cluster, id |-> id]

MCReads ==
  {Path(EndpointWith(ClusterWith(i)), ClusterAt(ClusterWith(i)).id, AttributeAt(i).id) :
     i \in StoredAttributes}
  \cup {Path(2, "Descriptor", 0), Path(0, "PowerSource", 11), Path(0, "OtaSoftwareUpdateProvider", 0),
        Path(1, "PowerSource", 5), Path(1, "Identify", 0)}

MCRequests ==
  [kind : {"invoke"}, ep : 0..2, cluster : EmberInitCases \cup {"Unknown"}, id : 0..14,
   privilege : Privileges, decodes : BOOLEAN, accepts : BOOLEAN]
  \cup
  [kind : {"read", "write", "event"}, ep : 0..1, cluster : EmberInitCases, id : 0..7,
   privilege : Privileges, decodes : {TRUE}, accepts : {TRUE}]

MCInit ==
  /\ part \in {"commands", "store", "gauge"}
  /\ Init
  /\ StoreInit
  /\ GaugeInit
  /\ part # "gauge" => rawSum = 0

MCNext ==
  /\ UNCHANGED part
  /\ \/ part = "commands" /\ Next /\ UNCHANGED <<storeVars, gaugeVars>>
     \/ part = "store" /\ StoreNext /\ UNCHANGED <<vars, gaugeVars>>
     \/ part = "gauge" /\ GaugeNext /\ UNCHANGED <<vars, storeVars>>

MCSpec == MCInit /\ [][MCNext]_<<part, vars, storeVars, gaugeVars>>

=============================================================================
