------------------------------- MODULE Config -------------------------------
(***************************************************************************)
(* What may be asked for, and by whom: the configuration file of the       *)
(* command line and the assignment of the SMF, how each is validated, and  *)
(* what becomes of either in the scheduler's policy entry.  A field YAML   *)
(* or JSON leaves out, or a text no code accepts, is None.                 *)
(***************************************************************************)
EXTENDS Selection, Sequences

CONSTANTS
    IfNames,    \* interface names strings.TrimSpace does not change
    LinkNames,  \* interface names the protocol accepts: at most 15 bytes without
                \* space, "/", tab, CR or LF; an em space at the end passes
    Addresses,  \* unicast addresses without a zone
    Names,      \* ids and DNNs of the protocol
    None

ASSUME ConfigConstants ==
    /\ Word \in Nat /\ Word > 255
    /\ None \notin U32 /\ None \notin BOOLEAN
    /\ None \notin IfNames \cup LinkNames \cup Addresses \cup Names

Modes    == {"load-balance", "lowest-rtt"}
Endpoint == [localId : U32 \cup {None}, remoteId : U32 \cup {None}]

Leg ==
    [ifname : IfNames \cup LinkNames \cup {None}, weight : U32 \cup {None},
     endpoints : Seq(Endpoint)]

Connection == [token : U32 \cup {None}, netnsInode : Nat]

Config ==
    [enabled : BOOLEAN \cup {None}, generation : U32, mode : Modes \cup {None},
     rttDeltaUs : U32, legs : [Legs -> Leg], connection : Connection \cup {None}]
-----------------------------------------------------------------------------
(* Config.Validate and Prepare *)

AddU32(x, y) == (x + y) % Word

ValidLeg(leg) ==
    /\ leg.ifname \in IfNames
    /\ leg.weight # None /\ leg.weight <= 100

\* The endpoints of both legs, A's first.
Listed(c) == c.legs[0].endpoints \o c.legs[1].endpoints

ValidEndpoints(c) ==
    /\ \A n \in DOMAIN Listed(c) :
          /\ Listed(c)[n].localId # None /\ Listed(c)[n].remoteId # None
          /\ Listed(c)[n].localId <= 255 /\ Listed(c)[n].remoteId <= 255
    /\ \A m, n \in DOMAIN Listed(c) : m # n => Listed(c)[m] # Listed(c)[n]

\* Slip: the weights need not add up.
ValidateLegs(c) ==
    /\ c.enabled # None /\ c.generation # 0 /\ c.mode \in Modes
    /\ \A l \in Legs : ValidLeg(c.legs[l])

Validate(c) ==
    /\ c.enabled # None
    /\ c.generation # 0
    /\ c.mode \in Modes
    /\ \A l \in Legs : ValidLeg(c.legs[l])
    /\ c.legs[0].ifname # c.legs[1].ifname
    /\ AddU32(c.legs[0].weight, c.legs[1].weight) = 100
    /\ c.connection # None => c.connection.token # None
    /\ ValidEndpoints(c)

\* Prepare: `index' is what the resolver answers, 0 if it fails.
Prepares(c, index) ==
    Validate(c) /\ \A l \in Legs : index[c.legs[l].ifname] > 0

\* ConnectionKey, in the network namespace `inode'.
HasKey(c, inode) ==
    /\ c.connection # None
    /\ c.connection.token # None
    /\ c.connection.netnsInode \in {0, inode}

\* apply reaches the maps: DesiredPaths wants an endpoint on each leg.
Applies(c, index, inode) ==
    /\ HasKey(c, inode)
    /\ Prepares(c, index)
    /\ \A l \in Legs : c.legs[l].endpoints # <<>>

EndpointsOf(c, l) == {c.legs[l].endpoints[n] : n \in DOMAIN c.legs[l].endpoints}

\* DesiredPaths: leg B's loop comes second.
DesiredPaths(c) ==
    [e \in EndpointsOf(c, 0) \cup EndpointsOf(c, 1) |->
        [generation |-> c.generation, access |-> IF e \in EndpointsOf(c, 1) THEN 1 ELSE 0]]

\* Plan.MapPolicy.
MapPolicy(c) ==
    [generation |-> c.generation,
     enabled |-> IF c.enabled THEN 1 ELSE 0,
     mode |-> IF c.mode = "lowest-rtt" THEN DS_MODE_RTT ELSE DS_MODE_WRR,
     weight |-> [l \in Legs |-> c.legs[l].weight],
     rtt_delta_us |-> c.rttDeltaUs]
-----------------------------------------------------------------------------
(* The protocol: policies of the PCF, contexts of the SMF's clients, and   *)
(* assignments, which are both together with a generation                  *)

Policy ==
    [enabled : BOOLEAN, mode : Modes \cup {None}, weight : [Legs -> U32],
     rttDeltaUs : U32]

LinkLeg == [ifname : LinkNames \cup {None}, address : Addresses \cup {None}]

Context ==
    [id : Names \cup {None}, dnn : Names \cup {None}, legs : [Legs -> LinkLeg],
     destination : Addresses \cup {None}, port : Nat]

Assignment == [spec : Context, policy : Policy, generation : U32]

ValidPolicy(p) ==
    /\ p.mode \in Modes
    /\ \A l \in Legs : p.weight[l] <= 100
    /\ AddU32(p.weight[0], p.weight[1]) = 100

ValidContext(s) ==
    /\ s.id # None /\ s.dnn # None
    /\ \A l \in Legs : s.legs[l].ifname # None /\ s.legs[l].address # None
    /\ s.legs[0].address # s.legs[1].address
    /\ s.legs[0].ifname # s.legs[1].ifname
    /\ s.destination # None
    /\ s.port # 0

ValidAssignment(a) ==
    ValidContext(a.spec) /\ ValidPolicy(a.policy) /\ a.generation # 0

\* Daemon.plan: the assignment as a configuration, with the endpoints that
\* were observed on each leg.
PlanConfig(a, endpoints) ==
    [enabled |-> a.policy.enabled, generation |-> a.generation,
     mode |-> a.policy.mode, rttDeltaUs |-> a.policy.rttDeltaUs,
     legs |-> [l \in Legs |->
                 [ifname |-> a.spec.legs[l].ifname, weight |-> a.policy.weight[l],
                  endpoints |-> endpoints[l]]],
     connection |-> None]
=============================================================================
