----------------------------- MODULE Scheduler ------------------------------
(***************************************************************************)
(* dualsteer.bpf.c: ds_schedule, ds_record, ds_init and ds_release.  The   *)
(* kernel calls them for several MPTCP sockets; the lock of a socket keeps *)
(* the calls of that socket apart, and nothing else.  The maps are read    *)
(* one lookup at a time while the agent changes them one call at a time,   *)
(* so a call is a sequence of steps: it begins with the key, the storage   *)
(* and the policy, looks at one subflow per step, and decides.             *)
(*                                                                         *)
(* `did' and `heldFor' are history.  Definitions marked "slip" are         *)
(* mistakes the properties must notice; nothing uses them.                 *)
(***************************************************************************)
EXTENDS Selection

CONSTANTS
    Sockets,     \* MPTCP sockets
    Tokens,      \* connection tokens; 0 is "not set or cleared"
    Subflows,    \* number of subflows of a socket
    Pairs,       \* endpoint pairs (local id, remote id)
    PairOf,      \* the pair of the subflow at a position
    RttValues,   \* smoothed RTTs, 0 if there is no sample
    BackupFlags, \* values of a subflow's backup flag
    Policies,    \* values the agent may write to the policy map
    Paths,       \* values the agent may write to the path map
    None         \* the absent map entry, socket, storage or call

Keys      == Tokens \cup {0}
Positions == 0 .. Subflows - 1
ds_path   == [generation : U32, access : U32]
ds_stats  == [generation : U32, mode : U32, counted : Legs \cup {DS_NONE}]

\* struct ds_socket_state: the selection state and the key of the statistics.
Storage   == [selection : ds_state, stats_key : Keys \cup {None}]

ASSUME SchedulerConstants ==
    /\ Word \in Nat /\ Word > 100
    /\ 0 \notin Tokens /\ Subflows \in Nat
    /\ PairOf \in [Positions -> Pairs]
    /\ RttValues \subseteq U32 /\ BackupFlags \subseteq BOOLEAN
    /\ Policies \subseteq ds_policy /\ Paths \subseteq ds_path
    /\ None \notin Keys /\ None \notin Policies /\ None \notin Paths
    /\ None \notin Storage

VARIABLES
    ds_policy_map,  \* by key; None is no entry
    ds_path_map,    \* by key and pair
    ds_stats_map,   \* by key; which counter was incremented last
    ds_state_map,   \* socket storage: selection state and stats_key
    token,          \* the socket's token; None if there is no such socket
    call,           \* the running ds_schedule of a socket, or None
    did,            \* history: the last decision of a socket, None for the default
    heldFor         \* history: the key for which a selection state was built

vars == <<ds_policy_map, ds_path_map, ds_stats_map, ds_state_map, token, call,
          did, heldFor>>
agentMaps == <<ds_policy_map, ds_path_map>>
history   == <<did, heldFor>>

NoCandidates == [l \in Legs |-> [position |-> DS_NONE, rtt_us |-> 0]]
NewStorage   == [selection |-> ZeroState, stats_key |-> None]

\* The zeroed `policy' of a call that finds no entry.
NoPolicy == [generation |-> 0, enabled |-> 0, mode |-> 0,
             weight |-> [l \in Legs |-> 0], rtt_delta_us |-> 0]

Init ==
    /\ ds_policy_map = [k \in Keys |-> None]
    /\ ds_path_map   = [k \in Keys |-> [p \in Pairs |-> None]]
    /\ ds_stats_map  = [k \in Keys |-> None]
    /\ ds_state_map  = [s \in Sockets |-> None]
    /\ token         = [s \in Sockets |-> None]
    /\ call          = [s \in Sockets |-> None]
    /\ did           = [s \in Sockets |-> None]
    /\ heldFor       = [s \in Sockets |-> None]
-----------------------------------------------------------------------------
(* The agent: any single map call *)

WritePolicy(k, v) ==
    /\ ds_policy_map' = [ds_policy_map EXCEPT ![k] = v]
    /\ UNCHANGED <<ds_path_map, ds_stats_map, ds_state_map, token, call, history>>

WritePath(k, p, v) ==
    /\ ds_path_map' = [ds_path_map EXCEPT ![k][p] = v]
    /\ UNCHANGED <<ds_policy_map, ds_stats_map, ds_state_map, token, call, history>>
-----------------------------------------------------------------------------
(* The socket's life *)

\* A token belongs to one socket at a time; it is set by the handshake and
\* may be cleared before the scheduler is released.
FreeFor(s, k) == k = 0 \/ \A r \in Sockets \ {s} : token[r] # k

\* ds_init: the storage is created, if there is memory.
ds_init(s) ==
    /\ token[s] = None
    /\ token' = [token EXCEPT ![s] = 0]
    /\ \E created \in {NewStorage, None} :
          ds_state_map' = [ds_state_map EXCEPT ![s] = created]
    /\ UNCHANGED <<agentMaps, ds_stats_map, call, history>>

SetToken(s, k) ==
    /\ token[s] \notin {None, k} /\ call[s] = None
    /\ FreeFor(s, k)
    /\ token' = [token EXCEPT ![s] = k]
    /\ UNCHANGED <<agentMaps, ds_stats_map, ds_state_map, call, history>>

\* Slip: the present token is used, which may be cleared.
ReleasedByToken(s) == [ds_stats_map EXCEPT ![token[s]] = None]

\* The statistics without the entry that the socket has kept.
ReleasedStats(s) ==
    IF ds_state_map[s] # None /\ ds_state_map[s].stats_key # None
    THEN [ds_stats_map EXCEPT ![ds_state_map[s].stats_key] = None]
    ELSE ds_stats_map

ds_release(s) ==
    /\ token[s] # None /\ call[s] = None
    /\ ds_stats_map' = ReleasedStats(s)
    /\ ds_state_map' = [ds_state_map EXCEPT ![s] = None]
    /\ token'   = [token EXCEPT ![s] = None]
    /\ did'     = [did EXCEPT ![s] = None]
    /\ heldFor' = [heldFor EXCEPT ![s] = None]
    /\ UNCHANGED <<agentMaps, call>>
-----------------------------------------------------------------------------
(* ds_schedule *)

\* ds_record: the entry is created on first use; if that fails (the map is
\* full) only telemetry is lost.
ds_record(stats, k, p, leg) ==
    {[stats EXCEPT ![k] = [generation |-> p.generation, mode |-> p.mode,
                           counted |-> leg]]} \cup
    (IF stats[k] = None THEN {stats} ELSE {})

Rekeyed(st, k) == st.stats_key \notin {None, k}

\* Slip: the selection state survives a change of the key.
EnterKeeping(st, k) == [st EXCEPT !.stats_key = k]

\* The storage at the start of a call: a changed key ends its history.
Enter(st, k) ==
    IF Rekeyed(st, k)
    THEN [st EXCEPT !.stats_key = k, !.selection.generation = 0]
    ELSE [st EXCEPT !.stats_key = k]

EnterStats(st, k) ==
    IF Rekeyed(st, k) THEN [ds_stats_map EXCEPT ![st.stats_key] = None]
    ELSE ds_stats_map

\* What bpf_sk_storage_get with F_CREATE may return.
StorageOf(s) ==
    IF ds_state_map[s] # None THEN {ds_state_map[s]} ELSE {NewStorage, None}

NewCall(k, p) ==
    [key |-> k, policy |-> p, next |-> 0, active |-> FALSE,
     candidates |-> NoCandidates, backups |-> NoCandidates,
     read |-> [i \in Positions |-> None], backup |-> {}]

\* Without a policy that steers, or for a reinjection, the kernel decides.
FallsBack(p, reinject) ==
    p = None \/ reinject \/ ~ds_policy_valid(p) \/ p.enabled = 0

OrZero(p) == IF p = None THEN NoPolicy ELSE p

BeginSchedule(s, reinject) ==
    /\ token[s] # None /\ call[s] = None
    /\ LET k == token[s]
           p == ds_policy_map[k]
       IN \E st \in StorageOf(s) :
             IF st = None
             THEN UNCHANGED <<ds_stats_map, ds_state_map, call>>
             ELSE /\ ds_state_map' = [ds_state_map EXCEPT ![s] = Enter(st, k)]
                  /\ IF FallsBack(p, reinject)
                     THEN /\ ds_stats_map' \in
                                ds_record(EnterStats(st, k), k, OrZero(p), DS_NONE)
                          /\ UNCHANGED call
                     ELSE /\ ds_stats_map' = EnterStats(st, k)
                          /\ call' = [call EXCEPT ![s] = NewCall(k, p)]
    /\ did' = [did EXCEPT ![s] = None]
    /\ UNCHANGED <<agentMaps, token, heldFor>>

\* What one look at a subflow finds.
SubflowStatus ==
    [active : BOOLEAN, backup : BackupFlags, room : BOOLEAN, rtt : RttValues]

\* Slip: the generation of the path is not compared.
AnyGeneration(p, path, rtt) ==
    path # None /\ path.access \in Legs /\ (p.mode = DS_MODE_RTT => rtt # 0)

\* The path entry classifies the subflow under this policy.
Classifies(p, path, rtt) ==
    /\ path # None
    /\ path.generation = p.generation
    /\ path.access \in Legs
    /\ p.mode = DS_MODE_RTT => rtt # 0

Offered(cands, i, path, rtt) ==
    [cands EXCEPT ![path.access] = ds_offer(@, i, rtt)]

\* The call after looking at the subflow at position c.next.
Looked(c, f) ==
    LET i    == c.next
        path == ds_path_map[c.key][PairOf[i]]
        c1   == [c EXCEPT !.next = i + 1, !.active = @ \/ (f.active /\ ~f.backup)]
        c2   == [c1 EXCEPT !.read[i] = path,
                           !.backup = IF f.backup THEN @ \cup {i} ELSE @]
    IN IF ~f.active \/ ~f.room THEN c1
       ELSE IF ~Classifies(c.policy, path, f.rtt) THEN c2
       ELSE IF f.backup
            THEN [c2 EXCEPT !.backups = Offered(@, i, path, f.rtt)]
            ELSE [c2 EXCEPT !.candidates = Offered(@, i, path, f.rtt)]

Look(s) ==
    /\ call[s] # None /\ call[s].next < Subflows
    /\ \E f \in SubflowStatus : call' = [call EXCEPT ![s] = Looked(@, f)]
    /\ UNCHANGED <<agentMaps, ds_stats_map, ds_state_map, token, history>>

\* Slip: backups join whenever no other candidate was found.
BackupsIfNone(c) == IF c.candidates = NoCandidates THEN c.backups ELSE c.candidates

FinalCandidates(c) == IF c.active THEN c.candidates ELSE c.backups

\* ds_select and its result.  The chosen subflow was looked at under the same
\* socket lock, so the lookup by its position finds it again.
Decide(s) ==
    /\ call[s] # None /\ call[s].next = Subflows
    /\ LET c     == call[s]
           cands == FinalCandidates(c)
           r     == ds_select(c.policy, ds_state_map[s].selection, cands)
           pos   == IF r.pick = DS_NONE THEN DS_NONE ELSE cands[r.pick].position
           leg   == IF pos = DS_NONE THEN DS_NONE ELSE r.state.previous_access
       IN /\ ds_state_map' = [ds_state_map EXCEPT ![s].selection = r.state]
          /\ ds_stats_map' \in ds_record(ds_stats_map, c.key, c.policy, leg)
          /\ did' = [did EXCEPT ![s] =
                IF pos = DS_NONE THEN None
                ELSE [leg |-> leg, generation |-> c.policy.generation,
                      path |-> c.read[pos], backup |-> pos \in c.backup,
                      active |-> c.active]]
          /\ heldFor' = [heldFor EXCEPT ![s] = c.key]
    /\ call' = [call EXCEPT ![s] = None]
    /\ UNCHANGED <<agentMaps, token>>
-----------------------------------------------------------------------------
Next ==
    \/ \E k \in Tokens, v \in Policies \cup {None} : WritePolicy(k, v)
    \/ \E k \in Tokens, p \in Pairs, v \in Paths \cup {None} : WritePath(k, p, v)
    \/ \E s \in Sockets : ds_init(s) \/ ds_release(s)
    \/ \E s \in Sockets, k \in Keys : SetToken(s, k)
    \/ \E s \in Sockets, reinject \in BOOLEAN : BeginSchedule(s, reinject)
    \/ \E s \in Sockets : Look(s) \/ Decide(s)

Spec == Init /\ [][Next]_vars
-----------------------------------------------------------------------------
(* Properties *)

\* The maps, the storage and the tokens have their types.
TypeOK ==
    /\ ds_policy_map \in [Keys -> Policies \cup {None}]
    /\ ds_path_map   \in [Keys -> [Pairs -> Paths \cup {None}]]
    /\ ds_stats_map  \in [Keys -> ds_stats \cup {None}]
    /\ ds_state_map  \in [Sockets -> Storage \cup {None}]
    /\ token         \in [Sockets -> Keys \cup {None}]

(***************************************************************************)
(* Every statistics entry belongs to the storage of a socket that still    *)
(* exists, which will delete it: entries do not fill the map although the  *)
(* token may be cleared, set anew or reused before the release.            *)
(***************************************************************************)
StatsHaveAnOwner ==
    \A k \in Keys : ds_stats_map[k] # None =>
        \E s \in Sockets : ds_state_map[s] # None /\ ds_state_map[s].stats_key = k

(***************************************************************************)
(* A call that will not reset the selection state finds one that was built *)
(* under its own key: credits and the previous leg of one connection never *)
(* influence another, whatever the token was in between.                   *)
(***************************************************************************)
HistoryIsOfThisKey ==
    \A s \in Sockets : call[s] # None =>
        LET sel == ds_state_map[s].selection
        IN Fresh(call[s].policy, sel) = sel => heldFor[s] = call[s].key

(***************************************************************************)
(* A subflow is scheduled only if the path entry read for it during the    *)
(* call was of the generation of the policy read at its start, and the     *)
(* decision is counted for the leg that entry names: two generations never *)
(* mix in a decision, however the agent's writes fall between the lookups. *)
(***************************************************************************)
SteersByOneGeneration ==
    \A s \in Sockets : did[s] # None =>
        did[s].path = [generation |-> did[s].generation, access |-> did[s].leg]

\* A backup subflow is scheduled only if the call saw no active subflow that
\* is not a backup, classified or not.
BackupsAreLast ==
    \A s \in Sockets : did[s] # None => ~(did[s].backup /\ did[s].active)
=============================================================================
