# A TLA+ model of dual-steer

dual-steer steers MPTCP traffic over two accesses ("legs" A and B). An SMF
assigns contexts with a steering policy, an agent on the host binds them to the
MPTCP connections it observes and writes BPF maps, and a BPF scheduler reads
these maps for every scheduling decision. This directory models the parts of
the system that keep state and decide, checks them with TLC on small instances
and proves the main results with TLAPS for every instance.

## 1. Inventory

| Component | State | Operations | Talks to |
|---|---|---|---|
| Daemon, `dualsteer-agent/daemon.go` | desired contexts, observed connections, `fatal` | `Put`, `Delete`, `Observe`, `Retry`, `Fail`, `Cleanup`, `Status` | called by HTTP handlers, PM worker and ticker, all under `d.mu`; writes the maps |
| Live map transactions, `live.go`, `maps.go`, `kernel_linux.go` | policy map, path map (pinned, survive the process) | `ApplyLive`, `DeleteLive`, incremental update in `applyConnection` | kernel; several map calls per operation, each may fail |
| Serve lifecycle, `serve.go` | phase of the process, requests in flight | start under the writer lock, loop, shutdown, cleanup | daemon, PM subscription, HTTP server |
| Command line, `cli.go` | none | `apply`, `delete` under the same lock | maps |
| PM subscription, `pm_linux.go` | a netlink socket | decode and deliver events, end on any error | kernel to daemon |
| Selection, `include/dualsteer_select.h` | `ds_state` per socket: generation, mode, credits, mask, previous leg | `ds_offer`, `ds_select` | called by the scheduler |
| Scheduler, `bpf/dualsteer.bpf.c` | socket storage, statistics | `ds_schedule`, `ds_record`, `ds_init`, `ds_release` | reads the maps while the agent writes them |
| SMF and PCF, `integration/free5gc/*.patch` | contexts and generation counter; policy table | create, remove, reconcile, release; GET/PUT policy | HTTP to the agent, with time-outs and retries |
| Protocol and configuration, `controlplane/protocol.go`, `config.go` | none | validation, conversion to a policy entry | all |

What is hard here, and would hardly be reached by a test:

* one reconcile pass over many connections in which some map calls fail, and
  the next pass that meets the remains, with a context deleted, re-created or
  updated and a token reused in between;
* a new generation staged over a live one while the kernel schedules;
* a kill between two map calls, and the next start on what is left;
* a stop racing requests in flight, events and the retry;
* events that come late, in one datagram with a malformed one, or not at all
  because the receive buffer was full; connections older than the subscription;
* an SMF that gives up a call the agent still executes, or repeats one it has
  executed; an agent that has forgotten what the SMF calls applied; a restart
  of either; a stop in the middle;
* credits and hysteresis over unbounded sequences of decisions, policies and
  losses of a leg, at the edges of the weights, RTTs and deltas.

`PROJECT.json` lists these hazards at their lines with the properties that
watch them.

## 2. Modules

| Module | Models | Composition |
|---|---|---|
| `LiveMaps` | the maps of one connection; `ApplyLive`, `DeleteLive`, incremental update as atomic operators that return the *set* of possible results | used by `Daemon`, `LiveTransactions`, `LiveSteps`, `Serve` |
| `LiveTransactions` | abstract: an operation is asked for and has one of the outcomes `LiveMaps` lists, or its process is killed | extends `LiveMaps` |
| `LiveSteps` | the same three functions, one action per map call, with an error possible at each and a kill between any two | implements `LiveTransactions` |
| `AgentTable` | abstract: what the agent promises the SMF about contexts | implemented by `Daemon`, used by `ControlPlane` |
| `Daemon` | `daemon.go`, `Status` included | extends `LiveMaps` |
| `PMStream` | `pm_linux.go`: kernel, receive buffer, decoder and `Run` in front of the daemon | extends `Daemon` |
| `Serve` | `serve.go`, `Cleanup`, the writer lock, `RequireEmptyNamespace`, the CLI's `apply` and `delete` | extends `Daemon` |
| `ControlPlane` | `smf.patch` and `pcf.patch`: the PCF's policies, the SMF's contexts, its calls to the agent | the agent is an instance of `AgentTable` |
| `Selection` | `dualsteer_select.h`, as operators | |
| `Config` | `config.go`, `protocol.go`: what the file, the protocol and the command line accept, and what becomes of it in the map | extends `Selection` |
| `DsSelect` | the sequence of `ds_select` calls of one socket, under the policies `Config` lets through | extends `Config` |
| `Scheduler` | `dualsteer.bpf.c`, lookup by lookup | extends `Selection` |
| `MCDaemon`, `MCPMStream`, `MCServe`, `MCControlPlane`, `MCDsSelect`, `MCScheduler` | constants of the instances | |
| `DaemonProofs`, `DaemonTableProofs`, `PMStreamProofs`, `LiveStepsProofs`, `DsSelectProofs`, `SchedulerProofs`, `ServeProofs`, `ControlPlaneProofs` | theorems | each extends the module it is about; `PMStreamProofs` and `ServeProofs` also build on the daemon's theorems |

Two refinements tie the levels together. `LiveSteps` implements
`LiveTransactions` (the maps of the abstract module are those before the running
operation until it returns or is killed), which justifies the atomic operators in
`Daemon`. `Daemon` implements `AgentTable` (`healthy` is "no binding has an
error", what `reconcileLocked` returns), which justifies the agent of
`ControlPlane`. The SMF can therefore be checked without the connections, and the
daemon without the map calls.

Definitions commented as "slip" are plausible mistakes in the definition that
follows. No specification uses them; putting one in the place of the right
definition must make a property fail, which shows that the property is
sensitive to the code.

### LiveMaps

An absent entry is `None`. `up` says whether the map store works. If it does,
each operator has the one result of its successful path; if not, it has the
result of every combination of failing calls: the policy delete failing before
anything is touched, the listing failing after the policy is gone, any
non-empty set of path deletes failing, any subset of staged paths not rolled
back. `ErrNotFound` on a delete is success, as in the code. A failing call is
taken to have no effect of its own.

### LiveSteps

`pc` is the next `MapStore` call, `todo` what the current loop has not yet
visited (Go's map order is the free choice of `k \in todo`), `before`, `staged`
and `errs` are the locals of the Go functions. `start` and `result` are history
for the comparison with `LiveMaps`. `Crash` leaves the maps as they are and the
process idle. `Asked` is the running operation as `LiveTransactions` sees it.
Writers are serialized by `d.mu` and by the writer lock, so one
operation runs at a time; the reader that interleaves is the kernel, which is
why properties are about every intermediate state.

### Daemon

`contexts`, `connections` and `fatal` are the fields of `Daemon`; `maps` is the
store by token. A Go map is a total function with `None` for absent keys. An
error text is a Boolean. A leg is named by its local address (the interface
name is in one-to-one relation with it in a spec), `legIndex` is what
`ValidateLegAddress` finds for it (0: not assigned). A `ContextSpec` is its two
legs and its selector; DNN and id syntax are left out. A flow is its local
address, destination and endpoint pair; ports only make flows distinct.

Every method runs under `d.mu` from the first read to the end of
`reconcileLocked`, so one method is one action, reconciliation included. The
turns of the first loop do not influence each other, hence the product of their
outcomes; the second loop sees all of them. `Observe` is split by event kind and
outcome; an error it returns ends `Run` (`streaming`), and `Fail` comes later
because the worker takes the mutex again. `Put` that is refused changes nothing
and is a stutter. `LegChange` and `StoreFlip` are the host. `BindingReady` and
`Ready` are what `Status` computes when its own lookups succeed; a failing one
only makes the answer worse.

### AgentTable

Which assignments are accepted, by the table alone (`Accepts`); everything else
that may refuse one, a fatal daemon or an address that is not there, is left to
the implementation, which may always do nothing. Every call ends in a `Pass`,
which forgets some of the contexts being deleted, and all of them when it
returns no error: that is the promise a caller relies on when it forgets a
context it has deleted.

### PMStream

`kernel` has the subflows of every MPTCP connection, `fresh` the connections
established since `SubscribePM` joined the group, which the source calls the
observation boundary. `queue` is the receive buffer: messages in order, and
`overrun` once one did not fit, which the next read reports. `Receive` takes one
message: it may lack a required attribute, in which case the decoder's error ends
`Run`; otherwise it is handed to `Daemon`'s `Observe`. `ReadFails` is every other
error of `Run`. Several messages of one datagram are several `Receive` steps,
because `d.mu` is free in between; an error drops the rest in either case. The
host's addresses stay where they are here (`LegChange` is in `daemon_one` and `serve`). The
byte layout of attributes and the look-up of the family and group ids are left out.

### ControlPlane

`desired` and `generation` are the SMF's fields; `applied`, `deleting` and `err`
those of `State` (an error text is a Boolean). The SMF holds `s.mu` from the
policy read to the end of the agent call, so its operations do not overlap: a
`call` is in progress or none, and `todo` is what is left of the loop of
`Reconcile` or `Release`. A call ends with the agent's answer (`Handle`, whose
answer may be lost), or by the client's second or a cancelled context (`TimeOut`)
before the agent has executed it; the request is then lost, or waits in the
agent's handler (`late`), which does not look at the request's context. The two
seconds between deliveries are a choice (`Due`). `calm` says that nothing fails
at present: it is the premise of liveness. `Restart` and `AgentRestart` are new
processes; both begin with empty tables, and the SMF counts generations from one
again. `life` and `writer` are history, to tell the contexts of this SMF process
from those an earlier one left behind. `overtaken` is history too: the ids whose
context the agent has changed for an abandoned request after it last answered the
SMF about them without an error. The properties say exactly which of their claims
such a request breaks, and that nothing else does. `late` is a set: of two equal
abandoned requests one is kept. The PCF is its table (`pcf`).

### Serve

`phase` follows the function: `running` (the loop), `draining` (`Shutdown` has
been called), `drained` (it returned, or timed out and the server was closed),
`cleaned` (`Cleanup` is over), `down` (no process: memory and lock are gone). A
handler that has read its request (`pending`, at most one in the model) executes
it at any time while the process lives, also after `Cleanup`: `server.Close`
does not stop it. `Start` needs the lock and an empty namespace; the command
line needs the lock. One pending request is enough because what races with the
stop is a single late `Put`. The property `ErrorsFollowPlans` is stated in `Daemon` but
is about this module's ticker: bindings are repaired, and a leg that is gone is
reported, without any event.

### Selection, Config and DsSelect

`__u32` and `uint32` are naturals below `Word`, with arithmetic modulo `Word`. A
field that YAML or JSON leaves out, and a text no code accepts, is `None`; names
and addresses are members of sets. Interface names are in two that overlap: the file
takes what trimming does not change (`IfNames`: longer names, and white space
inside them), the protocol what has at most 15 bytes, no slash and none of four
white-space characters (`LinkNames`: an em space at the end passes).
`Config` has one predicate per validator, and `PlanConfig`, which turns an
assignment into the configuration that `ApplyLive` validates again. In
`DsSelect`, `Configs` and `Assignments` are what anybody may send; what the
validators let through becomes the policy entry. A candidate is the best subflow
of a leg at position equal to the leg. `Select` calls `ds_select` with any
candidates, `ReplacePolicy` installs any accepted policy, with the same generation
too. `last` and `owed` are history: the last call, and what leg A is owed by the
weights of the decisions made since the credits were reset, in hundredths of a
decision. Nothing bounds the number of calls: `owed` stays small because the
property about it holds.

### Scheduler

`ds_schedule` reads the policy first and then one path entry per subflow, with
no lock against the agent, so a call is `BeginSchedule` (key, storage, policy,
fallback conditions), one `Look` per subflow and `Decide`. Calls of different
sockets interleave, those of one socket do not (the socket lock). `WritePolicy`
and `WritePath` are any single map call of the agent, in any order: the
properties of this module do not rely on the agent's order of writes, which is
the subject of `LiveSteps`. What a subflow looks like (active, backup, room in
its buffers, RTT) is chosen anew at each look. `SetToken` and `FreeFor` are the
kernel: a token belongs to one socket at a time, may be cleared before the
release and may be given to another socket. Storage and a statistics entry may
fail to be allocated. A statistics entry keeps the generation, the mode and
which counter was incremented last, not the counts. The program reads the backup
flag of a subflow twice, for the candidate and for the fallback; the model reads it
once. Nothing is written under token 0, which the kernel gives to no connection, though
the map store would take it. A lookup returns one
complete value, as the source says of a hash map replacement. `did` (the last
decision) and `heldFor` (the key a selection state was built for) are history.
The namespace part of a key does not change and is left out.

## 3. Runs

| Run | Shows |
|---|---|
| `daemon_one` | one connection, two contexts at a time with the legs either way round and a second destination, two generations, three subflows of which two collide, a subflow limit of two, a moving address and all map failures: no orphan entry, owners exist and match, selectors are unique, no error means installed exactly, every pending cleanup is reported, the live policy is the owner's; the daemon implements `AgentTable` |
| `pm_stream` | one connection, three subflows, a buffer of two messages: as long as the stream lives the daemon's view is the kernel's but for what is in the buffer; a connection older than the subscription is never steered; `Status` calls nothing ready that is not installed |
| `serve` | starts, stops, kills, late requests, manual map changes: a clean exit leaves nothing, no start adopts anything, every stop ends, the ticker alone finishes cleanups, repairs bindings and reports a leg that is gone or on another interface |
| `live_steps` | three pairs, two generations: every call-by-call execution, with errors and kills, implements the transactions; commits are complete; generations only advance; a delete never steers by what is left |
| `select` | the weights 30, 50 and 100 for leg A, exchanged under one generation with both legs usable and credits not zero, credits down to -50; RTTs and deltas at 0, at the boundary and at the largest word, legs lost and recovered, policies of both modes replaced under one generation and another; files and assignments that must be refused |
| `scheduler_maps` | one socket, two subflows, two generations (WRR on one leg, RTT on both): a decision follows one generation whatever is written between the lookups; backups come last |
| `scheduler_keys` | two sockets, two tokens set, cleared and passed on: statistics have an owner, history is not carried to another key |
| `control_plane` | two contexts that may want one destination, two policies, two generations, restarts of the agent, an abandoned request that may still run: the agent has no context of this SMF that the SMF does not know, and a clean stop leaves none, but for what the abandoned request does; silence means applied |
| `control_live` | one context with either destination, two SMF processes, an abandoned request that may still run: applied means held, unless that request has changed the context since; everything converges once nothing fails, with the exceptions below, and every stop ends |
| `select_comment`, `live_partial`, `control_late` | expected violations, section 5 |

Bounds. Two generations give older, same and newer, and a generation space that
is exhausted. Three pairs give an entry that is kept, one that is new and one
that is stale. Contexts meet in the selector check and in re-creation under
another id; two show that. Connections influence each other only through the
second loop of `reconcileLocked` and the capacity check; the runs of the daemon
have one connection, and the theorems of `DaemonProofs` and `DaemonTableProofs`
state the same properties for any number of them. `MaxContexts`,
`MaxConnections` and `MaxSubflows` stand for 1024, 4096 and 256 and are reached.
`MaxQueue` stands for 4 MiB of events: two messages are one the daemon has not
seen before another, and the third does not fit. `Word` stands for 2^32; it is
512 in `select`, because the validators compare with 255 and 100, and 256 in the
scheduler's runs. RTTs include 0, ties, delta and Word-1. `Moving` is the set of
addresses that may change interface or vanish. `MaxUint32` is the last generation,
`MaxLives` the number of SMF processes and `MaxLate` that of abandoned requests
at a time. `control_plane` and `control_late` have one process and one abandoned
request, `control_live` has two processes and one request: what an earlier process
leaves and what an abandoned request does concern one id, what contexts do to
each other (the destination, a loop of `Release`) needs two ids. The theorems of
`ControlPlaneProofs` have all at once. Two subflows are what it takes to offer both
legs, to have a backup next to a regular subflow, and to write between two
lookups. Two tokens and two sockets are what it takes to pass a token on; that
run has no backup subflows (`BackupFlags`), which have no part in it.

Symmetry is used for ids, pairs, tokens, sockets and the SMF's policies, in runs
without liveness. `daemon_one` checks a refinement under symmetry; `AgentTable` is symmetric in the
ids and without fairness, so it is sound there.

Fairness. `FairServe` assumes weak fairness of the loop's ticker, every 250 ms
while `Serve` is running, and that after the loop `Serve` runs on: `Shutdown` has
a deadline, the worker's context is cancelled, `Cleanup` does not wait. Nothing
is assumed of handlers, events, requests or the operator. That the store works
for good is a premise of the properties, not of the specification. `FairSpec` of
`ControlPlane` assumes that the poll's ticker fires and its loop goes on, that a
call ends (by the client's time-out, or by an answer when nothing fails), that
the agent's ticker retries, and that `Run` runs on after its stop. `s.mu` is a
`sync.Mutex`, which hands itself to a waiter that has starved, and polls and
`Release` wait for it between any number of clients: hence strong fairness there.
A delivery of an applied context is due again two seconds later, and polls are
more frequent than that: a turn that delivers is possible again and again, and
strongly fair. Clients, operators, failures and the restarts are not fair.

`Converges` excepts three cases that the code has no answer to: a context that an
earlier SMF process left at the agent (its generation may be higher, or its
legs different, and the SMF's PUT is then refused until the agent restarts); a
context that the SMF has deleted and an abandoned request has brought back, which
is what `control_late` shows (`BroughtBack`) and which also keeps out the id's next
context if that has another spec; and a new policy for which no generation is left.
The run has one id: of two that want one destination only one can have it. Apart from these, what the SMF has deleted or never heard of is
gone from the agent.

## 4. Proofs

All in TLAPS, for every value of the constants that satisfies the named
assumptions `NoneIsNoEntry`, `DaemonConstants`, `PMStreamConstants`,
`ConfigConstants`, `DsSelectConstants`, `SchedulerConstants`,
`ControlPlaneConstants`, `GensAssumption` and `NoneIsNoOperation`: the types of the
constants, `None` is none of the values, entries, storages or operations it stands
beside, `Word` is large enough for the constants of the code that are compared with
it (255 for the validators, 100 for the weights). Every safety invariant and every
refinement that a passing run checks is a theorem.

`DaemonProofs` begins with what each operator of `LiveMaps` can return: success
means exactly the wanted maps, a failure leaves entries of the old or the wanted
maps only. It then proves `Spec => []IInv`. None of the safety properties is
inductive alone. `NoErrorMeansInstalled` needs to know that an error-free
binding stays exact when nothing about it changed; that a repair by the
incremental branch is exact needs the live policy to be the owner's; that needs
the live generation to be at most the owner's (`Bound`) with equal generation
meaning equal policy; that needs owners to exist, which needs a deleting context
to be owned (`DeletingIsOwned`). `IInv` is the type invariant, unique selectors,
`DeletingIsOwned` and, for each connection, `Bound`, `Installed` and `Pending`.
The proof goes along the code: a lemma per outcome of `ApplyConnection`, of
`Retire` and of `Install`, one for a turn of the loop (`TurnInv`), one for
`ReconcileLocked`, one per action. Theorems: `TypeCorrect`, `NoOrphans`,
`UniqueSelectors`, `InstalledExactly`, `PendingIsReported`, `LiveIsAssigned`,
`NeverRollsBack`.

`DaemonTableProofs` proves `Spec => ImplementsTable`. Every action either hands
`reconcileLocked` the contexts it has just updated or leaves them alone, and both
are a `Pass`. That a pass without an error has forgotten every context being
deleted is `PendingHasError` after the step: a deletion that is still pending has
a binding with an error. `StatusIsTruthful` follows from `InstalledExactly` and
`PendingIsReported`, although `Status` itself compares nothing but the
generation; `OwnersAreThere` is the second half of `NoOrphans`.

`PMStreamProofs` first proves that the daemon behind its event stream is still the
`Daemon` (`StreamIsDaemon`), so that every theorem about the daemon holds behind the
real source of events too (`StreamStatusIsTruthful` is one). `ViewStaysExact` says
that what the daemon has seen together with what is still in the buffer is what
the kernel has. Four facts carry it: appending to the buffer and taking from it
are one `Effect` on the view (`ReplayAppend`, `ReplayTail`); what the kernel sends
tells exactly what happened (`KernelEffect`); an event that `Observe` accepts does to
the view what it says (`ObserveSees`); and `reconcileLocked`, which runs at the end
of every operation, forgets closed connections only and keeps the subflows of the
others, whatever map calls fail (`ReconcileKeeps`). `OnlyFreshSteered` needs
`OldIsUnseen`: of a connection older than the subscription there is no ESTABLISHED
event, neither read nor in the buffer; hence no first subflow, no owner
(`OwnersExist`) and no entry (`EntriesAreOwned`).

`LiveStepsProofs` proves that `ApplyLive`, `DeleteLive` and the incremental update,
call by call, implement `LiveTransactions` (`StepsImplementTransactions`) for every
set of pairs. Its invariant says for each label how far the maps are from those
the operation found: some wanted paths are staged and nothing else is touched
(`Staged`), policy and wanted paths are there and some of the others are left
(`Swept`), or some of the changed paths are updated (`Updated`). Each of these is
what `LiveMaps` lists for an operation that ends there with an error, so a kill
between two calls needs no outcome of its own. The same invariant gives
`CommitsAreComplete`, `NeverRollsBack` and `RemainsNeverSteer`.

`DsSelectProofs` has two parts. What `Config.Validate` accepts is a policy entry that
`ds_policy_valid` accepts (`AcceptedConfigSteers`), and so is every assignment of the
protocol; of these `Config.Validate`, called again inside `ApplyLive`, refuses exactly
those with a leg name that trimming would change, whatever endpoints `Daemon.plan`
adds, as long as it adds a pair once (`OnlyNamesFailTwice`); and an `apply` which
reaches the maps has a path on each leg. No interface has such a name in practice,
and `Daemon` leaves names out; if one had, its binding would keep an error. The point is the sum of two 32-bit weights, which
cannot wrap because each is at most 100 (`WeightsAddUp`). The other part is the
selection: every policy in the map is accepted (`PoliciesAreAccepted`), the credits
are opposite and within -50..49 (`CreditsStayBounded`), leg A is at every moment
within half a decision of its share (`ShareStaysExact`), a decision is usable
(`DecisionsAreUsable`), and the hysteresis bounds hold in both directions
(`RttHysteresis`, `SwitchesPayOff`). The key is the ledger: `credit[0]` is exactly
what leg A is owed.

`SchedulerProofs` proves the properties of a scheduling call for any number of
sockets, tokens and subflows and any writes of the agent between two lookups. A
running call knows that its storage is there and keeps its key (`CallInv`), that a
candidate on a leg is the position of a subflow whose path entry, as read, is of
the call's generation and of that leg (`Backed`), and that what it offers before the
backups is no backup; a selection state in use was built under the key kept beside
it (`HistoryInv`). From these follow `DecisionsAreOfOneGeneration`, `BackupsComeLast`,
`HistoryStaysWithKey` and, with the one owner of a token, `StatsAreOwned`.

`ServeProofs` carries the daemon's invariant through the life of the process. Up
to `Cleanup` every step is one of the daemon, so `IInv` holds. `Cleanup` deletes
entries behind the back of the bindings and leaves what is called `Coherent`: the
types, unique selectors and `Bound`. This is all that `Put` and `Delete` need, so
a handler that outlives `Shutdown` cannot do harm either (`NothingIsAdopted`); and
as such a handler exists only after a time-out, which makes `Serve` return an
error, an exit without an error leaves empty maps (`CleanExitIsClean`). Until
`Cleanup` the daemon's own theorems hold of the serving process (`ServingIsExact`).
`ProcessesNeverRollBack` extends `NeverRollsBack` to what several processes and the
command line write one after the other: a kill leaves the maps as they are, and
`ApplyLive` compares with what it reads, whoever wrote it.

`ControlPlaneProofs` has two invariants. `SmfInv` is about the SMF alone: the call
in progress carries its context as it is, generations are applied after they
are handed out, a context without `LastError` is applied or on its way, and a
loop of `Release` that has met no failure has not left out a context. It holds
whatever the agent does and gives `ControlTypeCorrect` and `SilenceIsApplied`.
`LinkInv` relates the SMF to the agent's table and gives `ContextsStayKnown`,
`StopIsClean` and `AppliedStaysHeld`, for any number of abandoned requests. It is about
the ids outside `overtaken`: an id enters that set when the agent executes an abandoned
request for it with an effect (`LateKeepsLink`), and leaves it with the next answer
without an error, which tells the SMF the truth again (`CallEndKeepsLink`). That an
abandoned request is of this process or an earlier one (`LateIsOfThePast`) keeps
`writer` at most `life`.

Only model-checked: liveness (`CleanupCompletes`, `ErrorsFollowPlans`,
`Converges`, both `StopEnds`), which needs fairness and ENABLED. What the runs of
section 5 refute is of course not proved either.

## 5. Disagreements between documents and code

* `select_comment`: the header says "switch only when the improvement is
  strictly greater than delta". With delta 0 the hysteresis block is skipped, and
  a tie moves the choice from B to A for an improvement of 0. For a nonzero delta
  the words hold (`SwitchPaysOff`, proved).
* `live_partial`: the agent's README says that partially staged bindings fall
  back to the default scheduler. `ApplyLive` overwrites live entries one by one
  under the old policy; in between the old policy sees one leg only and steers
  everything there. A kill at this point makes it last until the next apply or
  delete.
* `control_late`: the comment of `deliver` says that serialization keeps an old
  PUT from overtaking a DELETE. The SMF serializes its own calls, but a call ends
  for it when the client gives up, and the agent's handler goes on: it may wait
  for `d.mu`, or for its turn, and create the context after the DELETE was
  acknowledged. The SMF no longer knows the context, so nobody deletes it, and its
  destination stays taken until the agent restarts. `PutsNeverOvertake` is the
  comment's claim; `ContextsAreKnown`, proved, is what holds instead.

## 6. Not modelled, and the plan

Left out for good: netlink socket set-up and byte layout, map opening and ABI
checks, flag parsing, printing, statistics output, JSON and YAML syntax, the
character rules of names and addresses, the configuration files of SMF and PCF,
the kernel patch, scripts and lab set-up. They are I/O, syntax or test harness.

Next: with every safety property proved, what is left is to compose the results:
the control plane over the daemon itself instead of over `AgentTable`, the
scheduler beside a writer that follows `LiveSteps`, and the event stream inside
the life of the process.
