# A verification project for the NESOFT switch software

The repository holds the control software of a carrier Ethernet switch on a
Broadcom chip: one daemon per protocol (`nesoft/src/lacpd`, `mstpd`, `ospfd`,
`elmid`, ...), a central daemon that owns interfaces, bridges, VLANs, routes and
MPLS state and runs VRRP and GARP itself (`nesoft/src/nsm`), the command line
(`imi`, `imish`, `vtysh`), a shared library (`nesoft/src/lib`), and the layer that
programs the hardware (`hsl`). Every daemon is one process with one thread of
execution: an event loop (`lib/thread.c`) calls back one handler at a time.
Daemons talk to NSM over stream sockets (`lib/message.c`, `lib/nsm_client.c`).

Modelled: the event loop, the connection between a daemon and NSM, and the
protocol core of LACP, VRRP, GVRP, OSPF adjacencies and RSTP. That is a small part of
a tree of 900,000 lines, most of which is commands, tables, codecs and drivers; it is
the part where several processes, ports or routers act in an order nobody chose.

## Inventory

| Part | State it keeps | Operations | Hard behaviour | What makes it correct | Modelled |
|---|---|---|---|---|---|
| Event loop, `lib/thread.c` | lists of threads by kind and priority, four timer lists, records for reuse, descriptor sets | arm, cancel by pointer, cancel by argument, fetch | stale pointers to reused records, starvation, oversleeping, signals in select | a callback runs once per arming, never early, never after cancelling; every armed one runs in the end | `Scheduler` |
| Messages and NSM client, `lib/message.c`, `nsm_client.c`, `nsm/nsm_server.c` | partial messages, queue of messages to write, messages put aside, reconnect timer | read, write, request and wait, reconnect | short writes, put-aside messages, two writers that wait for each other, loss of the connection | nothing lost, doubled or reordered on a live connection; every request ends | `NsmClient` |
| LACP links and selection, `lacpd/lacp_link.c`, `lacp_selection_logic.c` | links, aggregators with slots, reference counts, the selection list, `agg_cnt` | attach, detach, aggregate, disaggregate, replace, delete, select | two-way pointers kept by hand, displaced members in the middle of a walk, drifting counters, lists at their limit | pointers agree, a SELECTED link has an aggregator, the best ports are in, no enabled port is forgotten | `LacpSelection` |
| LACP machines, `lacp_rcv.c`, `lacp_periodic_tx.c`, `lacp_mux.c`, `lacp_churn.c`, `lacp_tx.c` | machine states, flags and timers of each link | `lacp_run_sm` | timers of a link that went down, partner changes, silence | no lost timer, a changed partner stops traffic, silence ends traffic | `LacpMachines` |
| LACP handlers, `lacpd.c`, `lacp_timer.c`, `lacp_nsm.c`, `lacp_cli.c` | the interface table, the NSM connection | packets, timers, NSM messages, commands | handlers in any order, loss of NSM | counts and lists agree with what exists | `Lacp` |
| NSM's side of LACP, `nsm/lacp/nsm_lacp.c` | aggregator interfaces and members | attach, detach, add, delete | the two processes believe different members | what NSM was told and not told | as two variables of `Lacp` |
| VRRP, `nsm/vrrp` | session state, timer, priority, monitored circuit | advertisement, tick, enable, shutdown | lost advertisements, equal priorities, no preemption, intervals that change under way | in the end one master, the best; a running session ticks; a broken circuit stops it | `Vrrp` |
| GARP and GVRP, `nsm/L2/garp`, `nsm/L2/gvrp` | applicant, registrar, leave-all machines, the count of registering ports | join, leave, leave-all, timers, port states | flags set by one machine and served by another, ports that stop | a port declares what another registers; stale registrations age out | `Garp`, `GarpDisable` |
| OSPF adjacencies, `ospfd/ospf_nfsm.c`, `ospf_packet.c`, `ospf_flood.c` | neighbour state, last description, three LSA lists, timers | descriptions, requests, updates, acknowledgments, flooding | lost packets in a lockstep exchange, a database that changes under way | full neighbours have one database; an undisturbed exchange is never restarted | `OspfAdjacency` |
| RSTP, `mstpd` | role, state, information and timers of each port, the bridge's root | BPDUs, timers, ports that come and go | agreement between bridges, timers that open a port unasked, old information going round | no loop; one tree with one root in the end | `Rstp` |
| GMRP, MRP, MSTIs, RPVST | the same machines, per group, VLAN or instance | the same | the same | the same | no |
| OSPF SPF, routes, areas; E-LMI, `elmid` | route tables; polling counters | suspended calculations; enquiry and status | calculations suspended half-way | routes of the newest database | no |
| Interfaces, bridges, VLANs, RIB, MPLS, QoS, ACL in `nsm` | configuration tables | commands, announcements | little concurrency | tables agree with the hardware | no |
| `imi`, `imish`, `vtysh`, `pac`, `testapi`, `vlogd`, `imimore` | configuration text, terminals | parsing, printing | none a model would add to | | no |
| `hal`, `hsl`, `layer2`, `pal` | chip tables, sockets | vendor SDK and system calls | outside the repository | | no |

`PROJECT.json` lists every part with its sources, and the hazards at their lines.

How they interact. The event loop calls a handler with the argument it was
armed with. A LACP handler changes links and aggregators, arms or cancels
timers, and sends messages to NSM; NSM answers with interface and
configuration messages, which arrive as handlers of their own, or put aside and
handled later (`NsmClient`). A lost connection is one more handler. VRRP and GARP run
inside NSM and are called directly when an interface or the spanning tree state of a port
changes; the latter comes from `mstpd` as a message. Nothing is shared between processes.

## Modules

| Module | What it is |
|---|---|
| `Dispatcher` | what the event loop promises to client code |
| `Scheduler` | `lib/thread.c`: lists, threads, arming, cancelling, `thread_fetch`; implements `Dispatcher` |
| `NsmDelivery` | what a daemon may rely on of its connection: a FIFO that is cut at a disconnect |
| `NsmClient` | NSM's entry, the stream, the daemon's client; implements `NsmDelivery` |
| `LacpSelection` | links and aggregators as data, and what is done to them: aggregate, disaggregate, select, replace, create, delete |
| `LacpMachines` | the state machines of a link, `RunSm` as one step, frames |
| `Lacp` | the daemon: one action per handler; its properties |
| `Vrrp` | the routers of one group on a LAN |
| `Garp` | the GIDs of one VLAN on a bridge, and GIP between them |
| `GarpDisable` | `Garp` with GVRP turned off on ports, one more variable and action |
| `OspfAdjacency` | two neighbours on a point-to-point link |
| `Rstp` | bridges joined by cables |
| `MCScheduler`, `MCNsmClient`, `MCLacp`, `MCVrrp`, `MCGarp`, `MCGarpDisable`, `MCOspfAdjacency`, `MCRstp` | instances |
| `LacpSelectionProofs`, `LacpProofs`, `VrrpProofs`, `GarpProofs`, `NsmClientProofs`, `SchedulerProofs`, `OspfAdjacencyProofs`, `RstpProofs` | proofs, one module per module they are about; `LacpProofs` is about `LacpMachines` and `Lacp` |

### The event loop

`list` and `timer` are the thread master's lists, as sequences of thread numbers;
`thread` holds the records; `index`, `alloc`, `readfd`, `writefd` are the fields of
the same name. A thread's due time is `left`, the ticks that remain, which stays at
zero once it is due: no comparison the code makes tells that from absolute
times. Client code is any program that keeps the convention of the macros in
`thread.h`: it arms a callback only while its pointer is NULL (`On`), clears the
pointer on cancelling (`Off`) and as the first statement of the callback
(`Fetch`), and cancels everything before it frees an object (`Destroy`, after
`ospf_nbr_free`). `objects` and `ref` are that program's state. `Fetch` is the part of
`thread_fetch` that returns a thread, together with `thread_run`; `Collect` the part
down to select; `Select` what follows; `Interrupt` the `EINTR` branch. Errors of
select other than `EINTR` end the process and are not modelled. Lists of
suspended events that ospfd keeps itself are not either.

### The connection to NSM

NSM (`nsm_server.c`) never waits for a socket to take what it writes: `Send` writes what
the stream takes and queues the rest with the count already written, behind
whatever is queued; `Dequeue` is the write thread. The daemon waits whenever it
writes or reads, so that a callback of it is several steps: `AskNsm` begins one
that writes (`WriteUnit`), a request then reads until its answer is there (`ReadUnit`,
`ReadEnd`), and what is not the answer is put aside in `pend`; `Return` ends
`nsm_client_read` or `nsm_client_process_pending_msg`. `cli.run` and `cli.op` say where the
daemon is, since its program counter is the only state it keeps there. `MayRun` is
the loop's rule that put-aside messages come before anything else. A message is `Size` units, the
first its header; contents are left out.

`NsmLeaves` ends the connection from NSM's side, with or without what it queued; the daemon
finds the end of the stream in whichever call it makes next, and `Connect` is its timer.
`crashed` is a fault of the code: the handler of a put-aside message makes a request,
finds the connection closed, the disconnect frees the list and the message, and the loop
frees it again. The model stops there, and `Settles` speaks of the rest. `NsmClient` implements `NsmDelivery` with `Unhandled` for
the FIFO: what the daemon put aside, then what begins on the stream, then what NSM has queued whole.

Left out: other daemons' connections (NSM serves each from an entry of its own), errors of
a socket other than its end, malformed and empty messages, a message cut short by the end of
the stream in the middle of its body (the code handles it as if it were whole, the model drops it), an unknown virtual
router, the shutdown flag, message ids (a daemon has one request open), bundled
routes, and the request of G.8032, which does not arm the thread for what it put aside.

### LACP

A state of the daemon is a record (`State`), and each C function that
changes it is an operator from record to record (`Disaggregate(s, p, notify)` and so on), so
that a handler is the composition of the calls it makes, in order; `Runs(s)` makes
the record the next state. A link `link[p]` has the fields of `struct lacp_link` the
protocol uses; timers are Booleans (armed or not), since the model does not
count time: an armed timer may expire at any moment. An aggregator `agg[k]`
is the one of key `k`; the code makes at most one per key. `nsm` and `static` are NSM's
view: which members it was told of, how many static aggregators it has.

The transmit timer walks all links twice. Each link's turn is an action
(`GrantCredit`, `Select`) and no other handler runs between them. The first
walk follows the hash table, which orders links by port number while ports
are few; the second may take any order, which covers every order of the
selection list, kept here as a set.

`crashed` is set where the code dereferences NULL (`NsmDisconnect`: the NSM client is freed
before the aggregators that are still installed are deleted through it), and a handler
that starts while a link points to a freed aggregator has no defined behaviour,
so the model stops (`Defined`). The runs of `Lacp` therefore do not check deadlock.

Left out: the election of the system MAC (`MySystem` is a constant), the TLV layout,
statistics, show commands, sockets that fail to send, `lacp_link_delete_all` at
shutdown. `HAVE_HA` and `MUX_INDEPENDENT_CTRL` are not compiled. The
build for the Broadcom target (`config_bcm.sh`) leaves the daemon out, the one for a PC
(`config_pc.sh`) has it.

### VRRP

`sess[r]` is the session of router `r`, with the fields of `VRRP_SESSION` the election
uses. A second is a round: every router's timer fires once in it (`Tick`, then
`NextSecond`), in any order, and what is sent in it arrives (`Receive`) or is lost (`Lose`) in it. `Tick` is
`vrrp_timer`: the countdown first, then the monitored circuit, which may lower the priority
or stop the session. `IfDown` and `IfUp` are the callbacks of the interface, the commands are
one action each. `CircuitChange` only changes the interface that is monitored, since
no callback tells VRRP of it: it looks once a second.

Left out: setting and removing addresses (the virtual address is set), IPv6, sends that
fail, checks of a packet other than its interval, statistics and SNMP.

### GVRP

`gid[p]` is the GID of a port for the one VLAN, `NoGid` while spanning tree keeps the port
from forwarding. `Forward` and `Discard` are what `nsm_bridge_set_port_state` calls: `gvrp_enable_port_cb`
and `gvrp_set_port_state`, or `gvrp_disable_port_cb`, whose `gid_destroy_gid` (`Destroy`) first has the
others told that what the port registered leaves. `GarpDisable` adds
`gvrp_disable_port`, which does the same on a port that may forward. The two transition tables
are functions with the names of the C tables, and `ChangeStates`, `DoActions` the functions
that use them; the flags `cstart_join`, `cstart_leave`, `tx_pending` are kept, because what
one machine asks for is served later by another call. A LAN's stations send what they like
(`Receive`, `ReceiveLeaveAll`): a lost PDU is one that was not sent. `known` says that the attribute is in the GID's table, which
decides whether GIP looks at the port at all.

Left out: GMRP and the MRP variants, static VLANs and registration modes, removal of an attribute
from a GID, several attributes and the packing of PDUs, the hold timer, turning GVRP
on again on a port, and instances of MSTP (NSM keeps one state per port for all of them).

### OSPF adjacencies

`nbr[r]` is what router `r` keeps of the other; its lists `db_sum`, `ls_req`, `rxmt` are the three lists of
`struct ospf_neighbor`, and `events` the events the machine has posted to itself, which run
(`RunEvent`) after the handler that posted them. A handler is a composition of operators on a
record (`Step`): the neighbour, the database, what it sends. An LSA is a version; `link` keeps packets in order
and may lose them. Timers: `DbDescTimer` and `LsReqTimer` repeat, `LsUpdTimer` retransmits, `DbDescFreeTimer` frees the
slave's last description, `InactivityTimer` is the dead interval.

A timer that repeats packets goes off only when at most `Backlog` packets are under way (`Slow`): without it the model
has no bound. With `Backlog = 0` a repetition never meets what it repeats; a larger instance
with `Backlog = 1` was checked for the invariants alone (284,000 states).

Left out: networks with a designated router and the state TwoWay, the limit on concurrent
exchanges, one's own LSA received back, ageing and flushing, the minimum interval between instances,
delayed acknowledgments, graceful restart, RFC 5243, mismatches of MTU and options.

### RSTP

`port[p]` has the fields of `struct mstp_port` that decide roles and states, `br[b]` what the bridge takes
for the root. A handler is a composition of operators on a `Step`: the ports and the root data of one bridge.
`RoleSelection` is `mstp_cist_port_role_selection` with the transitions it calls; `ProcessMessage` is what
`mstp_cist_process_message` does with superior, repeated, inferior and other information. Time is counted in rounds of one hello time, in which the
hello timer of every enabled port goes off once; timers only go off while no BPDU is under way (`Quiet`), since
a cable is faster than a second. `Flap` breaks or mends a cable; both ends notice within the round
(`EnablePort`, `DisablePort`). A root port repeats its hello only while its topology change timer runs, which is not modelled: it may or may not.

Two slips of the code are modelled as they are: an agreement is taken whatever it agrees to (`mstp_cist_proto.c:469`),
and the recent root timer is stopped on the wrong port (`mstp_timer.c:442`).

Left out: topology change (its flags, timer and the flushing of addresses), the transmit limit, edge
ports, root and BPDU guard, falling back to STP, MSTIs and RPVST, the ring topology, timer values a BPDU carries, a recent-backup
timer that runs on by accident, commands.

## Runs

| Run | Instance | Shows | States |
|---|---|---|---|
| `loop` | seven callbacks of six kinds, three threads, two timer slots, delays 0 and 2 | lists, pointers and descriptors agree; select never oversleeps; nothing overtakes what is ready; `Scheduler` implements `Dispatcher` | 109,696 |
| `serve` | one timer, events, put-aside messages, three threads | whatever is armed and due runs or is cancelled | 9,020 |
| `channel` | four announcements, three requests, two disconnects, a stream that holds one message | framing, order, exactly once (`NsmClient` implements `NsmDelivery`); every request ends; all is handled in the end | 77,730 |
| `link` | one port, two keys, four inputs from a cold start, any timers | types, no timer lost, `agg_cnt` covers the aggregators; after silence no traffic; every enabled port is selected or stands by | 71,229 |
| `bundle` | two ports with traffic in one bundle, a selection list of one, four events | links and slots agree; the list is current; a partner change stops traffic | 488,737 |
| `contest` | two ports, one slot, changing priorities, three events | the best port ends with the slot | 518,871 |
| `elect` | two routers, one may own the address, priorities that a circuit lowers to the minimum, two events | a running session ticks; a broken circuit stops it; a backup rides out one lost advertisement; one master, the best, in the end | 406,702 |
| `circuit` | two routers | VIOLATED: a circuit that breaks before the first tick stops nothing | — |
| `vlan` | two ports that start and stop, countdown 2 | no machine waits for a timer that does not run; the count is exact and a port declares what the other registers; stale registrations age out | 14,553 |
| `disabled` | three ports, GVRP turned off on any | VIOLATED: a port that is turned off is taken out of the count twice | — |
| `adjacency` | two LSAs, one loss, one interval of silence, one new instance | full neighbours agree on the database or are about to; an undisturbed exchange never fails; both end full | 57,218 |
| `tree` | three bridges, four wirings: a ring; a double cable of which one cable fails or returns; a cable back to its own bridge; one cable with six losses and a failure | each bridge of one mind after every handler, with the best root port it was told of; no loop while nothing is lost; a loop-free tree that spans, with one root, in the end | 73,405 |

`CHECK_DEADLOCK FALSE` stands where the system may stop: `Lacp` after undefined behaviour, `NsmClient` and
`OspfAdjacency` when everything is done and the link is silent, `GarpDisable` when GVRP is off on every port.

Bounds. `Budget` counts inputs (in `bundle`, the timers that watch the
bundle too); the transmit timer and its walk are never counted. A cold LACP start
needs three inputs to a configured port and the fourth
reaches teardown; a warm start (`Configured`, `Bundled`) saves the
inputs that lead there, by applying the same operators. Two ports suffice for
every relation between links (displacement, sharing a slot, one seeing the
other's aggregator freed); two keys for a move from one
aggregator to another. `TxLimit` is 1 so that the limit is met. The proofs lift
the bounds for the properties they cover. In `Scheduler` three threads let two timers
share a slot while a third is elsewhere, and fewer threads than callbacks make
memory run out, so that every record is reused. In `NsmClient` a stream that holds one
message makes both sides meet a full one, and four announcements outlast the stream, the daemon's read and NSM's queue.
In `Vrrp` a delta of 120 takes priority 100 to the minimum and 150 above it. In `Garp` two expiries of LeaveAll
make the countdown visible; the invariants were checked apart for three ports and countdown 1 (591,175 states).
In `OspfAdjacency` one header per description makes the exchange as long as the
databases. In `Rstp` the cable from a bridge to itself makes backup ports, the double cable makes alternate
ports, the ring makes agreement pass a bridge; six losses in a row are what it takes to age out a neighbour, come up wrong and recover.

Fairness. `Scheduler`: callbacks return; the loop's steps are taken; time passes; a select whose
time is over is not interrupted for ever; and the loop finds no put-aside
message now and then. The last is about client code:
`nsm_client_process_pending_msg` takes one message off its list and arms itself
again only while there are more. Nothing is assumed of sockets, so a
descriptor may never be ready. An event of low priority is only looked at once select has
returned and may wait while it sleeps, so `Served` leaves `EVENT_LOW` out.
`Lacp`: an armed timer is served, and so is the transmit timer;
this is what `Served` states of `Scheduler`. It is strong fairness because the transmit
walk disables the other handlers while it lasts. Inputs are never fair.
The formulas are written as `[]<>` over the guard and the action since the guard is
cheaper for TLC than ENABLED. `NsmClient`: each process goes on where it can, and NSM comes back when it died.
`Vrrp` and `Rstp`: time passes and what arrives is read (`Rstp` says so of its protocol steps together: one of them is always possible).
`Garp`: the three timers go off. `OspfAdjacency`: packets are read and events run (weak), timers
go off (strong, since each answer stops and restarts them). Losses, failures and commands are never fair and are bounded.

Mutants. For each property there is a variant of one definition, as a plausible slip
would make it, that breaks the property; it stands just before the
definition it varies, or in its module.

## What the violations say

- `circuit`: `_vrrp_monitor_circuit` reports a circuit that goes down only if an earlier tick
  saw it up, while enabling a session looks at the circuit itself. Between the two, a failure is never
  noticed and the session stays master, against `vrrp.c:321`.
- `disabled`: `gid_destroy_gid` propagates the leave of what a port registers, and then `gid_free_gid` does so
  again if the port forwards. When spanning tree stops a port its new state is stored first and the second leave does
  not happen; when GVRP is turned off by command the port still forwards. With two ports that register
  the VLAN the count falls to 0 though one is left, against `garp_gip.c:161`, which calls it "the number of
  members registered", and the other ports stop declaring the VLAN that it still needs.

The models contain other faults that contradict no text and are therefore not runs: the two
processes that die at a disconnect (`Lacp`, `NsmClient`), the count of static aggregators
that stays high after NSM restarts, LeaveAll machines that stop (`garp_gid.c:664`), two
VRRP masters that may not preempt. They are listed as hazards, with the lines.

## Proofs

`LacpProofs` proves, for every set of ports, keys and LACPDUs and all limits:

- `Inductive`: the invariant `IInv` holds always;
- `TypeSafe`: `TypeOK`;
- `SelectedSafe`: `SelectedHasAggregator`;
- `SlotsSafe`: `SlotsAgree`;
- `CountSafe`: `CountCoversAggregators`;
- `Maintained`: the invariant `LInv` always, and the action property with it;
- `ListCurrent`: `SelectionListCurrent`;
- `TimersRun`: `NoLostTimer`;
- `PartnerChange`: `PartnerChangeStopsTraffic`.

None of `SelectedSafe`, `SlotsSafe` and `CountSafe` is inductive alone. `SlotsAgree` survives
a disaggregation only if the link was in a slot and in no other; a link is
SELECTED after `AttemptToAggregate` only because it had room, and what
`Replaceable` displaces must itself be a member. `IInv` is the type of the state
(`DaemonState`, with the walk) and `Sel` (selected exactly with an aggregator), `Backed` (a slot's link points back), `Held`
(a live aggregator holds whoever points to it), `Absent` (a link that is not in
the hash table has neither an aggregator nor an interface) and `Covered` (the daemon counts at least
its live aggregators and NSM's static ones). `Covered` holds because
making an aggregator counts it, freeing one that lives takes off exactly one, and NSM's updates move both the static
count and the total. A freed aggregator may still be
pointed to, since reference counts drift; the handlers that could follow the
pointer are those `Defined` excludes, and the proofs use that guard.

The argument follows the code. Each operator of `LacpSelection` gets lemmas: it keeps
`DaemonState`, it keeps the invariant, and what it leaves alone (`LacpSelectionProofs`). `LacpProofs` does the same for the
machines, whose composition is `RunSm`, and then has one step per
handler.

The list, the timers and the partner need `LInv`, which is `IInv` and `Tidy`: the list is current
(`Listed`), a link with an interface has one that is present (`Bound`; without it, an interface that is
deleted and announced again could leave an enabled link out of the list), and an enabled link in
the hash table has the timers that must end the states it is in (`Ticks`, which unlike the property counts a mux that is WAITING).
A handler touches many links, since aggregating one may displace others, so each operator says of every link
which fields it may have changed: `Rests` for a link whose states and timers stay, `Spares` when all of them do,
`Only` when one link is the exception. A run of the machines (`RunDone`) hands
on that frame for the others, and for its own link it gives the timers back, but for the one whose expiry it was run for
(`Due`), which it stops or arms again. A frame from another partner
has the link UNSELECTED before the mux runs, so it detaches in the same run; the links that are displaced
keep their partners. `Serves` says this of a handler as a whole.

The assumptions are those the modules name: `PortAssumption`, `KeyAssumption`,
`PrioAssumption`, `AdminKeyAssumption`, `SystemAssumption` and `LimitAssumption` of
`LacpSelection`, and `InputAssumption` of `Lacp` on what arrives.

`VrrpProofs` proves, for any number of routers, any priorities and intervals, any
losses, failures and commands:

- `Safety`: the invariant `IInv` holds always;
- `TypeCorrect`: `TypeOK`, with the ranges of the priority and the three intervals;
- `AlwaysTicking`: `Ticking`;
- `CircuitSafe`: `CircuitHonoured`, of `MCVrrp`'s specification with any `Budget`.

`Ticking` bounds the timer of a session by the interval of its state, and a backup that hears a
goodbye waits only `skew_time`; so the invariant adds (`Sound`, `Safe`) that
`skew_time` is never more than `master_down_int`, which holds although the two are computed only
when a session is enabled, and that a circuit counted as up has a countdown left.
`CircuitHonoured` relates a session to what an observer counts, so `MCInv` adds how the two go together (`Seen`):
a session that counts its circuit as up after one look at it down has one look left,
and one that counts it as down does not run.
The assumptions are `RouterAssumption`, `PriorityAssumption` and `IntervalAssumption`.

`GarpProofs` proves, for any number of ports that forward, stop and go on as they like:

- `Invariant`: the invariant `IInv` holds always;
- `TypeCorrect`: `TypeOK`;
- `TimersRun`: `NothingStalls`;
- `DeclaredExactly`: `DeclaresForOthers`.

`DeclaresForOthers` is not inductive: GIP decides by the count and by which ports have a machine that
registers nothing, and never looks at the applicants. The invariant adds that every machine is settled: it has the
timers it needs and no request left over, and one that is not in the GID's table neither declares nor registers, so
that a port which a leave does not reach had nothing to take back. A step is then one
port's own, a port that comes to register (`JoinCounted`), or one that stops registering, with its GID or
by losing it (`LeaveCounted`); in both the count says whether none, one or several
others register, which is what `Reaches` asks.
The assumptions are `PortAssumption` and `CountAssumption`.

`NsmClientProofs` proves, for messages of any `Size` and streams of any `Room`:

- `Invariant`: the invariant `IInv` holds always;
- `TypeCorrect`: `TypeOK`;
- `AlwaysFramed`: `Framed`;
- `OrderKept`: `InOrder`, that is, `NsmClient` implements the FIFO `NsmDelivery`.

`Framed` speaks of what has been read and what the stream holds. It survives a partial
write only if what is left to write continues what was written: `InboundOK` and `OutboundOK` say so of each
direction, `QueueOK` that only the head of NSM's queue can have begun and that its write thread is armed
exactly while something is queued, `Sending` that the daemon has the tail of one message left, and `PhaseOK`
where it may be when the connection closes. The assumptions are `BoundAssumption` and `StreamAssumption`.

The implementation maps every step to one step of the FIFO or to none. What is under way is three sequences one
behind the other, and a step does one of few things to the whole (`Moves`): a message joins at the end, the
first leaves, the end is lost because NSM left, all is cut, or a message goes from one part to the next and the whole stays
as it was. That takes more than framing. `Channel` adds to `IInv` that the daemon puts nothing aside while it reads a
message to handle at once (else a later one would overtake), that what it has read and the stream together begin with a
header, that a message read in full is not kept, and that what it writes says whether it will wait for an answer. The
sequences are filtered by recursive functions (`Those`), since the prover has no definition of `SelectSeq`.

`SchedulerProofs` proves, for any callbacks, kinds, objects and descriptors, any delays, any number of slots and threads:

- `Invariant`: the invariant `IInv` holds always;
- `TypeCorrect`: `TypeOK`;
- `ListedOnceAlways`: `ListedOnce`, a thread is in the one list its type names;
- `RefsAlwaysLive`: `RefsLive`, no pointer of client code is to a record that serves another;
- `AlwaysWatched`: `Watched`, select watches exactly the descriptors armed threads wait for;
- `NeverLate`: `NeverOversleeps`, select never sleeps past a timer;
- `NobodyOvertakes`: `NoOvertaking`, what is queued keeps its order;
- `PromiseKept`: `KeepsPromise`, `Scheduler` implements `Dispatcher`.

A state of the thread master is `Sound` if every thread in use is in the list it belongs to, once (`Placed`), the timers of
a slot are in order (`Sorted`), a record and its callback agree (`Fits`), the watched descriptors are those of the readers and
writers (`Watching`) and no kept callback is armed twice (`Single`). `IInv` adds that client code's pointers and the kept
threads in use correspond (`Pointed`), and what is so while select sleeps (`Sleeping`). Every call is of three kinds: one thread is
`Added`, some are `Cancelled`, or some are `Requeued`; each kind keeps the state sound and says
what happens to the lists, and `NoOvertaking` and the refinement follow from the kind alone. The abstract state counts,
for each callback, how often it is armed; that a call changes the count by one, and that freeing an object takes
off all that were armed with it, is a matter of which threads left use and not of which list they were in. The assumption
is `ClientAssumption`.

The loops of the code walk lists of any length. A recursive function over the list's positions says what has been done
after each (`ForEach`), and what holds at its end is proved by looking at the least position where it fails
(`Induction`, from the well-foundedness of the naturals), once for each loop.

`OspfAdjacencyProofs` proves, for any databases, any room in a description, any losses and new instances:

- `TypeCorrect`: `TypeOK`, through outages too;
- `NeverDisturbed`: `Undisturbed`, an exchange without an outage is never broken off;
- `StaysSynchronized`: `Synchronized` as long as there is no outage.

Neither can be seen from one router: a description is an error or not according to what the other one has sent and what
is still under way. The invariant `Inv` therefore speaks of both neighbours and both directions of the link. `Session` is
how far the descriptions have come, in five phases: nobody has agreed (every description under way is `Hail`, which both
begin with), only the slave has, a description is on its way to it, its answer is on its way back, all is described. In each phase
a queue holds descriptions that were answered before and after them copies of the one that is not (`Queue`), so whatever is read
is a repetition or what comes next. `Greets` says which hellos can still be under way, since one that has not seen
the other would break off the exchange. `Told` says that the packets are true: a description names no version its sender lacks, a
request nothing the receiver lacks, and an update that answers a request follows, and is no older than, what was
described (`Older`); each router's own LSA is newest with it. `Owed` is what makes the databases equal: an
LSA the neighbour has an older version of is to be repeated to it, asked for by it, or still to be described to it.

The steps are of three kinds. One that sends what is so (`Sendable`) keeps the invariant whatever else is under way; one
that leaves the exchange alone and only installs, strikes off or floods (`Quiet`) keeps it if what it struck off was had; one
that reads a description makes the session go on (`SlaveReads`, `MasterReads`), moves what was described to what is asked for
(`Learnt`) and sends what is left. `OwnAssumption` is that nobody begins with a newer instance of its peer's LSA than the peer has: the
model leaves out that a router outdoes its own LSA when it comes back newer (`ospf_flood_self_originated_lsa`). The theorems hold for
any `Backlog`, so also when a repetition overtakes its answer, which the run with `Backlog = 0` cannot show.

`RstpProofs` proves, for any bridges, ports and cables, any path costs, delays, losses and failures:

- `TypeCorrect`: `TypeOK`;
- `AlwaysCoherent`: `Coherent`, a bridge is of one mind between two handlers.

`Coherent` is what the code relies on when it sends a BPDU or opens a port without looking further: the root port is
the port whose role says so, only root and designated ports forward, and the information of a port whose role stands is what the
bridge takes for the root. It also says that the election was right and still is: no port was told of a shorter way to the root,
or of one that `mstp_cist_cmp_ports` would prefer among those as short; and a port is blocked only while it holds something as good
as what it would tell, from another bridge (alternate) or from its own (backup). Inside a handler it fails: information changes first, the roles follow, and the
transitions of the ports come last, one port after the other, each of which may stop others. The proof has two kinds of steps.
A `Minor` one leaves roles and information alone and lets only such ports forward as may: proposals, answers,
agreements, disputes, timers and the transitions of a role. What remains are the places where
a port learns something (`RecordSuperior`, a message that ages, a link that comes or goes) and
`RoleSelection`. That one makes the bridge agree with itself (`Steady`) whatever it knew, on one condition: no port without a link
forwards, since such a port is given no transition, and no port that was told something is disabled, since it would stand for no
election (`Ready`). The invariant `IInv` therefore adds to `Coherent` that a port is disabled if it has no information, and
only if it was told none. That the election finds a best way among any ports (`LeastPath`) takes the ports with the least
first part, of those the ones with the least second part, and so on through the six parts (`LessSix`); the best one being worse than
the bridge itself means that all are. A port whose information was recorded without a role
selection (`mstp_cist_proto.c:2201`) is not `selected`, and `Coherent` says nothing of it until its timer has gone off. `RoleSelection` goes
through the ports by a recursive function, whose value after each port is found by induction up to the last. The
assumptions are `PortAssumption`, `CableAssumption` and `TimeAssumption`.

Only model-checked: liveness (`SilenceEndsCollecting`, `SelectionReachesEveryPort`, `BestPortsChosen`, `Served`, `RequestsEnd`,
`Settles`, `RidesOutLoss`, the three properties named `Converges` or `Adjacent`, `StaleAgesOut`), which the prover does not
reach; of `OspfAdjacency`, `Synchronized` across outages; and `NoLoop` of `Rstp`, which is a
statement about paths through any number of bridges: it needs an argument about paths and not only about the ports of one.

## Not modelled

- `nsm` tables (interfaces, bridges, VLANs, RIB, MPLS, VPLS, PBB, QoS, ACL), `pac`: each
  command or message changes one table in one process and nothing runs in between; the codecs around them
  (`nsm_message.c`, `ospf_api.c`) are field by field. A model would restate them.
- Command lines and SNMP: parsing and reading.
- `hal`, `hsl`, `layer2`, `pal`: they end in a vendor SDK or the operating system, outside the repository.
- BFD, OAM and MPLS-ONM clients: their daemons are not in the repository.
- E-LMI, MSTIs, GMRP, OSPF's designated routers, SPF and routes: within reach, see the plan.

## Plan

What would add most next, in this order:

1. `NsmLacp`: NSM's aggregators composed with `Lacp` (the variable `nsm` becomes its
   state), and two daemons that exchange the frames `sent` holds.
2. OSPF on a broadcast network: DR election (`ospf_ifsm.c`), the limit on concurrent exchanges, ageing.
3. Topology change of `Rstp`, MSTIs.
4. E-LMI's polling.
5. Proofs: `Synchronized` of `OspfAdjacency` across outages; of `Rstp`, what an agreement says of the port it was given by.
