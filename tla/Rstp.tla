-------------------------------- MODULE Rstp --------------------------------
(***************************************************************************)
(* Rapid spanning tree as mstpd runs it between bridges of type RSTP: the    *)
(* information of a port and its role (mstp_cist_proto.c), its state           *)
(* (mstp_port.c), its timers (mstp_timer.c), and the BPDUs on the cables.      *)
(*                                                                           *)
(* Bridges and ports are numbers, the lower the better.  Time passes in        *)
(* rounds of one hello time: the hello timer of every enabled port goes off    *)
(* once in a round, the other timers count rounds.                           *)
(***************************************************************************)
EXTENDS Integers, Sequences, FiniteSets

CONSTANTS
    Bridge, Port,
    Of,              \* the bridge of each port
    Peers,           \* how the cables may join the ports: a port without one is its own peer
    cist_path_cost,  \* of each port
    FwdDelay,        \* the forward delay, in rounds
    MaxAge,          \* the greatest message age
    Losses,          \* bound, for each wiring: BPDUs lost
    Flaps            \* bound, for each wiring: cables that break or are mended

ASSUME PortAssumption == /\ Bridge \subseteq Nat \ {0} /\ IsFiniteSet(Bridge)
                         /\ Port \subseteq Nat \ {0} /\ IsFiniteSet(Port)
                         /\ Of \in [Port -> Bridge] /\ cist_path_cost \in [Port -> Nat \ {0}]
ASSUME CableAssumption == \A f \in Peers : f \in [Port -> Port] /\ \A p \in Port : f[f[p]] = p
ASSUME TimeAssumption == FwdDelay \in Nat \ {0} /\ MaxAge \in Nat 
                         /\ Losses \in [Peers -> Nat] /\ Flaps \in [Peers -> Nat]

VARIABLES
    port,            \* the ports
    br,              \* what each bridge takes for the root, and how it gets there
    peer, cable,     \* the other end of a port's cable, and whether it works
    wire,            \* the BPDUs on their way to each port
    helloed,         \* the ports whose hello timer went off in this round
    losses, flaps

vars == <<port, br, peer, cable, wire, helloed, losses, flaps>>

Off == -1            \* a timer that does not run
NoPort == 0
PortsOf(b) == {p \in Port : Of[p] = b}
LastPort == CHOOSE p \in Port \cup {NoPort} : \A q \in Port : q <= p

PortRole == {"DISABLED", "ROOT", "DESIGNATED", "ALTERNATE", "BACKUP"}
PortState == {"DISCARDING", "LEARNING", "FORWARDING"}
Vector == [root : Nat, cost : Nat, bridge : Nat, port : Nat]
Timer == {Off} \cup Nat

PortType ==
    [enabled : BOOLEAN, role : PortRole, state : PortState,
     info : {"DISABLED", "AGED", "MINE", "RECEIVED"}, vec : Vector, age : Nat,
     send_proposal : BOOLEAN, rcv_proposal : BOOLEAN, agree : BOOLEAN, agreed : BOOLEAN,
     disputed : BOOLEAN, selected : BOOLEAN, newInfo : BOOLEAN,
     message_age : {Off} \cup 0..3, forward_delay : Timer, recent_root : Timer, recent_backup : Timer]

BridgeType == [root : Nat, cost : Nat, root_port : Port \cup {NoPort}, age : Nat,
               recent_root : Port \cup {NoPort}]

Bpdu == [role : PortRole, vec : Vector, age : Nat, proposal : BOOLEAN, agreement : BOOLEAN,
         learning : BOOLEAN]

\* s comes before t.
Less(s, t) == \E i \in DOMAIN s : s[i] < t[i] /\ \A j \in 1..(i - 1) : s[j] = t[j]
Key(v) == <<v.root, v.cost, v.bridge, v.port>>

\* What port p would tell if it were designated (cist_designated_root and so on).
Designated(b, id, p) == [root |-> b.root, cost |-> b.cost, bridge |-> id, port |-> p]

----------------------------------------------------------------------------
(* One port.                                                                *)

\* mstp_cist_set_port_state
SetState(n, state) ==
    IF n.state = state \/ (state = "FORWARDING" /\ n.role \notin {"ROOT", "DESIGNATED"}) THEN n
    ELSE [n EXCEPT !.state = state, !.agreed = @ \/ n.role = "DESIGNATED",
                   !.recent_root = IF state = "DISCARDING" THEN Off ELSE @]

\* mstp_cist_set_port_role
SetRole(n, role) ==
    IF n.role = role THEN n
    ELSE LET active == role \in {"ROOT", "DESIGNATED"}
             waited == n.role \in {"ALTERNATE", "BACKUP"} /\ n.state = "DISCARDING"
         IN  [n EXCEPT !.role = role,
                       !.recent_root = CASE ~active -> Off
                                         [] active /\ n.role = "ROOT" /\ @ = Off -> FwdDelay
                                         [] OTHER -> @,
                       !.recent_backup = IF n.role = "BACKUP" /\ @ = Off THEN 2 ELSE @,
                       !.forward_delay = CASE ~active -> @
                                           [] active /\ waited -> FwdDelay
                                           [] active /\ ~waited -> 1]

\* mstp_cist_port_config_update: what the neighbour agreed to stands if the port's
\* information does not get worse (better_or_same_info_cist_mine).
ConfigUpdate(n, d, age) ==
    [n EXCEPT !.agreed = @ /\ ~Less(<<n.vec.root, n.vec.cost, n.vec.bridge>>, <<d.root, d.cost, d.bridge>>),
              !.vec = d, !.age = age, !.info = "MINE",
              !.send_proposal = FALSE, !.agree = FALSE, !.newInfo = TRUE]

\* Faulty: a port that stays designated goes on telling what it told.
AssignRoleLate(n, b, id, p) ==
    LET d == Designated(b, id, p) IN
    CASE n.info = "DISABLED" -> SetRole(n, "DISABLED")
      [] n.info = "RECEIVED" /\ b.root_port = p -> SetRole(n, "ROOT")
      [] n.info = "RECEIVED" /\ b.root_port # p /\ ~Less(Key(d), Key(n.vec)) ->
            SetRole(n, IF n.vec.bridge = id THEN "BACKUP" ELSE "ALTERNATE")
      [] OTHER -> IF n.role = "DESIGNATED" THEN n
                  ELSE SetRole(ConfigUpdate(n, d, b.age), "DESIGNATED")

\* mstp_cist_assign_role for port p of bridge id, and the role it is given.
AssignRole(n, b, id, p) ==
    LET d == Designated(b, id, p) IN
    CASE n.info = "DISABLED" -> SetRole(n, "DISABLED")
      [] n.info = "RECEIVED" /\ b.root_port = p -> SetRole(n, "ROOT")
      [] n.info = "RECEIVED" /\ b.root_port # p /\ ~Less(Key(d), Key(n.vec)) ->
            SetRole(n, IF n.vec.bridge = id THEN "BACKUP" ELSE "ALTERNATE")
      [] OTHER -> SetRole(ConfigUpdate(n, d, b.age), "DESIGNATED")

\* mstp_cist_handle_designatedport_transition
DesignatedTransition(n) ==
    IF n.state # "FORWARDING" /\ ~n.send_proposal
    THEN [n EXCEPT !.send_proposal = TRUE, !.newInfo = TRUE]
    ELSE IF n.state = "DISCARDING" THEN [n EXCEPT !.recent_root = Off] ELSE n

\* The port asks, and goes on forwarding meanwhile.
HeldOpen(n) == [n EXCEPT !.forward_delay = 1]

\* A port that must ask its neighbour before it forwards again.
Held(n) == [SetState(n, "DISCARDING") EXCEPT !.forward_delay = 1]

----------------------------------------------------------------------------
(* One bridge: s holds its ports and itself.                                *)

\* mstp_cist_cmp_ports, the way to the root through port p that holds n: as far as the
\* neighbour told, and of two ways as long as each other the one with the cheaper port.
Path(n, p) == <<n.vec.root, n.vec.cost + cist_path_cost[p], cist_path_cost[p], n.vec.bridge, n.vec.port, p>>

\* mstp_cist_root_port_selection
RootPortSelection(s, id) ==
    LET candidate == {p \in PortsOf(id) : /\ s.port[p].role # "DISABLED" /\ s.port[p].info = "RECEIVED"
                                          /\ s.port[p].vec.bridge # id}
        path(p) == Path(s.port[p], p)
        best == {p \in candidate : s.port[p].vec.root < id /\ \A q \in candidate : ~Less(path(q), path(p))}
    IN  IF best = {} THEN [s.br EXCEPT !.root = id, !.cost = 0, !.root_port = NoPort, !.age = 0]
        ELSE LET p == CHOOSE p \in best : TRUE
             IN  [s.br EXCEPT !.root = s.port[p].vec.root, !.cost = path(p)[2], !.root_port = p,
                              !.age = s.port[p].age + 1]

\* mstp_cist_rcv_proposal: the other designated ports stop forwarding, unless p itself
\* was agreed to before; then p agrees.
RcvProposal(s, p) ==
    [s EXCEPT !.port = [q \in Port |->
        CASE q = p -> [@[p] EXCEPT !.agree = TRUE, !.newInfo = TRUE]
          [] Of[q] = Of[p] /\ q # p /\ @[q].role = "DESIGNATED" /\ ~@[p].agreed ->
                [Held(@[q]) EXCEPT !.send_proposal = TRUE]
          [] OTHER -> @[q]]]

\* A proposal that waits is answered.
Answer(s, p) ==
    LET answered == IF s.port[p].agree THEN [s EXCEPT !.port[p].newInfo = TRUE] ELSE RcvProposal(s, p)
    IN  IF s.port[p].rcv_proposal THEN [answered EXCEPT !.port[p].rcv_proposal = FALSE] ELSE s

\* The ports that were the root port a while ago stop forwarding.
ReRoot(s, p) ==
    [s EXCEPT !.port = [q \in Port |->
        IF Of[q] = Of[p] /\ @[q].role = "DESIGNATED" /\ @[q].recent_root # Off
        THEN [Held(@[q]) EXCEPT !.agreed = FALSE, !.recent_root = Off] ELSE @[q]]]

\* mstp_cist_handle_rootport_transition
RootTransition(s, p) ==
    LET said == IF s.port[p].rcv_proposal THEN Answer(s, p)
                ELSE [s EXCEPT !.port[p].agree = TRUE, !.port[p].newInfo = @ \/ ~s.port[p].agree]
        alone == IF said.port[p].state # "FORWARDING" /\ said.br.recent_root # p
                 THEN ReRoot(said, p) ELSE said
        n == alone.port[p]
        moved == IF n.state # "FORWARDING" /\ n.recent_backup = Off
                 THEN [SetState(SetState(n, "LEARNING"), "FORWARDING") EXCEPT !.forward_delay = Off]
                 ELSE n
    IN  [alone EXCEPT !.port[p] = moved, !.br.recent_root = p]

\* A port that becomes alternate or backup goes on forwarding.
BlockedTransitionLax(s, p) == Answer(s, p)

\* The port leaves the active topology.
BlockedTransition(s, p) == Answer([s EXCEPT !.port[p] = SetState(@, "DISCARDING")], p)

\* What the role of port p takes.
Transition(s, p) ==
    CASE s.port[p].role = "ROOT" -> RootTransition(s, p)
      [] s.port[p].role \in {"ALTERNATE", "BACKUP"} -> BlockedTransition(s, p)
      [] OTHER -> s

\* mstp_cist_port_role_selection: roles first, then the transitions, port by port.
RoleSelection(s, id) ==
    LET b == RootPortSelection(s, id)
        assigned == [port |-> [p \in Port |->
                        IF Of[p] = id THEN [AssignRole(s.port[p], b, id, p) EXCEPT !.selected = TRUE]
                        ELSE s.port[p]],
                     br |-> b]
        after[p \in 0..LastPort] ==
            IF p = 0 THEN assigned
            ELSE IF p \in PortsOf(id) THEN Transition(after[p - 1], p) ELSE after[p - 1]
        t == after[LastPort]
    IN  [t EXCEPT !.port = [p \in Port |->
            IF Of[p] = id /\ @[p].role = "DESIGNATED" THEN DesignatedTransition(@[p]) ELSE @[p]]]

----------------------------------------------------------------------------
(* A BPDU m has come in at port p of bridge id.                             *)

Superior(n, m) ==
    \/ Less(Key(m.vec), Key(n.vec))
    \/ m.vec.bridge = n.vec.bridge /\ m.vec.port = n.vec.port /\ (m.vec # n.vec \/ m.age # n.age)

\* What is left of the greatest age, as for STP.
UpdateMessageAgeStp(age) == IF age + 1 > MaxAge THEN 0 ELSE MaxAge + 1 - age

\* mstp_cist_update_message_age
UpdateMessageAge(age) == IF age + 1 > MaxAge THEN 0 ELSE 3

\* better_or_same_info_cist_rcvd: the regional root of what a port has is its own bridge.
BetterOrSame(n, m, id) ==
    ~Less(<<n.vec.root, n.vec.cost, id, n.vec.bridge, n.vec.port>>,
          <<m.vec.root, m.vec.cost, m.vec.bridge, m.vec.bridge, m.vec.port>>)

RecordSuperior(n, m, id) ==
    [n EXCEPT !.agree = @ /\ BetterOrSame(n, m, id), !.vec = m.vec, !.age = m.age,
              !.message_age = UpdateMessageAge(m.age), !.rcv_proposal = @ \/ m.proposal,
              !.send_proposal = FALSE, !.info = "RECEIVED", !.selected = FALSE, !.agreed = FALSE]

ReceiveSuperior(s, p, m) ==
    LET n == s.port[p]
        t == [s EXCEPT !.port[p] = RecordSuperior(n, m, Of[p])]
    IN  IF n.role = "DISABLED" \/ (n.role = "DESIGNATED" /\ m.age > MaxAge) THEN s
        ELSE IF t.port[p].message_age = 0 THEN t ELSE RoleSelection(t, Of[p])

\* mstp_cist_send_proposal
SendProposal(s, p) ==
    [s EXCEPT !.port = [q \in Port |->
        IF Of[q] = Of[p] /\ q # p /\ @[q].role = "DESIGNATED"
        THEN [@[q] EXCEPT !.send_proposal = TRUE, !.newInfo = TRUE] ELSE @[q]]]

ReceiveRepeated(s, p, m) ==
    LET t == [s EXCEPT !.port[p].rcv_proposal = @ \/ m.proposal,
                       !.port[p].message_age = UpdateMessageAge(s.port[p].age)]
    IN  IF t.port[p].rcv_proposal /\ t.port[p].role # "BACKUP"
        THEN SendProposal([RcvProposal(t, p) EXCEPT !.port[p].rcv_proposal = FALSE], p)
        ELSE t

\* The neighbour agrees: the port forwards at once.
ReceiveAgreement(n) ==
    LET ready == [n EXCEPT !.forward_delay = Off, !.send_proposal = FALSE]
        next == SetState(SetState(ready, "LEARNING"), "FORWARDING")
    IN  CASE n.state = "FORWARDING" -> ready
          [] n.state = "DISCARDING" /\ n.role = "ALTERNATE" -> [ready EXCEPT !.newInfo = TRUE]
          [] OTHER -> [next EXCEPT !.newInfo = TRUE]

\* The neighbour takes itself for designated, and is not.
ReceiveDisputed(n) ==
    [Held([n EXCEPT !.agreed = FALSE]) EXCEPT !.send_proposal = TRUE, !.disputed = FALSE, !.newInfo = TRUE]

\* mstp_handle_rcvd_cist_bpdu, mstp_cist_process_message
ProcessMessage(s, p, m) ==
    LET n == s.port[p]
        heard == [s EXCEPT !.port[p].agreed = m.agreement]
        disputed == n.disputed \/ m.learning
    IN  CASE m.role # "DESIGNATED" ->
                IF m.agreement THEN [heard EXCEPT !.port[p] = ReceiveAgreement(@)] ELSE heard
          [] m.role = "DESIGNATED" /\ Superior(n, m) -> ReceiveSuperior(heard, p, m)
          [] m.role = "DESIGNATED" /\ ~Superior(n, m) /\ Key(m.vec) = Key(n.vec) ->
                ReceiveRepeated(heard, p, m)
          [] OTHER -> [heard EXCEPT !.port[p] = IF disputed /\ n.role = "DESIGNATED" THEN ReceiveDisputed(@)
                                                ELSE [@ EXCEPT !.disputed = disputed]]

----------------------------------------------------------------------------
(* The actions.                                                             *)

Step(p) == [port |-> port, br |-> br[Of[p]]]

BpduOf(n, p) ==
    [role |-> n.role, proposal |-> n.send_proposal, agreement |-> n.agree,
     learning |-> n.state # "DISCARDING", age |-> n.age,
     vec |-> [n.vec EXCEPT !.bridge = Of[p], !.port = p]]

\* The handler of a port of bridge id ends in s, and the ports of talks say what they have
\* to (mstp_tx); rest is what is still on the wires.
Done(id, s, talks, rest) ==
    LET sends == {p \in talks : s.port[p].newInfo /\ s.port[p].selected /\ s.port[p].role # "DISABLED"}
    IN  /\ port' = [p \in Port |-> IF p \in sends THEN [s.port[p] EXCEPT !.newInfo = FALSE] ELSE s.port[p]]
        /\ br' = [br EXCEPT ![id] = s.br]
        /\ wire' = [p \in Port |-> IF peer[p] \in sends /\ cable[p]
                                   THEN Append(rest[p], BpduOf(s.port[peer[p]], peer[p])) ELSE rest[p]]
        /\ UNCHANGED <<peer, losses>>

\* mstp_handle_bpdu, mstp_process_bpdu: a port does not listen to itself.
Receive(p) ==
    /\ wire[p] # <<>>
    /\ Done(Of[p], ProcessMessage(Step(p), p, Head(wire[p])), PortsOf(Of[p]), [wire EXCEPT ![p] = Tail(@)])
    /\ UNCHANGED <<cable, helloed, flaps>>

\* Timers are slow: when one goes off no BPDU is on its way.
Quiet == \A p \in Port : wire[p] = <<>>

\* mstp_hello_timer_handler; tc: the topology change timer of a root port may be running.
Hello(p) ==
    /\ Quiet /\ port[p].enabled /\ p \notin helloed
    /\ helloed' = helloed \cup {p}
    /\ \E tc \in {FALSE, port[p].role = "ROOT"} :
         Done(Of[p], [Step(p) EXCEPT !.port[p].newInfo = @ \/ port[p].role = "DESIGNATED" \/ tc], {p}, wire)
    /\ UNCHANGED <<cable, flaps>>

\* mstp_message_age_timer_handler
MessageAgeTimer(p) ==
    /\ Quiet /\ port[p].message_age = 0
    /\ LET s == [Step(p) EXCEPT !.port[p].message_age = Off] IN
       IF port[p].info = "DISABLED" THEN Done(Of[p], s, {}, wire)
       ELSE Done(Of[p], RoleSelection([s EXCEPT !.port[p].info = "AGED"], Of[p]), PortsOf(Of[p]), wire)
    /\ UNCHANGED <<cable, helloed, flaps>>

\* mstp_forward_delay_timer_handler
ForwardDelayTimer(p) ==
    /\ Quiet /\ port[p].forward_delay = 0
    /\ LET n == [port[p] EXCEPT !.forward_delay = Off]
           next == CASE n.state = "DISCARDING" /\ n.role \in {"ROOT", "DESIGNATED"} ->
                            [SetState(n, "LEARNING") EXCEPT !.forward_delay = 1]
                     [] n.state = "LEARNING" -> [SetState(n, "FORWARDING") EXCEPT !.send_proposal = FALSE]
                     [] OTHER -> n
       IN  Done(Of[p], [Step(p) EXCEPT !.port[p] = next], PortsOf(Of[p]), wire)
    /\ UNCHANGED <<cable, helloed, flaps>>

\* mstp_rr_timer_handler: the port that was the root port is treated as one.
RecentRootTimer(p) ==
    /\ Quiet /\ port[p].recent_root = 0
    /\ LET s == [Step(p) EXCEPT !.port[p].recent_root = Off]
           last == \A q \in PortsOf(Of[p]) : s.port[q].recent_root = Off
       IN  IF s.br.recent_root # NoPort /\ last
           THEN Done(Of[p], [RootTransition(s, p) EXCEPT !.br.recent_root = NoPort], {}, wire)
           ELSE Done(Of[p], s, {}, wire)
    /\ UNCHANGED <<cable, helloed, flaps>>

\* mstp_rb_timer_handler
RecentBackupTimer(p) ==
    /\ Quiet /\ port[p].recent_backup = 0
    /\ LET s == [Step(p) EXCEPT !.port[p].recent_backup = Off]
       IN  Done(Of[p], IF port[p].role = "ROOT" THEN RootTransition(s, p) ELSE s, {}, wire)
    /\ UNCHANGED <<cable, helloed, flaps>>

\* mstp_cist_enable_port, on NSM_MSG_LINK_UP; the first hello is a hello time away.
EnablePort(p) ==
    /\ cable[p] /\ ~port[p].enabled
    /\ LET s == RoleSelection([Step(p) EXCEPT !.port[p].enabled = TRUE, !.port[p].info = "AGED"], Of[p])
       IN  Done(Of[p], [s EXCEPT !.port[p].newInfo = FALSE], PortsOf(Of[p]), wire)
    /\ helloed' = helloed \cup {p}
    /\ UNCHANGED <<cable, flaps>>

\* mstp_cist_disable_port, on NSM_MSG_LINK_DOWN
DisablePort(p) ==
    /\ ~cable[p] /\ port[p].enabled
    /\ LET n == [SetRole(SetState(port[p], "DISCARDING"), "DISABLED")
                 EXCEPT !.enabled = FALSE, !.info = "DISABLED", !.message_age = Off,
                        !.forward_delay = Off, !.recent_backup = Off]
       IN  Done(Of[p], RoleSelection([Step(p) EXCEPT !.port[p] = n], Of[p]), PortsOf(Of[p]), wire)
    /\ helloed' = helloed \ {p}
    /\ UNCHANGED <<cable, flaps>>

\* A hello time has passed: every timer has done what it had to.
NextRound ==
    /\ Quiet /\ \A p \in Port : port[p].enabled = cable[p] /\ (port[p].enabled => p \in helloed)
    /\ LET Less1(t) == IF t = Off THEN Off ELSE t - 1 IN
       /\ \A p \in Port : 0 \notin {port[p].message_age, port[p].forward_delay,
                                    port[p].recent_root, port[p].recent_backup}
       /\ port' = [p \in Port |-> [port[p] EXCEPT !.message_age = Less1(@), !.forward_delay = Less1(@),
                                                  !.recent_root = Less1(@), !.recent_backup = Less1(@)]]
    /\ helloed' = {}
    /\ UNCHANGED <<br, peer, cable, wire, losses, flaps>>

Lose(p) ==
    /\ losses < Losses[peer] /\ wire[p] # <<>>
    /\ wire' = [wire EXCEPT ![p] = Tail(@)] /\ losses' = losses + 1
    /\ UNCHANGED <<port, br, peer, cable, helloed, flaps>>

\* A cable breaks or is mended; either end finds out by itself.
Flap(p) ==
    /\ flaps < Flaps[peer] /\ peer[p] # p /\ flaps' = flaps + 1
    /\ \A q \in {p, peer[p]} : port[q].enabled = cable[q]
    /\ cable' = [cable EXCEPT ![p] = ~@, ![peer[p]] = ~@]
    /\ wire' = [wire EXCEPT ![p] = <<>>, ![peer[p]] = <<>>]
    /\ UNCHANGED <<port, br, peer, helloed, losses>>

Created ==
    [enabled |-> FALSE, role |-> "DISABLED", state |-> "DISCARDING", info |-> "DISABLED",
     vec |-> [root |-> 0, cost |-> 0, bridge |-> 0, port |-> 0], age |-> 0,
     send_proposal |-> FALSE, rcv_proposal |-> FALSE, agree |-> FALSE, agreed |-> FALSE,
     disputed |-> FALSE, selected |-> FALSE, newInfo |-> FALSE,
     message_age |-> Off, forward_delay |-> Off, recent_root |-> Off, recent_backup |-> Off]

Init ==
    /\ port = [p \in Port |-> Created]
    /\ br = [b \in Bridge |-> [root |-> b, cost |-> 0, root_port |-> NoPort, age |-> 0,
                               recent_root |-> NoPort]]
    /\ peer \in Peers /\ cable = [p \in Port |-> peer[p] # p]
    /\ wire = [p \in Port |-> <<>>] /\ helloed = {} /\ losses = 0 /\ flaps = 0

TimerStep(p) ==
    Hello(p) \/ MessageAgeTimer(p) \/ ForwardDelayTimer(p) \/ RecentRootTimer(p) \/ RecentBackupTimer(p)
ProtocolStep == NextRound \/ \E p \in Port : Receive(p) \/ TimerStep(p) \/ EnablePort(p) \/ DisablePort(p)
FaultStep == \E p \in Port : Lose(p) \/ Flap(p)
Next == ProtocolStep \/ FaultStep

Spec == Init /\ [][Next]_vars
\* A protocol step is always possible (nothing deadlocks), so this is its weak fairness.
FairSpec == Spec /\ []<><<ProtocolStep>>_vars

----------------------------------------------------------------------------
(* Properties.                                                              *)

TypeOK ==
    /\ port \in [Port -> PortType] /\ br \in [Bridge -> BridgeType]
    /\ peer \in Peers /\ cable \in [Port -> BOOLEAN] /\ wire \in [Port -> Seq(Bpdu)]
    /\ helloed \subseteq {p \in Port : port[p].enabled} /\ losses \in 0..Losses[peer] /\ flaps \in 0..Flaps[peer]

\* n holds what another bridge told port p, and the roles took it into account.
Told(n, p) == n.selected /\ n.info = "RECEIVED" /\ n.vec.bridge # Of[p]

\* Between two handlers a bridge is of one mind: its root port is the one whose role says
\* so, only root and designated ports forward, a designated port whose role stands tells
\* what the bridge takes for the root, and that is what its root port was told.  It takes
\* the best that any port was told, and a port is blocked only for what it heard: from
\* another bridge (alternate) or from its own (backup), as good as what it would tell.
Coherent ==
    \A p \in Port :
        LET n == port[p]
            b == br[Of[p]]
        IN  /\ n.role = "ROOT" <=> b.root_port = p
            /\ n.state = "FORWARDING" => n.role \in {"ROOT", "DESIGNATED"}
            /\ n.role = "DESIGNATED" /\ n.selected => n.vec = Designated(b, Of[p], p) /\ n.age = b.age
            /\ n.role = "ROOT" /\ n.selected =>
                  /\ b.root = n.vec.root /\ b.cost = n.vec.cost + cist_path_cost[p] /\ b.age = n.age + 1
                  /\ b.root < Of[p] /\ n.vec.bridge # Of[p]
                  /\ \A q \in PortsOf(Of[p]) : Told(port[q], q) => ~Less(Path(port[q], q), Path(n, p))
            /\ Told(n, p) => ~Less(<<n.vec.root, n.vec.cost + cist_path_cost[p]>>, <<b.root, b.cost>>)
            /\ n.role \in {"ALTERNATE", "BACKUP"} /\ n.selected =>
                  /\ n.info = "RECEIVED" /\ ~Less(Key(Designated(b, Of[p], p)), Key(n.vec))
                  /\ n.role = "BACKUP" <=> n.vec.bridge = Of[p]

\* The ports of the cables frames pass over.
Active == {p \in Port : cable[p] /\ port[p].state = "FORWARDING" /\ port[peer[p]].state = "FORWARDING"}

\* No set of active cables comes back to every bridge it leaves.
Acyclic ==
    \A ring \in SUBSET Active \ {{}} :
        (\A p \in ring : peer[p] \in ring) => \E p \in ring : \A q \in ring \ {p} : Of[q] # Of[p]

\* Some cable of ports has one end at a bridge of side, and the other not.
Leave(ports, side) == \E p \in ports : Of[p] \in side /\ Of[peer[p]] \notin side

\* Frames get from any bridge to any other that cables lead to.
Connected ==
    \A side \in SUBSET Bridge : Leave({p \in Port : cable[p]}, side) => Leave(Active, side)

\* Each bridge takes for the root the best of those that cables lead to.
RootKnown ==
    \A b \in Bridge :
        /\ \A side \in SUBSET Bridge : b \in side /\ ~Leave({p \in Port : cable[p]}, side) => br[b].root \in side
        /\ br[b].root <= b /\ \A p \in PortsOf(b) : cable[p] => br[b].root = br[Of[peer[p]]].root

\* While no BPDU is lost no frame goes round, though cables come and go and the ends of
\* each find out by themselves: a port forwards early only on the word of a neighbour
\* whose other ports wait.
NoLoop == losses = 0 => Acyclic

\* Lost BPDUs and broken cables leave no trace: in the end there is a tree, with one root.
Converges == <>[](Acyclic /\ Connected /\ RootKnown)
=============================================================================
