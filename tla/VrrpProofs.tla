------------------------------ MODULE VrrpProofs ------------------------------
(***************************************************************************)
(* Vrrp.Spec keeps TypeOK and Ticking, for any routers, priorities and       *)
(* intervals.  Ticking alone is not inductive: a session that hears a        *)
(* goodbye waits for skew_time, which must not exceed master_down_int, and    *)
(* mc_down_cnt stays in range because it is set when the circuit comes up.    *)
(* CircuitHonoured speaks of what MCVrrp observes, so it is proved of MCSpec,  *)
(* for any number of events.                                                *)
(***************************************************************************)
EXTENDS MCVrrp, TLAPS

\* What holds of a session whatever its interface does.
Sound(s) ==
    /\ s \in Session
    /\ s.mc_status => s.mc_down_cnt >= 1
    /\ s.admin => s.skew_time <= s.master_down_int

\* What holds of a session on an interface that runs or does not.
Safe(s, running) ==
    s.state # "INIT" =>
        /\ running /\ s.admin
        /\ s.timer \in 0..(IF s.state = "MASTER" THEN s.adv_int ELSE s.master_down_int)

Good(h, running) ==
    /\ Sound(h.sess) /\ Safe(h.sess, running)
    /\ h.sent = <<>> \/ \E p \in 0..255 : h.sent = <<p>>

IInv == TypeOK /\ \A r \in Router : Sound(sess[r]) /\ Safe(sess[r], up[r])

----------------------------------------------------------------------------

\* The fields of a session, and that it stays one when a field is set to a value of it.
LEMMA Fields ==
    ASSUME NEW s \in Session
    PROVE  /\ DOMAIN s = {"state", "admin", "owner", "preempt", "prio",
                         "conf_prio", "adv_int", "skew_time", "master_down_int", "timer",
                         "monitor", "mc_status", "mc_down_cnt"}
           /\ s.state \in {"INIT", "BACKUP", "MASTER"}
           /\ s.admin \in BOOLEAN
           /\ s.owner \in BOOLEAN
           /\ s.preempt \in BOOLEAN
           /\ s.prio \in 0..255
           /\ s.conf_prio \in {Unset} \cup 0..255
           /\ s.adv_int \in 1..255
           /\ s.skew_time \in {0, 1}
           /\ s.master_down_int \in 0..766
           /\ s.timer \in Int
           /\ s.monitor \in BOOLEAN
           /\ s.mc_status \in BOOLEAN
           /\ s.mc_down_cnt \in -1..2
BY DEF Session

LEMMA Set_state == ASSUME NEW s \in Session, NEW x \in {"INIT", "BACKUP", "MASTER"} PROVE [s EXCEPT !.state = x] \in Session
BY DEF Session, Unset

LEMMA Set_admin == ASSUME NEW s \in Session, NEW x \in BOOLEAN PROVE [s EXCEPT !.admin = x] \in Session
BY DEF Session, Unset

LEMMA Set_owner == ASSUME NEW s \in Session, NEW x \in BOOLEAN PROVE [s EXCEPT !.owner = x] \in Session
BY DEF Session, Unset

LEMMA Set_preempt == ASSUME NEW s \in Session, NEW x \in BOOLEAN PROVE [s EXCEPT !.preempt = x] \in Session
BY DEF Session, Unset

LEMMA Set_prio == ASSUME NEW s \in Session, NEW x \in 0..255 PROVE [s EXCEPT !.prio = x] \in Session
BY DEF Session, Unset

LEMMA Set_conf_prio == ASSUME NEW s \in Session, NEW x \in {Unset} \cup 0..255 PROVE [s EXCEPT !.conf_prio = x] \in Session
BY DEF Session, Unset

LEMMA Set_adv_int == ASSUME NEW s \in Session, NEW x \in 1..255 PROVE [s EXCEPT !.adv_int = x] \in Session
BY DEF Session, Unset

LEMMA Set_skew_time == ASSUME NEW s \in Session, NEW x \in {0, 1} PROVE [s EXCEPT !.skew_time = x] \in Session
BY DEF Session, Unset

LEMMA Set_master_down_int == ASSUME NEW s \in Session, NEW x \in 0..766 PROVE [s EXCEPT !.master_down_int = x] \in Session
BY DEF Session, Unset

LEMMA Set_timer == ASSUME NEW s \in Session, NEW x \in Int PROVE [s EXCEPT !.timer = x] \in Session
BY DEF Session, Unset

LEMMA Set_monitor == ASSUME NEW s \in Session, NEW x \in BOOLEAN PROVE [s EXCEPT !.monitor = x] \in Session
BY DEF Session, Unset

LEMMA Set_mc_status == ASSUME NEW s \in Session, NEW x \in BOOLEAN PROVE [s EXCEPT !.mc_status = x] \in Session
BY DEF Session, Unset

LEMMA Set_mc_down_cnt == ASSUME NEW s \in Session, NEW x \in -1..2 PROVE [s EXCEPT !.mc_down_cnt = x] \in Session
BY SMTT(30) DEF Session, Unset

LEMMA QuietGood ==
    ASSUME NEW s, NEW running, Sound(s), Safe(s, running)
    PROVE  Good(Quiet(s), running)
BY DEF Good, Quiet

LEMMA Sends ==
    ASSUME NEW t, NEW p \in 0..255, NEW running, Sound(t), Safe(t, running)
    PROVE  Good([sess |-> t, sent |-> <<p>>], running)
BY DEF Good

LEMMA SaysAsMuch ==
    ASSUME NEW g, NEW h, NEW running, Good(h, running),
           Sound(g.sess), Safe(g.sess, running), g.sent = h.sent
    PROVE  Good(g, running)
BY Zenon DEF Good

LEMMA MasterGood ==
    ASSUME NEW s, NEW running \in BOOLEAN, Sound(s), s.admin, running
    PROVE  Good(StateToMaster(s, running), running)
<1> DEFINE t == [[s EXCEPT !.state = "MASTER"] EXCEPT !.timer = s.adv_int]
<1>1. s \in Session
    BY DEF Sound
<1>2. t \in Session
    <2>1. [s EXCEPT !.state = "MASTER"] \in Session
        BY <1>1, Set_state
    <2>2. s.adv_int \in Int
        BY <1>1, Fields
    <2> QED BY <2>1, <2>2, Set_timer
<1>3. Sound(t) /\ Safe(t, running)
    BY <1>1, <1>2, Fields DEF Sound, Safe
<1>4. StateToMaster(s, running) = [sess |-> t, sent |-> <<s.prio>>]
    BY DEF StateToMaster
<1>5. s.prio \in 0..255
    BY <1>1, Fields
<1>6. Good([sess |-> t, sent |-> <<s.prio>>], running)
    BY <1>3, <1>5, Sends, Zenon
<1> QED BY <1>4, <1>6

LEMMA BackupGood ==
    ASSUME NEW s, NEW running \in BOOLEAN, Sound(s), s.admin, running
    PROVE  Sound(StateToBackup(s)) /\ Safe(StateToBackup(s), running)
<1>1. s \in Session
    BY DEF Sound
<1>2. StateToBackup(s) \in Session
    <2>1. [s EXCEPT !.state = "BACKUP"] \in Session
        BY <1>1, Set_state
    <2>2. s.master_down_int \in Int
        BY <1>1, Fields
    <2> QED BY <2>1, <2>2, Set_timer DEF StateToBackup
<1> QED BY <1>1, <1>2, Fields, SMTT(30) DEF Sound, StateToBackup, Safe

LEMMA EnableGood ==
    ASSUME NEW s, NEW running \in BOOLEAN, NEW mc \in BOOLEAN, Sound(s), Safe(s, running)
    PROVE  Good(EnableSess(s, running, mc), running)
<1>1. CASE ~(IsShutdown(s) /\ running /\ (s.monitor => mc))
    BY <1>1, QuietGood DEF EnableSess
<1>2. CASE IsShutdown(s) /\ running /\ (s.monitor => mc) /\ s.prio = OwnerPriority
    BY <1>2, MasterGood DEF EnableSess, IsShutdown
<1>3. CASE IsShutdown(s) /\ running /\ (s.monitor => mc) /\ s.prio # OwnerPriority
    BY <1>3, BackupGood, QuietGood DEF EnableSess, IsShutdown
<1> QED BY <1>1, <1>2, <1>3

LEMMA ShutdownGood ==
    ASSUME NEW s, NEW running \in BOOLEAN, NEW later, Sound(s)
    PROVE  /\ Good(ShutdownSess(s, running), later)
           /\ ShutdownSess(s, running).sess.state = "INIT"
           /\ ShutdownSess(s, running).sess.admin = s.admin
<1> DEFINE t == [s EXCEPT !.state = "INIT"]
<1>1. s \in Session /\ t \in Session
    BY Set_state DEF Sound
<1>2. Sound(t) /\ Safe(t, later) /\ t.state = "INIT" /\ t.admin = s.admin
    BY <1>1, Fields DEF Sound, Safe
<1>3. s.prio \in 0..255 /\ 0 \in 0..255
    BY <1>1, Fields
<1>4. ShutdownSess(s, running).sess = t
      /\ ShutdownSess(s, running).sent \in {<<0>>, <<>>}
    BY DEF ShutdownSess
<1> HIDE DEF t
<1> QED BY <1>2, <1>3, <1>4 DEF Good

LEMMA DisabledGood ==
    ASSUME NEW s, NEW running, Sound(s), s.state = "INIT"
    PROVE  /\ Sound([s EXCEPT !.admin = FALSE])
           /\ Safe([s EXCEPT !.admin = FALSE], running)
<1>1. s \in Session /\ [s EXCEPT !.admin = FALSE] \in Session
    BY Set_admin, Zenon DEF Sound
<1> QED BY <1>1, Fields DEF Sound, Safe

LEMMA PrioBounds ==
    ASSUME NEW s \in Session
    PROVE  FullPrio(s) \in 0..255 /\ AdjustPriority(s) \in 0..255
<1>1. s.conf_prio \in {Unset} \cup 0..255
    BY Fields
<1>2. DefaultPrio(s) \in 0..255
    BY DEF DefaultPrio, OwnerPriority, DefaultPriority
<1>3. FullPrio(s) \in 0..255
    BY <1>1, <1>2 DEF FullPrio
<1>4. PriorityDelta \in 0..255
    BY PriorityAssumption
<1>5. \A f, d \in 0..255 : (IF f >= d THEN f - d ELSE 0) \in 0..255
    OBVIOUS
<1> QED BY <1>3, <1>4, <1>5, Zenon DEF AdjustPriority

LEMMA MonitorGood ==
    ASSUME NEW s, NEW running, NEW mc \in BOOLEAN, Sound(s), Safe(s, running)
    PROVE  /\ Sound(MonitorCircuit(s, mc).sess) /\ Safe(MonitorCircuit(s, mc).sess, running)
           /\ MonitorCircuit(s, mc).sess.state = s.state
<1> DEFINE S == MonitorCircuit(s, mc).sess
<1>0. s \in Session /\ FullPrio(s) \in 0..255 /\ AdjustPriority(s) \in 0..255
    BY PrioBounds DEF Sound
<1>1. CASE ~s.monitor \/ s.mc_status = mc
    BY <1>1 DEF MonitorCircuit
<1>2. CASE ~(~s.monitor \/ s.mc_status = mc) /\ mc
    <2> DEFINE s1 == [s EXCEPT !.mc_status = TRUE]
    <2> DEFINE s2 == [s1 EXCEPT !.mc_down_cnt = 2]
    <2>1. S = [s2 EXCEPT !.prio = FullPrio(s)]
        BY <1>2 DEF MonitorCircuit
    <2>2. s1 \in Session
        BY <1>0, Set_mc_status
    <2>3. s2 \in Session
        <3>1. 2 \in -1..2
            OBVIOUS
        <3> HIDE DEF s1
        <3> QED BY <2>2, <3>1, Set_mc_down_cnt
    <2>4. S \in Session
        BY <2>1, <2>3, <1>0, Set_prio, Zenon
    <2> HIDE DEF S
    <2>5. S.mc_down_cnt = 2 /\ S.state = s.state /\ S.admin = s.admin /\ S.timer = s.timer
          /\ S.adv_int = s.adv_int /\ S.skew_time = s.skew_time
          /\ S.master_down_int = s.master_down_int
        BY <1>0, <2>1, Fields
    <2>6. Sound(S) /\ Safe(S, running)
        BY <2>4, <2>5 DEF Sound, Safe
    <2> QED BY <2>5, <2>6 DEF S
<1>3. CASE ~(~s.monitor \/ s.mc_status = mc) /\ ~mc /\ s.mc_down_cnt > 1
    <2>1. S = [s EXCEPT !.mc_down_cnt = s.mc_down_cnt - 1]
        BY <1>3 DEF MonitorCircuit
    <2>2. s.mc_down_cnt - 1 \in 1..1
        BY <1>0, <1>3, Fields
    <2>3. S \in Session
        <3>1. s.mc_down_cnt - 1 \in -1..2
            BY <2>2
        <3> HIDE DEF S
        <3> QED BY <1>0, <2>1, <3>1, Set_mc_down_cnt
    <2> HIDE DEF S
    <2>4. S.mc_down_cnt = 1 /\ S.state = s.state /\ S.admin = s.admin /\ S.timer = s.timer
          /\ S.adv_int = s.adv_int /\ S.skew_time = s.skew_time
          /\ S.master_down_int = s.master_down_int
        BY <1>0, <2>1, <2>2, Fields
    <2>5. Sound(S) /\ Safe(S, running)
        BY <2>3, <2>4 DEF Sound, Safe
    <2> QED BY <2>4, <2>5 DEF S
<1>4. CASE ~(~s.monitor \/ s.mc_status = mc) /\ ~mc /\ ~(s.mc_down_cnt > 1)
    <2> DEFINE s1 == [s EXCEPT !.mc_down_cnt = s.mc_down_cnt - 1]
    <2> DEFINE s2 == [s1 EXCEPT !.mc_status = FALSE]
    <2>1. S = [s2 EXCEPT !.prio = AdjustPriority(s)]
        BY <1>4 DEF MonitorCircuit
    <2>2. s.mc_status
        BY <1>0, <1>4, Fields
    <2>3. s.mc_down_cnt - 1 \in -1..2
        BY <1>0, <1>4, <2>2, Fields DEF Sound
    <2>4. s1 \in Session
        BY <1>0, <2>3, Set_mc_down_cnt
    <2>5. s2 \in Session
        BY <2>4, Set_mc_status
    <2>6. S \in Session
        BY <2>1, <2>5, <1>0, Set_prio, Zenon
    <2> HIDE DEF S
    <2>7. S.mc_status = FALSE /\ S.state = s.state /\ S.admin = s.admin /\ S.timer = s.timer
          /\ S.adv_int = s.adv_int /\ S.skew_time = s.skew_time
          /\ S.master_down_int = s.master_down_int
        BY <1>0, <2>1, Fields
    <2>8. Sound(S) /\ Safe(S, running)
        BY <2>6, <2>7 DEF Sound, Safe
    <2> QED BY <2>7, <2>8 DEF S
<1> QED BY <1>1, <1>2, <1>3, <1>4

LEMMA CountDownGood ==
    ASSUME NEW s, NEW running \in BOOLEAN, Sound(s), Safe(s, running), s.state # "INIT"
    PROVE  Good(CountDown(s, running), running)
<1> DEFINE less == [s EXCEPT !.timer = s.timer - 1]
<1>0. s \in Session /\ s.timer - 1 \in Int
    BY Fields DEF Sound
<1>1. less \in Session
    BY <1>0, Set_timer
<1>2. Sound(less) /\ less.admin /\ less.timer = s.timer - 1 /\ less.state = s.state
    BY <1>0, <1>1, Fields DEF Sound, Safe
<1>3. CASE less.timer > 0
    <2>1. Safe(less, running)
        BY <1>0, <1>2, <1>3, Fields, SMTT(30) DEF Safe
    <2>2. CountDown(s, running) = Quiet(less)
        BY <1>3 DEF CountDown
    <2> QED BY <2>1, <2>2, <1>2, QuietGood
<1>4. CASE ~(less.timer > 0) /\ s.state = "BACKUP"
    <2>1. running BY DEF Safe
    <2>2. CountDown(s, running) = StateToMaster(less, running)
        BY <1>4, <1>2 DEF CountDown
    <2> HIDE DEF less
    <2> QED BY <1>2, <2>1, <2>2, MasterGood
<1>5. CASE ~(less.timer > 0) /\ s.state # "BACKUP"
    <2> DEFINE again == [s EXCEPT !.timer = s.adv_int]
    <2>1. s.state = "MASTER" /\ s.prio \in 0..255 /\ s.adv_int \in 1..255
        BY <1>0, <1>5, Fields
    <2>2. again \in Session
        BY <1>0, <2>1, Set_timer
    <2>3. Sound(again) /\ Safe(again, running)
        BY <1>0, <2>1, <2>2, Fields DEF Sound, Safe
    <2>4. CountDown(s, running) = [sess |-> again, sent |-> <<s.prio>>]
        BY <1>5, <1>2 DEF CountDown
    <2> QED BY <2>1, <2>3, <2>4 DEF Good
<1> QED BY <1>3, <1>4, <1>5

LEMMA TimerGood ==
    ASSUME NEW s, NEW running \in BOOLEAN, NEW mc \in BOOLEAN, Sound(s), Safe(s, running)
    PROVE  Good(SessTimer(s, running, mc), running)
<1> DEFINE seen == MonitorCircuit(s, mc)
<1>1. Sound(seen.sess) /\ Safe(seen.sess, running) /\ seen.sess.state = s.state
    BY MonitorGood
<1>2. SessTimer(s, running, mc) =
          CASE s.state = "INIT" /\ seen.news = "UP" -> EnableSess(seen.sess, running, mc)
            [] s.state = "INIT" /\ seen.news # "UP" -> Quiet(seen.sess)
            [] s.state # "INIT" /\ seen.news = "DOWN" -> ShutdownSess(seen.sess, running)
            [] s.state # "INIT" /\ seen.news # "DOWN" -> CountDown(seen.sess, running)
    BY DEF SessTimer
<1> HIDE DEF seen
<1>3. CASE s.state = "INIT" /\ seen.news = "UP"
    BY <1>1, <1>2, <1>3, EnableGood
<1>4. CASE s.state = "INIT" /\ seen.news # "UP"
    BY <1>1, <1>2, <1>4, QuietGood
<1>5. CASE s.state # "INIT" /\ seen.news = "DOWN"
    BY <1>1, <1>2, <1>5, ShutdownGood
<1>6. CASE s.state # "INIT" /\ seen.news # "DOWN"
    BY <1>1, <1>2, <1>6, CountDownGood
<1> QED BY <1>3, <1>4, <1>5, <1>6

LEMMA AdvertGood ==
    ASSUME NEW r \in Router, NEW s, NEW running \in BOOLEAN, NEW m \in Advert,
           Sound(s), Safe(s, running)
    PROVE  Sound(HandleAdvert(r, s, m)) /\ Safe(HandleAdvert(r, s, m), running)
<1>0. s \in Session
    BY DEF Sound
<1>1. CASE s.state = "INIT" \/ m.adv_int # s.adv_int
    BY <1>1 DEF HandleAdvert
<1>2. CASE ~(s.state = "INIT" \/ m.adv_int # s.adv_int) /\ s.state = "BACKUP"
    <2> DEFINE soon == [s EXCEPT !.timer = s.skew_time]
    <2> DEFINE late == [s EXCEPT !.timer = s.master_down_int]
    <2>1. Waits(s, m) \in {s, soon, late}
        BY DEF Waits
    <2>2. soon \in Session /\ late \in Session
        <3>1. s.skew_time \in Int /\ s.master_down_int \in Int
            BY <1>0, Fields
        <3> QED BY <1>0, <3>1, Set_timer, Zenon
    <2>3. s.skew_time \in 0..s.master_down_int
        BY <1>0, <1>2, Fields DEF Sound, Safe
    <2>4. Sound(soon) /\ Safe(soon, running) /\ Sound(late) /\ Safe(late, running)
        BY <1>0, <1>2, <2>2, <2>3, Fields DEF Sound, Safe
    <2>5. HandleAdvert(r, s, m) = Waits(s, m)
        BY <1>2 DEF HandleAdvert
    <2> HIDE DEF soon, late
    <2> QED BY <2>1, <2>4, <2>5
<1>3. CASE ~(s.state = "INIT" \/ m.adv_int # s.adv_int) /\ s.state # "BACKUP"
    <2>1. s.admin /\ running
        BY <1>3 DEF Safe
    <2>2. HandleAdvert(r, s, m) \in {s, StateToBackup(s)}
        BY <1>3 DEF HandleAdvert
    <2>3. Sound(StateToBackup(s)) /\ Safe(StateToBackup(s), running)
        BY <2>1, BackupGood, Zenon
    <2> QED BY <2>2, <2>3, Zenon
<1> QED BY <1>1, <1>2, <1>3

----------------------------------------------------------------------------
(* What the actions do to the group.                                        *)

\* What r sends is advertisements, whoever gets them.
LEMMA MulticastType ==
    ASSUME IInv, NEW r \in Router, NEW h, NEW running, Good(h, running)
    PROVE  Multicast(r, h) \in [Router -> Seq(Advert)]
<1>1. h.sess.adv_int \in 1..255
    <2>1. h.sess \in Session
        BY DEF Good, Sound
    <2> QED BY <2>1, Fields, SMTT(30)
<1> DEFINE said == [i \in DOMAIN h.sent |->
                      [from |-> r, prio |-> h.sent[i], adv_int |-> h.sess.adv_int]]
<1>2. said \in Seq(Advert)
    <2>1. PICK n \in {0, 1} : DOMAIN h.sent = 1..n /\ \A i \in 1..n : h.sent[i] \in 0..255
        <3>1. CASE h.sent = <<>>
            <4>1. DOMAIN h.sent = 1..0 /\ \A i \in 1..0 : h.sent[i] \in 0..255
                BY <3>1
            <4> QED BY <4>1
        <3>2. ASSUME NEW p \in 0..255, h.sent = <<p>>
              PROVE  DOMAIN h.sent = 1..1 /\ \A i \in 1..1 : h.sent[i] \in 0..255
            BY <3>2
        <3> QED BY <3>1, <3>2, Zenon DEF Good
    <2>2. DOMAIN said = 1..n /\ \A i \in 1..n : said[i] \in Advert
        BY <1>1, <2>1 DEF Advert
    <2>3. said = [i \in 1..n |-> said[i]]
        BY <2>1
    <2>4. n \in Nat
        OBVIOUS
    <2> HIDE DEF said
    <2> QED BY <2>2, <2>3, <2>4
<1>3. Multicast(r, h) = [q \in Router |-> IF q = r \/ ~up[q] THEN inbox[q] ELSE inbox[q] \o said]
    BY DEF Multicast
<1> HIDE DEF said
<1>4. inbox \in [Router -> Seq(Advert)]
    BY DEF IInv, TypeOK
<1>5. \A q \in Router : inbox[q] \in Seq(Advert) /\ inbox[q] \o said \in Seq(Advert)
    BY <1>2, <1>4
<1> QED BY <1>3, <1>5

\* A handler that leaves a good session leaves a good group.
LEMMA DoesGood ==
    ASSUME IInv, NEW r \in Router, NEW h, Does(r, h), Good(h, up'[r]),
           up' \in [Router -> BOOLEAN], \A q \in Router \ {r} : up'[q] = up[q],
           circuit' = circuit, ticked' \subseteq Router
    PROVE  IInv'
<1>1. sess' = [sess EXCEPT ![r] = h.sess] /\ inbox' = Multicast(r, h)
    BY DEF Does
<1>2. inbox' \in [Router -> Seq(Advert)]
    BY <1>1, MulticastType, SMTT(30)
<1>3. Sound(h.sess) /\ h.sess \in Session /\ Safe(h.sess, up'[r])
    BY DEF Good, Sound
<1>4. TypeOK'
    BY <1>1, <1>2, <1>3 DEF IInv, TypeOK
<1>5. \A q \in Router : Sound(sess'[q]) /\ Safe(sess'[q], up'[q])
    BY <1>1, <1>3 DEF IInv, TypeOK
<1> QED BY <1>4, <1>5 DEF IInv, Sound, Safe

\* Nor does a command that leaves a sound session that does not run.
LEMMA ConfiguresGood ==
    ASSUME IInv, NEW r \in Router, NEW s, Configures(r, s), Sound(s), s.state = "INIT"
    PROVE  IInv'
<1>1. sess' = [sess EXCEPT ![r] = s] /\ UNCHANGED <<up, circuit, inbox, ticked>>
    BY DEF Configures
<1>2. s \in Session /\ \A running : Safe(s, running)
    BY DEF Sound, Safe
<1>3. TypeOK'
    BY <1>1, <1>2 DEF IInv, TypeOK
<1>4. \A q \in Router : Sound(sess'[q]) /\ Safe(sess'[q], up'[q])
    BY <1>1, <1>2 DEF IInv, TypeOK
<1> QED BY <1>3, <1>4 DEF IInv, Sound, Safe

LEMMA ClockKeeps ==
    ASSUME IInv, ClockStep
    PROVE  IInv'
<1>1. CASE NextSecond
    BY <1>1 DEF NextSecond, IInv, TypeOK, Sound, Safe
<1>2. ASSUME NEW r \in Router, Tick(r) PROVE IInv'
    <2>1. Good(SessTimer(sess[r], up[r], circuit[r]), up[r])
        BY TimerGood DEF IInv, TypeOK
    <2>2. up' = up /\ circuit' = circuit /\ ticked' \subseteq Router
          /\ Does(r, SessTimer(sess[r], up[r], circuit[r]))
        BY <1>2 DEF Tick, IInv, TypeOK
    <2> QED BY <2>1, <2>2, DoesGood DEF IInv, TypeOK
<1>3. ASSUME NEW r \in Router, Receive(r) PROVE IInv'
    <2>1. inbox \in [Router -> Seq(Advert)] /\ inbox[r] \in Seq(Advert) /\ inbox[r] # <<>>
        BY <1>3 DEF Receive, IInv, TypeOK
    <2>2. Head(inbox[r]) \in Advert /\ Tail(inbox[r]) \in Seq(Advert)
        BY <2>1
    <2> DEFINE s == HandleAdvert(r, sess[r], Head(inbox[r]))
    <2>3. Sound(s) /\ Safe(s, up[r])
        BY <2>2, AdvertGood DEF IInv, TypeOK
    <2>4. /\ sess' = [sess EXCEPT ![r] = s] /\ inbox' = [inbox EXCEPT ![r] = Tail(inbox[r])]
          /\ UNCHANGED <<up, circuit, ticked>>
        BY <1>3 DEF Receive
    <2> HIDE DEF s
    <2>5. inbox' \in [Router -> Seq(Advert)]
        BY <2>1, <2>2, <2>4
    <2>6. TypeOK'
        BY <2>3, <2>4, <2>5 DEF IInv, TypeOK, Sound
    <2>7. \A q \in Router : Sound(sess'[q]) /\ Safe(sess'[q], up'[q])
        BY <2>3, <2>4 DEF IInv, TypeOK
    <2> QED BY <2>6, <2>7 DEF IInv, Sound, Safe
<1> QED BY <1>1, <1>2, <1>3 DEF ClockStep

LEMMA FaultKeeps ==
    ASSUME IInv, FaultStep
    PROVE  IInv'
<1>1. ASSUME NEW r \in Router, Lose(r) PROVE IInv'
    <2>1. inbox \in [Router -> Seq(Advert)] /\ inbox[r] \in Seq(Advert) /\ inbox[r] # <<>>
        BY <1>1 DEF Lose, IInv, TypeOK
    <2>2. inbox' \in [Router -> Seq(Advert)]
        BY <2>1, <1>1 DEF Lose
    <2> QED BY <2>2, <1>1 DEF Lose, IInv, TypeOK, Sound, Safe
<1>2. ASSUME NEW r \in Router, IfDown(r) PROVE IInv'
    <2> DEFINE s == ShutdownSess(sess[r], FALSE).sess
    <2>1. Sound(s) /\ Safe(s, FALSE)
        BY ShutdownGood, ZenonT(60) DEF IInv, Good
    <2>2. /\ sess' = [sess EXCEPT ![r] = s] /\ inbox' = [inbox EXCEPT ![r] = <<>>]
          /\ up' = [up EXCEPT ![r] = FALSE] /\ UNCHANGED <<circuit, ticked>>
        BY <1>2 DEF IfDown
    <2> HIDE DEF s
    <2>3. TypeOK'
        BY <2>1, <2>2 DEF IInv, TypeOK, Sound
    <2>4. \A q \in Router : Sound(sess'[q]) /\ Safe(sess'[q], up'[q])
        BY <2>1, <2>2 DEF IInv, TypeOK
    <2> QED BY <2>3, <2>4 DEF IInv, Sound, Safe
<1>3. ASSUME NEW r \in Router, IfUp(r) PROVE IInv'
    <2>1. Safe(sess[r], TRUE) /\ Sound(sess[r])
        BY <1>3 DEF IInv, Safe, IfUp
    <2>2. Good(EnableSess(sess[r], TRUE, circuit[r]), TRUE)
        BY <2>1, EnableGood DEF IInv, TypeOK
    <2>3. /\ up' = [up EXCEPT ![r] = TRUE] /\ circuit' = circuit /\ ticked' = ticked
          /\ Does(r, EnableSess(sess[r], TRUE, circuit[r]))
        BY <1>3 DEF IfUp
    <2>4. up' \in [Router -> BOOLEAN] /\ up'[r] = TRUE /\ ticked' \subseteq Router
          /\ \A q \in Router \ {r} : up'[q] = up[q]
        BY <2>3 DEF IInv, TypeOK
    <2> QED BY <2>2, <2>3, <2>4, DoesGood
<1>4. ASSUME NEW r \in Router, CircuitChange(r) PROVE IInv'
    <2>1. circuit' \in [Router -> BOOLEAN]
        BY <1>4 DEF CircuitChange, IInv, TypeOK
    <2> QED BY <2>1, <1>4 DEF CircuitChange, IInv, TypeOK, Sound, Safe
<1> QED BY <1>1, <1>2, <1>3, <1>4 DEF FaultStep

\* One command at a time; a session that is configured is sound and stays so.
LEMMA CommandKeeps ==
    ASSUME IInv, CommandStep
    PROVE  IInv'
<1>0. \A r \in Router : Sound(sess[r]) /\ sess[r] \in Session
    BY DEF IInv, Sound
<1>1. ASSUME NEW r \in Router, NEW p \in Priority \cup {OwnerPriority}, SetPriority(r, p)
      PROVE  IInv'
    <2> DEFINE s1 == [sess[r] EXCEPT !.prio = p]
    <2> DEFINE s2 == [s1 EXCEPT !.conf_prio = p]
    <2>1. p \in 0..255
        BY PriorityAssumption DEF OwnerPriority
    <2>2. s1 \in Session
        BY <1>0, <2>1, Set_prio, Zenon
    <2>3. s2 \in Session
        <3> HIDE DEF s1
        <3> QED BY <2>1, <2>2, Set_conf_prio, Zenon
    <2>4. Configures(r, s2) /\ sess[r].state = "INIT"
        BY <1>1 DEF SetPriority, Configures
    <2>5. Sound(s2) /\ s2.state = "INIT"
        BY <1>0, <2>3, <2>4, Fields, SMTT(30) DEF Sound
    <2> HIDE DEF s2
    <2> QED BY <2>4, <2>5, ConfiguresGood
<1>2. ASSUME NEW r \in Router, NEW i \in Interval, AdvtInterval(r, i) PROVE IInv'
    <2> DEFINE s == [sess[r] EXCEPT !.adv_int = i]
    <2>1. s \in Session
        BY <1>0, IntervalAssumption, Set_adv_int, Zenon
    <2>2. Configures(r, s) /\ sess[r].state = "INIT"
        BY <1>2 DEF AdvtInterval, Configures
    <2>3. Sound(s) /\ s.state = "INIT"
        BY <1>0, <2>1, <2>2, Fields DEF Sound
    <2> HIDE DEF s
    <2> QED BY <2>2, <2>3, ConfiguresGood
<1>3. ASSUME NEW r \in Router, NEW b \in BOOLEAN, PreemptMode(r, b) PROVE IInv'
    <2> DEFINE s == [sess[r] EXCEPT !.preempt = b]
    <2>1. s \in Session
        BY <1>0, Set_preempt
    <2>2. Configures(r, s) /\ sess[r].state = "INIT"
        BY <1>3 DEF PreemptMode, Configures
    <2>3. Sound(s) /\ s.state = "INIT"
        BY <1>0, <2>1, <2>2, Fields DEF Sound
    <2> HIDE DEF s
    <2> QED BY <2>2, <2>3, ConfiguresGood
<1>4. ASSUME NEW r \in Router, NEW b \in BOOLEAN, VirtualIp(r, b) PROVE IInv'
    <2> DEFINE s == [sess[r] EXCEPT !.owner = b]
    <2> DEFINE own == [s EXCEPT !.prio = OwnerPriority]
    <2> DEFINE other1 == [s EXCEPT !.prio = DefaultPriority]
    <2> DEFINE other == [other1 EXCEPT !.conf_prio = DefaultPriority]
    <2>1. OwnerPriority \in 0..255 /\ DefaultPriority \in 0..255
        BY DEF OwnerPriority, DefaultPriority
    <2>2. s \in Session
        BY <1>0, Set_owner, SMTT(30)
    <2>3. own \in Session /\ other1 \in Session
        <3> HIDE DEF s
        <3> QED BY <2>1, <2>2, Set_prio, ZenonT(60)
    <2>4. other \in Session
        <3> HIDE DEF other1
        <3> QED BY <2>1, <2>3, Set_conf_prio, Zenon
    <2>5. sess[r].state = "INIT"
        BY <1>4 DEF VirtualIp, Configures
    <2>6. /\ Sound(s) /\ s.state = "INIT" /\ Sound(own) /\ own.state = "INIT"
          /\ Sound(other) /\ other.state = "INIT"
        BY <1>0, <2>2, <2>3, <2>4, <2>5, Fields DEF Sound
    <2>7. Configures(r, own) \/ Configures(r, other) \/ Configures(r, s)
        BY <1>4 DEF VirtualIp
    <2> HIDE DEF s, own, other1, other
    <2> QED BY <2>6, <2>7, ConfiguresGood
<1>5. ASSUME NEW r \in Router, UnsetPriority(r) PROVE IInv'
    <2> DEFINE s == [sess[r] EXCEPT !.prio = DefaultPrio(sess[r])]
    <2>1. s \in Session
        <3>1. DefaultPrio(sess[r]) \in 0..255
            BY DEF DefaultPrio, OwnerPriority, DefaultPriority
        <3> QED BY <1>0, <3>1, Set_prio, Zenon
    <2>2. Configures(r, s) /\ sess[r].state = "INIT"
        BY <1>5 DEF UnsetPriority, Configures
    <2>3. Sound(s) /\ s.state = "INIT"
        BY <1>0, <2>1, <2>2, Fields DEF Sound
    <2> HIDE DEF s
    <2> QED BY <2>2, <2>3, ConfiguresGood, SMTT(30)
<1>6. ASSUME NEW r \in Router, MonitoredCircuit(r) PROVE IInv'
    <2> DEFINE s1 == [sess[r] EXCEPT !.monitor = TRUE]
    <2> DEFINE s2 == [s1 EXCEPT !.mc_status = FALSE]
    <2>1. s1 \in Session
        BY <1>0, Set_monitor
    <2>2. s2 \in Session
        <3> HIDE DEF s1
        <3> QED BY <2>1, Set_mc_status
    <2>3. Configures(r, s2) /\ sess[r].state = "INIT"
        BY <1>6 DEF MonitoredCircuit, Configures
    <2>4. Sound(s2) /\ s2.state = "INIT"
        BY <1>0, <2>2, <2>3, Fields DEF Sound
    <2> HIDE DEF s2
    <2> QED BY <2>3, <2>4, ConfiguresGood
<1>7. ASSUME NEW r \in Router, UnsetMonitoredCircuit(r) PROVE IInv'
    <2> DEFINE s1 == [sess[r] EXCEPT !.monitor = FALSE]
    <2> DEFINE s2 == [s1 EXCEPT !.mc_status = FALSE]
    <2> DEFINE s3 == [s2 EXCEPT !.mc_down_cnt = 2]
    <2>1. s1 \in Session
        BY <1>0, Set_monitor
    <2>2. s2 \in Session
        <3> HIDE DEF s1
        <3> QED BY <2>1, Set_mc_status
    <2>3. s3 \in Session
        <3>1. 2 \in -1..2
            OBVIOUS
        <3> HIDE DEF s2
        <3> QED BY <2>2, <3>1, Set_mc_down_cnt
    <2>4. Configures(r, s3) /\ sess[r].state = "INIT"
        BY <1>7 DEF UnsetMonitoredCircuit, Configures
    <2>5. Sound(s3) /\ s3.state = "INIT"
        BY <1>0, <2>3, <2>4, Fields DEF Sound
    <2> HIDE DEF s3
    <2> QED BY <2>4, <2>5, ConfiguresGood
<1>8. ASSUME NEW r \in Router, EnableSession(r) PROVE IInv'
    <2> DEFINE skew == IF sess[r].prio > 128 THEN 0 ELSE 1
    <2> DEFINE down == 3 * sess[r].adv_int + skew
    <2> DEFINE s1 == [sess[r] EXCEPT !.admin = TRUE]
    <2> DEFINE s2 == [s1 EXCEPT !.skew_time = skew]
    <2> DEFINE s3 == [s2 EXCEPT !.master_down_int = down]
    <2>1. skew \in {0, 1} /\ sess[r].adv_int \in 1..255
        BY <1>0, Fields
    <2>2. down \in 0..766 /\ skew <= down
        <3> HIDE DEF skew
        <3> QED BY <2>1, SMTT(30)
    <2>3. s1 \in Session
        BY <1>0, Set_admin
    <2>4. s2 \in Session
        <3> HIDE DEF s1, skew
        <3> QED BY <2>1, <2>3, Set_skew_time
    <2>5. s3 \in Session
        <3> HIDE DEF s2, down
        <3> QED BY <2>2, <2>4, Set_master_down_int, ZenonT(60)
    <2>6. ~sess[r].admin /\ Does(r, EnableSess(s3, up[r], circuit[r]))
          /\ UNCHANGED <<up, circuit, ticked>>
        BY <1>8 DEF EnableSession
    <2>7. sess[r].state = "INIT"
        BY <2>6 DEF IInv, Safe
    <2>8. s3.state = "INIT" /\ s3.mc_status = sess[r].mc_status
          /\ s3.mc_down_cnt = sess[r].mc_down_cnt /\ s3.skew_time = skew
          /\ s3.master_down_int = down
        <3> HIDE DEF skew, down
        <3> QED BY <1>0, <2>7, Fields
    <2> HIDE DEF skew, down, s1, s2, s3
    <2>9. Sound(s3) /\ Safe(s3, up[r])
        BY <1>0, <2>2, <2>5, <2>8 DEF Sound, Safe
    <2>10. Good(EnableSess(s3, up[r], circuit[r]), up[r])
        BY <2>9, EnableGood DEF IInv, TypeOK
    <2>11. up' = up /\ circuit' = circuit /\ ticked' \subseteq Router /\ up \in [Router -> BOOLEAN]
        BY <2>6 DEF IInv, TypeOK
    <2> QED BY <2>6, <2>10, <2>11, DoesGood
<1>9. ASSUME NEW r \in Router, DisableSession(r) PROVE IInv'
    <2> DEFINE h == ShutdownSess(sess[r], up[r])
    <2> DEFINE s == [h.sess EXCEPT !.admin = FALSE]
    <2> DEFINE g == [h EXCEPT !.sess.admin = FALSE]
    <2>1. Good(h, up[r]) /\ h.sess.state = "INIT"
        BY <1>0, ShutdownGood, ZenonT(60) DEF IInv, TypeOK
    <2>2. g.sess = s /\ g.sent = h.sent
        BY DEF ShutdownSess
    <2>3. Does(r, g) /\ UNCHANGED <<up, circuit, ticked>>
        BY <1>9, SMTT(30) DEF DisableSession
    <2> HIDE DEF h
    <2>4. Sound(s) /\ Safe(s, up[r])
        BY <2>1, DisabledGood DEF Good
    <2>5. Sound(g.sess) /\ Safe(g.sess, up[r]) /\ g.sent = h.sent
        <3> HIDE DEF s, g
        <3> QED BY <2>2, <2>4
    <2> HIDE DEF s, g
    <2>6. Good(g, up[r])
        BY <2>1, <2>5, SaysAsMuch
    <2>7. up' = up /\ circuit' = circuit /\ ticked' \subseteq Router /\ up \in [Router -> BOOLEAN]
        BY <2>3 DEF IInv, TypeOK
    <2> QED BY <2>3, <2>6, <2>7, DoesGood
<1> QED BY <1>1, <1>2, <1>3, <1>4, <1>5, <1>6, <1>7, <1>8, <1>9 DEF CommandStep

LEMMA InitSafe ==
    ASSUME Init
    PROVE  IInv
<1>1. Created \in Session
    BY DEF Created, Session, DefaultPriority, DefaultInterval, Unset
<1>2. Sound(Created) /\ \A running : Safe(Created, running)
    BY <1>1 DEF Sound, Safe, Created
<1>3. TypeOK
    BY <1>1 DEF Init, TypeOK
<1> QED BY <1>2, <1>3 DEF Init, IInv

\* The strengthened invariant holds in every behaviour.
THEOREM Safety == Spec => []IInv
<1>1. Init => IInv
    BY InitSafe
<1>2. IInv /\ [Next]_vars => IInv'
    <2>1. ASSUME IInv, UNCHANGED vars PROVE IInv'
        BY <2>1 DEF vars, IInv, TypeOK, Sound, Safe
    <2> QED BY <2>1, ClockKeeps, FaultKeeps, CommandKeeps DEF Next
<1> QED BY <1>1, <1>2, PTL DEF Spec

\* Every variable keeps its type, the sessions' counters and intervals theirs.
THEOREM TypeCorrect == Spec => []TypeOK
<1>1. IInv => TypeOK
    BY DEF IInv
<1> QED BY <1>1, Safety, PTL

\* A session that runs is enabled, on an interface that is up, and waits no longer than
\* the interval of its state, whatever the operator, the LAN and the interfaces do
\* (vrrp_enable_sess, vrrp_if_down, vrrp_handle_advert).
THEOREM AlwaysTicking == Spec => []Ticking
<1>1. IInv => Ticking
    BY DEF IInv, Ticking, Running, Master, Safe
<1> QED BY <1>1, Safety, PTL

----------------------------------------------------------------------------
(* The monitored circuit.                                                   *)

\* What a session knows of its circuit, given how often in a row it found it down.
Knows(b, s) ==
    /\ b \in Unseen..2
    /\ b >= 0 /\ s.mc_status => s.monitor /\ b <= 1 /\ (b = 1 => s.mc_down_cnt = 1)
    /\ b >= 0 /\ ~s.mc_status => b >= 1

\* A session that counts its circuit as down does not run.
Seen(b, s) == Knows(b, s) /\ (b >= 0 /\ ~s.mc_status => s.state = "INIT")

\* A session is left as it is but for what it does not monitor with.
Steady(s, t) == t.mc_status = s.mc_status /\ t.monitor = s.monitor /\ t.mc_down_cnt = s.mc_down_cnt

\* Nothing is newly found up, or what is monitored is no longer the same.
Still(s, t) == t.mc_status => Steady(s, t)

LEMMA EnableSteady ==
    ASSUME NEW s \in Session, NEW running, NEW mc
    PROVE  Steady(s, EnableSess(s, running, mc).sess)
BY Fields DEF Steady, EnableSess, StateToMaster, StateToBackup, Quiet

LEMMA ShutdownSteady ==
    ASSUME NEW s \in Session, NEW running
    PROVE  /\ Steady(s, ShutdownSess(s, running).sess)
           /\ ShutdownSess(s, running).sess.state = "INIT"
BY Fields DEF Steady, ShutdownSess

LEMMA CountDownSteady ==
    ASSUME NEW s \in Session, NEW running
    PROVE  Steady(s, CountDown(s, running).sess)
<1> DEFINE less == [s EXCEPT !.timer = @ - 1]
<1>1. s.timer - 1 \in Int BY Fields
<1>2. less \in Session /\ Steady(s, less) BY <1>1, Fields, Set_timer DEF Steady
<1>3. Steady(s, Quiet(less).sess) BY <1>2 DEF Quiet
<1>4. Steady(s, StateToMaster(less, running).sess)
    <2> HIDE DEF less
    <2> QED BY <1>2, Fields DEF Steady, StateToMaster, Quiet
<1>5. Steady(s, [s EXCEPT !.timer = s.adv_int]) BY Fields DEF Steady
<1>6. CountDown(s, running).sess \in
          {Quiet(less).sess, StateToMaster(less, running).sess, [s EXCEPT !.timer = s.adv_int]}
    BY DEF CountDown
<1> QED BY <1>3, <1>4, <1>5, <1>6

LEMMA AdvertSteady ==
    ASSUME NEW r, NEW s \in Session, NEW m
    PROVE  Steady(s, HandleAdvert(r, s, m))
BY Fields DEF Steady, HandleAdvert, Waits, StateToBackup

\* What an observer counts when a session looks at its circuit.
Count(b, s, mc) ==
    CASE s.monitor /\ mc -> 0
      [] ~mc /\ b # Unseen -> AtMost2(b + 1)
      [] OTHER -> b

\* The session after a look knows as much, and stops if it does not know the circuit up.
LEMMA MonitorSeen ==
    ASSUME NEW s, NEW mc \in BOOLEAN, Sound(s), NEW b, Seen(b, s)
    PROVE  LET seen == MonitorCircuit(s, mc)
               n == Count(b, s, mc)
           IN  /\ seen.sess.monitor = s.monitor
               /\ Knows(n, seen.sess)
               /\ seen.news = "UP" => seen.sess.mc_status
               /\ n >= 0 /\ ~seen.sess.mc_status => s.state = "INIT" \/ seen.news = "DOWN"
<1> DEFINE seen == MonitorCircuit(s, mc)
           u == seen.sess
           news == seen.news
           n == Count(b, s, mc)
           Goal == /\ u.monitor = s.monitor
                   /\ Knows(n, u)
                   /\ news = "UP" => u.mc_status
                   /\ n >= 0 /\ ~u.mc_status => s.state = "INIT" \/ news = "DOWN"
<1> SUFFICES Goal OBVIOUS
<1>0. s \in Session /\ FullPrio(s) \in 0..255 /\ AdjustPriority(s) \in 0..255
    BY PrioBounds DEF Sound
<1>1. CASE ~s.monitor \/ s.mc_status = mc
    <2>1. u = s /\ news = "UNCHG" BY <1>1 DEF MonitorCircuit
    <2>2. s.mc_status => s.mc_down_cnt \in 1..2 BY <1>0, Fields DEF Sound
    <2>3. CASE s.monitor /\ mc
        <3>1. n = 0 /\ s.mc_status BY <1>1, <2>3 DEF Count
        <3> HIDE DEF u, news, n
        <3> QED BY <2>1, <2>3, <3>1 DEF Knows, Unseen
    <2>4. CASE ~mc /\ b # Unseen
        <3>1. n = AtMost2(b + 1) BY <2>4 DEF Count
        <3>2. ~s.mc_status BY <1>1, <2>4 DEF Seen, Knows, Unseen
        <3>3. n \in 1..2 /\ s.state = "INIT"
            BY <2>4, <3>1, <3>2 DEF Seen, Knows, AtMost2, Unseen
        <3> HIDE DEF u, news, n
        <3> QED BY <2>1, <3>2, <3>3 DEF Knows, Unseen
    <2>5. CASE ~(s.monitor /\ mc) /\ ~(~mc /\ b # Unseen)
        <3>1. n = b BY <2>5 DEF Count
        <3> HIDE DEF u, news, n
        <3> QED BY <2>1, <3>1 DEF Seen
    <2> QED BY <2>3, <2>4, <2>5
<1>2. CASE ~(~s.monitor \/ s.mc_status = mc) /\ mc
    <2>1. /\ u = [s EXCEPT !.mc_status = TRUE, !.mc_down_cnt = 2, !.prio = FullPrio(s)]
          /\ news = "UP"
        BY <1>2 DEF MonitorCircuit
    <2>2. n = 0 BY <1>2 DEF Count
    <2> HIDE DEF u, news, n
    <2>3. s.monitor = TRUE BY <1>0, <1>2, Fields
    <2>4. u.monitor = TRUE /\ u.mc_status = TRUE
        BY <1>0, <2>1, <2>3, Fields
    <2> QED BY <2>1, <2>2, <2>3, <2>4 DEF Knows, Unseen
<1>3. CASE ~(~s.monitor \/ s.mc_status = mc) /\ ~mc /\ s.mc_down_cnt > 1
    <2>1. u = [s EXCEPT !.mc_down_cnt = s.mc_down_cnt - 1] /\ news = "UNCHG"
        BY <1>3 DEF MonitorCircuit
    <2>2. s.mc_status = TRUE /\ s.monitor = TRUE /\ s.mc_down_cnt - 1 = 1 BY <1>0, <1>3, Fields
    <2>3. n \in {Unseen, 1}
        BY <1>3, <2>2 DEF Seen, Knows, Count, AtMost2, Unseen
    <2> HIDE DEF u, news, n
    <2>4. u.monitor = TRUE /\ u.mc_status = TRUE /\ u.mc_down_cnt = 1
        BY <1>0, <2>1, <2>2, Fields
    <2> QED BY <2>1, <2>2, <2>3, <2>4 DEF Knows, Unseen
<1>4. CASE ~(~s.monitor \/ s.mc_status = mc) /\ ~mc /\ ~(s.mc_down_cnt > 1)
    <2>1. /\ u = [s EXCEPT !.mc_down_cnt = s.mc_down_cnt - 1, !.mc_status = FALSE,
                           !.prio = AdjustPriority(s)]
          /\ news = "DOWN"
        BY <1>4 DEF MonitorCircuit
    <2>2. n \in {Unseen, 1, 2} BY <1>4 DEF Seen, Knows, Count, AtMost2, Unseen
    <2> HIDE DEF u, news, n
    <2>3. u.monitor = s.monitor /\ u.mc_status = FALSE
        BY <1>0, <2>1, Fields
    <2> QED BY <2>1, <2>2, <2>3 DEF Knows, Unseen
<1> QED BY <1>1, <1>2, <1>3, <1>4

LEMMA KnowsSteady ==
    ASSUME NEW b, NEW s, NEW t, Knows(b, s), Steady(s, t)
    PROVE  Knows(b, t)
BY DEF Knows, Steady

LEMMA TimerSeen ==
    ASSUME NEW s, NEW running \in BOOLEAN, NEW mc \in BOOLEAN, Sound(s), Safe(s, running),
           NEW b, Seen(b, s)
    PROVE  LET t == SessTimer(s, running, mc).sess
           IN  t.monitor = s.monitor /\ Seen(Count(b, s, mc), t)
<1> DEFINE seen == MonitorCircuit(s, mc)
           u == seen.sess
           n == Count(b, s, mc)
           t == SessTimer(s, running, mc).sess
<1>1. Sound(u) /\ u.state = s.state
    BY MonitorGood
<1>2. /\ u.monitor = s.monitor /\ Knows(n, u)
      /\ seen.news = "UP" => u.mc_status
      /\ n >= 0 /\ ~u.mc_status => s.state = "INIT" \/ seen.news = "DOWN"
    BY MonitorSeen
<1>3. SessTimer(s, running, mc) =
          CASE s.state = "INIT" /\ seen.news = "UP" -> EnableSess(u, running, mc)
            [] s.state = "INIT" /\ seen.news # "UP" -> Quiet(u)
            [] s.state # "INIT" /\ seen.news = "DOWN" -> ShutdownSess(u, running)
            [] s.state # "INIT" /\ seen.news # "DOWN" -> CountDown(u, running)
    BY DEF SessTimer
<1>4. u \in Session BY <1>1 DEF Sound
<1> HIDE DEF seen, n
<1>5. Steady(u, t) /\ (n >= 0 /\ ~u.mc_status => t.state = "INIT")
    <2>1. CASE s.state = "INIT" /\ seen.news = "UP"
        BY <1>2, <1>3, <1>4, <2>1, EnableSteady
    <2>2. CASE s.state = "INIT" /\ seen.news # "UP"
        BY <1>1, <1>3, <2>2 DEF Quiet, Steady
    <2>3. CASE s.state # "INIT" /\ seen.news = "DOWN"
        BY <1>3, <1>4, <2>3, ShutdownSteady
    <2>4. CASE s.state # "INIT" /\ seen.news # "DOWN"
        BY <1>2, <1>3, <1>4, <2>4, CountDownSteady
    <2> QED BY <2>1, <2>2, <2>3, <2>4
<1> HIDE DEF t, u
<1>6. Knows(n, t) BY <1>2, <1>5, KnowsSteady
<1>7. t.monitor = s.monitor /\ Seen(n, t)
    BY <1>2, <1>5, <1>6 DEF Steady, Seen
<1> QED BY <1>7 DEF n, t

----------------------------------------------------------------------------
(* The observers of MCVrrp watch steps of Vrrp.                             *)

MCStep == Clock \/ Fault \/ Repair

\* A step in which the session of r looks at its circuit.
Looked(r) == r \in ticked' \ ticked

LEMMA DoesSession ==
    ASSUME TypeOK, NEW r \in Router, NEW h, Does(r, h)
    PROVE  sess'[r] = h.sess /\ \A q \in Router \ {r} : sess'[q] = sess[q]
BY DEF TypeOK, Does

LEMMA TickLooks ==
    ASSUME IInv, NEW q \in Router, Tick(q), NEW r \in Router, Seen(blind[r], sess[r])
    PROVE  IF Looked(r)
           THEN /\ sess'[r].monitor = sess[r].monitor
                /\ Seen(Count(blind[r], sess[r], circuit[r]), sess'[r])
           ELSE sess'[r] = sess[r]
<1>1. Looked(r) <=> r = q BY DEF Tick, Looked, IInv, TypeOK
<1> DEFINE h == SessTimer(sess[q], up[q], circuit[q])
<1>2. Does(q, h) BY DEF Tick
<1>3. Sound(sess[q]) /\ Safe(sess[q], up[q]) /\ up[q] \in BOOLEAN /\ circuit[q] \in BOOLEAN
    BY DEF IInv, TypeOK
<1>4. CASE r = q
    <2>1. h.sess.monitor = sess[r].monitor /\ Seen(Count(blind[r], sess[r], circuit[r]), h.sess)
        BY <1>3, <1>4, TimerSeen
    <2> HIDE DEF h
    <2>2. sess'[r] = h.sess BY <1>2, <1>4, DoesSession DEF IInv
    <2> QED BY <1>1, <1>4, <2>1, <2>2
<1>5. CASE r # q
    <2> HIDE DEF h
    <2>1. sess'[r] = sess[r] BY <1>2, <1>5, DoesSession DEF IInv
    <2> QED BY <1>1, <1>5, <2>1
<1> QED BY <1>4, <1>5

LEMMA OtherStill ==
    ASSUME IInv, NEW r \in Router,
           \/ NextSecond \/ CommandStep
           \/ \E q \in Router : Receive(q) \/ Lose(q) \/ IfDown(q) \/ IfUp(q) \/ CircuitChange(q)
    PROVE  ~Looked(r) /\ Still(sess[r], sess'[r])
<1> DEFINE Quietly == ~Looked(r) /\ Still(sess[r], sess'[r])
<1>0. TypeOK /\ sess[r] \in Session BY DEF IInv, Sound
<1>00. Steady(sess[r], sess[r]) BY DEF Steady
<1>1. CASE NextSecond
    BY <1>00, <1>1 DEF NextSecond, Looked, Still
<1>2. ASSUME NEW q \in Router, Receive(q) PROVE Quietly
    <2>1. sess'[r] \in {sess[r], HandleAdvert(r, sess[r], Head(inbox[r]))} /\ ticked' = ticked
        BY <1>0, <1>2 DEF Receive, TypeOK
    <2> QED BY <1>0, <1>00, <2>1, AdvertSteady DEF Looked, Still
<1>3. ASSUME NEW q \in Router, Lose(q) \/ CircuitChange(q) PROVE Quietly
    BY <1>00, <1>3 DEF Lose, CircuitChange, Looked, Still
<1>4. ASSUME NEW q \in Router, IfDown(q) PROVE Quietly
    <2>1. sess'[r] \in {sess[r], ShutdownSess(sess[r], FALSE).sess} /\ ticked' = ticked
        BY <1>0, <1>4 DEF IfDown, TypeOK
    <2> QED BY <1>0, <1>00, <2>1, ShutdownSteady DEF Looked, Still
<1>5. ASSUME NEW q \in Router, IfUp(q) PROVE Quietly
    <2> DEFINE h == EnableSess(sess[q], TRUE, circuit[q])
    <2>1. Does(q, h) /\ ticked' = ticked BY <1>5 DEF IfUp
    <2>2. r = q => Steady(sess[r], h.sess) BY <1>0, EnableSteady
    <2> HIDE DEF h
    <2> QED BY <1>0, <1>00, <2>1, <2>2, DoesSession DEF Looked, Still
<1>6. ASSUME CommandStep PROVE Quietly
    <2>1. ASSUME NEW q \in Router, NEW s, Configures(q, s), q = r => Still(sess[r], s)
          PROVE  Quietly
        BY <1>0, <1>00, <2>1 DEF Configures, Looked, Still, TypeOK
    <2>2. ASSUME NEW q \in Router, NEW p, SetPriority(q, p) PROVE Quietly
        <3>1. r = q => Steady(sess[r], [sess[q] EXCEPT !.prio = p, !.conf_prio = p])
            BY <1>0, Fields DEF Steady
        <3> QED BY <2>1, <2>2, <3>1 DEF SetPriority, Still
    <2>3. ASSUME NEW q \in Router, NEW i, AdvtInterval(q, i) PROVE Quietly
        <3>1. r = q => Steady(sess[r], [sess[q] EXCEPT !.adv_int = i]) BY <1>0, Fields DEF Steady
        <3> QED BY <2>1, <2>3, <3>1 DEF AdvtInterval, Still
    <2>4. ASSUME NEW q \in Router, NEW b, PreemptMode(q, b) PROVE Quietly
        <3>1. r = q => Steady(sess[r], [sess[q] EXCEPT !.preempt = b]) BY <1>0, Fields DEF Steady
        <3> QED BY <2>1, <2>4, <3>1 DEF PreemptMode, Still
    <2>5. ASSUME NEW q \in Router, NEW b, VirtualIp(q, b) PROVE Quietly
        <3> DEFINE s == [sess[q] EXCEPT !.owner = b]
                   a == [s EXCEPT !.prio = OwnerPriority]
                   d == [s EXCEPT !.prio = DefaultPriority, !.conf_prio = DefaultPriority]
        <3>1. \E x \in {a, d, s} : Configures(q, x) BY <2>5, Zenon DEF VirtualIp
        <3>2. r = q => Steady(sess[r], s) /\ Steady(sess[r], a) /\ Steady(sess[r], d)
            BY <1>0, Fields DEF Steady
        <3> HIDE DEF a, d, s
        <3> QED BY <2>1, <3>1, <3>2 DEF Still
    <2>6. ASSUME NEW q \in Router, UnsetPriority(q) PROVE Quietly
        <3>1. r = q => Steady(sess[r], [sess[q] EXCEPT !.prio = DefaultPrio(sess[q])])
            BY <1>0, Fields DEF Steady
        <3> QED BY <2>1, <2>6, <3>1 DEF UnsetPriority, Still
    <2>7. ASSUME NEW q \in Router, MonitoredCircuit(q) \/ UnsetMonitoredCircuit(q) PROVE Quietly
        <3> DEFINE a == [sess[q] EXCEPT !.monitor = TRUE, !.mc_status = FALSE]
                   d == [sess[q] EXCEPT !.monitor = FALSE, !.mc_status = FALSE, !.mc_down_cnt = 2]
        <3>1. \E x \in {a, d} : Configures(q, x)
            BY <2>7, Zenon DEF MonitoredCircuit, UnsetMonitoredCircuit
        <3>2. r = q => a.mc_status = FALSE /\ d.mc_status = FALSE BY <1>0, Fields
        <3> HIDE DEF a, d
        <3> QED BY <2>1, <3>1, <3>2 DEF Still
    <2>8. ASSUME NEW q \in Router, EnableSession(q) PROVE Quietly
        <3> DEFINE skew == IF sess[q].prio > 128 THEN 0 ELSE 1
                   down == 3 * sess[q].adv_int + skew
                   s == [sess[q] EXCEPT !.admin = TRUE, !.skew_time = skew, !.master_down_int = down]
                   h == EnableSess(s, up[q], circuit[q])
        <3>1. Does(q, h) /\ ticked' = ticked BY <2>8 DEF EnableSession
        <3>2. r = q => Steady(sess[r], h.sess)
            <4> HIDE DEF skew, down
            <4> QED BY <1>0, Fields
                    DEF Steady, EnableSess, StateToMaster, StateToBackup, Quiet
        <3> HIDE DEF h
        <3> QED BY <1>0, <1>00, <3>1, <3>2, DoesSession DEF Looked, Still
    <2>9. ASSUME NEW q \in Router, DisableSession(q) PROVE Quietly
        <3> DEFINE h == ShutdownSess(sess[q], up[q])
                   g == [h EXCEPT !.sess.admin = FALSE]
        <3>1. Does(q, g) /\ ticked' = ticked BY <2>9 DEF DisableSession
        <3>2. g.sess = [[sess[q] EXCEPT !.state = "INIT"] EXCEPT !.admin = FALSE]
            BY DEF ShutdownSess
        <3> HIDE DEF g
        <3>3. r = q => Steady(sess[r], g.sess) BY <1>0, <3>2, Fields DEF Steady
        <3> QED BY <1>0, <1>00, <3>1, <3>3, DoesSession DEF Looked, Still
    <2> QED BY <1>6, <2>2, <2>3, <2>4, <2>5, <2>6, <2>7, <2>8, <2>9 DEF CommandStep
<1> QED BY <1>1, <1>2, <1>3, <1>4, <1>5, <1>6

\* What the observers add to the invariant.
MCInv == IInv /\ \A r \in Router : Seen(blind[r], sess[r])

LEMMA StepObserves ==
    ASSUME MCStep
    PROVE  Next /\ \E h, l : Observe(h, l)
<1>1. CASE Clock BY <1>1, Zenon DEF Clock, Next, ClockStep
<1>2. CASE Fault BY <1>2, Zenon DEF Fault, Next, FaultStep
<1>3. CASE Repair BY <1>3, Zenon DEF Repair, Next, FaultStep
<1> QED BY <1>1, <1>2, <1>3 DEF MCStep

LEMMA NextSeen ==
    ASSUME MCInv, Next, NEW h, NEW l, Observe(h, l), NEW r \in Router
    PROVE  Seen(blind'[r], sess'[r])
<1> DEFINE b == blind[r]
           s == sess[r]
           t == sess'[r]
<1>1. blind'[r] =
         CASE Looked(r) /\ t.monitor /\ circuit[r] -> 0
           [] Looked(r) /\ ~circuit[r] /\ b # Unseen -> AtMost2(b + 1)
           [] ~Looked(r) /\ ~t.mc_status -> Unseen
           [] OTHER -> b
    BY Zenon DEF Observe, Looked
<1>2. IInv /\ Seen(b, s) BY DEF MCInv
<1> HIDE DEF b, s, t
<1>3. CASE \E q \in Router : Tick(q)
    <2>1. CASE Looked(r)
        <3>1. t.monitor = s.monitor /\ Seen(Count(b, s, circuit[r]), t)
            BY <1>2, <1>3, <2>1, TickLooks DEF b, s, t
        <3>2. blind'[r] = Count(b, s, circuit[r])
            BY <1>1, <2>1, <3>1, Zenon DEF Count
        <3> QED BY <3>1, <3>2 DEF t
    <2>2. CASE ~Looked(r)
        <3>1. t = s BY <1>2, <1>3, <2>2, TickLooks DEF b, s, t
        <3>2. blind'[r] \in {b, Unseen} BY <1>1, <2>2
        <3>3. Seen(Unseen, t) BY DEF Seen, Knows, Unseen
        <3> QED BY <1>2, <3>1, <3>2, <3>3 DEF t
    <2> QED BY <2>1, <2>2
<1>4. CASE ~(\E q \in Router : Tick(q))
    <2>1. ~Looked(r) /\ Still(s, t)
        BY <1>2, <1>4, OtherStill DEF Next, ClockStep, FaultStep, s, t
    <2>2. CASE ~t.mc_status
        <3>1. blind'[r] = Unseen BY <1>1, <2>1, <2>2
        <3> QED BY <3>1 DEF Seen, Knows, Unseen
    <2>3. CASE t.mc_status
        <3>1. blind'[r] = b BY <1>1, <2>1, <2>3
        <3>2. Knows(b, t) BY <1>2, <2>1, <2>3, KnowsSteady DEF Still, Seen
        <3>3. Seen(b, t) BY <2>3, <3>2 DEF Seen
        <3> QED BY <3>1, <3>3 DEF t
    <2> QED BY <2>2, <2>3
<1> QED BY <1>3, <1>4

LEMMA WarmInitSafe ==
    ASSUME WarmInit
    PROVE  MCInv
<1>1. PICK monitored \in BOOLEAN, owner \in Owners, p \in [Router -> Priority] :
        sess = [r \in Router |-> Enabled(p[r], monitored, r = owner)]
    BY DEF WarmInit
<1>2. ASSUME NEW q \in Priority, NEW own \in BOOLEAN, NEW s, s = Enabled(q, monitored, own)
      PROVE  Sound(s) /\ s.state = "INIT"
    <2> DEFINE prio == IF own THEN OwnerPriority ELSE q
               skew == IF prio > 128 THEN 0 ELSE 1
    <2>1. prio \in 0..255 BY PriorityAssumption DEF OwnerPriority
    <2>2. skew \in {0, 1} /\ 3 + skew \in 0..766 /\ skew <= 3 + skew OBVIOUS
    <2>3. s = [state |-> "INIT", admin |-> TRUE, owner |-> own, preempt |-> TRUE,
               prio |-> prio, conf_prio |-> prio, adv_int |-> DefaultInterval,
               skew_time |-> skew, master_down_int |-> 3 + skew, timer |-> 0,
               monitor |-> monitored, mc_status |-> FALSE, mc_down_cnt |-> 0]
        BY <1>2 DEF Enabled, Created
    <2> HIDE DEF prio, skew
    <2> QED BY <2>1, <2>2, <2>3 DEF Sound, Session, DefaultInterval, Unset
<1>3. ASSUME NEW r \in Router
      PROVE  /\ Sound(sess[r]) /\ Safe(sess[r], up[r]) /\ sess[r] \in Session
             /\ Seen(blind[r], sess[r])
    <2>1. p[r] \in Priority /\ (r = owner) \in BOOLEAN OBVIOUS
    <2>2. sess[r] = Enabled(p[r], monitored, r = owner) BY <1>1
    <2>3. Sound(sess[r]) /\ sess[r].state = "INIT" BY <1>2, <2>1, <2>2
    <2>4. blind[r] = Unseen BY DEF WarmInit
    <2> QED BY <2>3, <2>4 DEF Sound, Safe, Seen, Knows, Unseen
<1>4. TypeOK
    <2>1. DOMAIN sess = Router /\ sess = [r \in Router |-> sess[r]] BY <1>1
    <2>2. sess \in [Router -> Session] BY <1>3, <2>1
    <2> QED BY <2>2 DEF WarmInit, TypeOK
<1> QED BY <1>3, <1>4 DEF MCInv, IInv

\* However circuits, interfaces and sessions come and go, and whatever is lost, a session
\* that found its circuit up has stopped when it finds it down twice in a row
\* (_vrrp_monitor_circuit, _sess_timer_handler).
THEOREM CircuitSafe == MCSpec => []CircuitHonoured
<1>1. WarmInit => MCInv
    BY WarmInitSafe
<1>2. MCInv /\ [MCStep]_all => MCInv'
    <2>1. ASSUME MCInv, MCStep PROVE MCInv'
        <3>1. IInv' BY <2>1, StepObserves, ClockKeeps, FaultKeeps, CommandKeeps DEF Next, MCInv
        <3>2. \A r \in Router : Seen(blind'[r], sess'[r]) BY <2>1, StepObserves, NextSeen
        <3> QED BY <3>1, <3>2 DEF MCInv
    <2>2. ASSUME MCInv, UNCHANGED all PROVE MCInv'
        BY <2>2 DEF all, vars, MCInv, IInv, TypeOK
    <2> QED BY <2>1, <2>2
<1>3. MCInv => CircuitHonoured
    BY DEF MCInv, Seen, Knows, CircuitHonoured, Running, Unseen
<1>4. MCSpec => WarmInit /\ [][MCStep]_all
    BY PTL DEF MCSpec, MCStep
<1> QED BY <1>1, <1>2, <1>3, <1>4, PTL
=============================================================================
