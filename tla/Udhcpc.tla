------------------------------- MODULE Udhcpc -------------------------------
(***************************************************************************)
(* The DHCP client udhcpc (src/udhcp/dhcpc.c, clientpacket.c, script.c).   *)
(*                                                                         *)
(* One thread runs the loop "compute the time left, open the socket,       *)
(* select, handle the timeout or the packet".  Three things block it:      *)
(* select, run_script, which waits for the script it starts, and sleep.    *)
(* Two signal handlers change the variables of the loop underneath it.  No *)
(* signal is ever blocked: they may run where the loop waits, between the  *)
(* computation of the time left and select, and between two statements of  *)
(* a handler of a timeout or a packet, which is therefore one step from    *)
(* the reading of the state (switch) to the writing of the new one, and    *)
(* one more where change_mode follows.                                     *)
(*                                                                         *)
(* The network may do anything: any packet of Packets may arrive at any    *)
(* time (late, twice, out of order) or never.                              *)
(***************************************************************************)
EXTENDS Integers

CONSTANTS
    Packets,       \* the packets that may arrive
    Xids,          \* what random_xid may return
    RequestedIp,   \* option -r, 0: none
    BackupIp,      \* option -b, 0: none
    AbortIfNoLease,\* option -n
    Wait, LastWait,\* seconds after the first two packets of a try, the third
    Pause,         \* seconds between two rounds of DISCOVERs
    NakSleep,      \* seconds slept after a NAK
    NoLeaseTime,   \* the lease of an ACK that names none
    Far,           \* 0x7fffffff, the timeout of a released client
    Word,          \* 2^32, the number of values of an unsigned long
    Signals,       \* the signals that may arrive
    MaxSignals,    \* bound on the signals received
    MaxScript,     \* bound on the seconds the scripts of one handler take
    MaxTime        \* bound on the clock

NoOption == -1

PacketType ==
    [xid : Nat,
     type : {"OFFER", "ACK", "NAK", "none"},  \* DHCP_MESSAGE_TYPE
     yiaddr : Nat \ {0},
     sid : Nat,                               \* DHCP_SERVER_ID, 0: absent
     lease : Nat \cup {NoOption}]             \* DHCP_LEASE_TIME

ASSUME ClientAssumption ==
    /\ Packets \subseteq PacketType
    /\ Xids \subseteq Nat
    /\ {RequestedIp, BackupIp, NoLeaseTime, Far, MaxSignals, MaxScript, MaxTime} \subseteq Nat
    /\ {Wait, LastWait, Pause, NakSleep} \subseteq Nat \ {0}
    /\ AbortIfNoLease \in BOOLEAN
    /\ Word \in Nat \ {0}
    /\ Signals \subseteq {"USR1", "USR2", "TERM"}

VARIABLES
    now,           \* time(0)
    pc,            \* where the loop is
    state, timeout, packet_num, requested_ip, server_addr, failurecnt,
    listen_mode,
    fd,            \* the socket, "open" or "closed"
    xid, t1, t2, start, lease,
    sel,           \* the timeout tv was computed from
    spent,         \* seconds since the handler started its script, or slept
    conf,          \* the address the scripts have put on the interface, or 0
    sent,          \* the packet the last step sent
    signals,       \* history: signals received
    released,      \* history: SIGUSR2 received, and no SIGUSR1 since
    struck         \* history: a signal interrupted a handler between two of
                   \* its statements

net == <<requested_ip, server_addr, xid>>
times == <<t1, t2, start, lease>>
hist == <<signals, released, struck>>

vars == <<now, pc, state, timeout, packet_num, failurecnt, listen_mode, fd,
          net, times, sel, spent, conf, sent, hist>>

States == {"INIT_SELECTING", "REQUESTING", "BOUND", "RENEWING", "REBINDING",
           "RENEW_REQUESTED", "RELEASED"}

\* The steps of the loop, ...
LoopPcs == {"top", "open", "armed", "select"}

\* ... and the places where a handler waits: for the deconfig of the start,
\* for the script of an ACK (before and after it has configured the
\* interface), for the two scripts of a NAK and the sleep that follows, and
\* for the deconfig of a lost lease.
ScriptPcs == {"start", "bound", "bound2", "nak", "deconfig", "lost"}

\* Between two statements of a handler: after "switch (state)" of a timeout pc
\* names the case taken, after that of a packet "offer"; in the others the new
\* state has been written, and change_mode comes next.
ModePcs == {"none", "kernel", "raw", "nakraw"}

Windows == States \cup {"offer"} \cup ModePcs

Messages == [type : {"DISCOVER", "SELECT", "RENEW", "RELEASE"},
             xid : Nat, server : Nat, ip : Nat]

NoMessage == [type |-> "none"]

Send(type, x, server, ip) ==
    sent' = [type |-> type, xid |-> x, server |-> server, ip |-> ip]

SendNothing == sent' = NoMessage

change_mode(mode) == listen_mode' = mode /\ fd' = "closed"

(***************************************************************************)
(* Arithmetic of unsigned long                                             *)
(***************************************************************************)
Minus(a, b) == (a - b) % Word

\* Variant: nine eighths.
SevenEighths_9(l) == ((l * 9) % Word) \div 8

SevenEighths(l) == ((l * 7) % Word) \div 8

\* Variant: nothing is added to the part of the lease.
TooClose_0(gap) == gap <= lease \div 14400

\* What is left is too short to be halved again.
TooClose(gap) == gap <= lease \div 14400 + 1

-----------------------------------------------------------------------------
Init ==
    /\ now = 1
    /\ pc = "start"                          \* run_script(NULL, "deconfig")
    /\ state = "INIT_SELECTING"
    /\ timeout = 0 /\ packet_num = 0 /\ failurecnt = 0
    /\ requested_ip = RequestedIp /\ server_addr = 0
    /\ listen_mode = "none" /\ fd = "closed"
    /\ xid = 0 /\ t1 = 0 /\ t2 = 0 /\ start = 0 /\ lease = 0
    /\ sel = 0 /\ spent = 0
    /\ conf = 0
    /\ sent = NoMessage
    /\ signals = 0 /\ released = FALSE /\ struck = FALSE

Exit(ip) ==
    /\ pc' = "exit"
    /\ conf' = ip

\* The deconfig of the start returns.
Started ==
    /\ pc = "start"
    /\ pc' = "top" /\ spent' = 0
    /\ change_mode("raw")
    /\ SendNothing
    /\ UNCHANGED <<now, state, timeout, packet_num, failurecnt, net, times, sel,
                   conf, hist>>

(***************************************************************************)
(* The loop                                                                *)
(***************************************************************************)

\* tv.tv_sec = timeout - time(0)
ComputeTv ==
    /\ pc = "top"
    /\ pc' = "open" /\ sel' = timeout
    /\ SendNothing
    /\ UNCHANGED <<now, state, timeout, packet_num, failurecnt, listen_mode, fd,
                   net, times, spent, conf, hist>>

\* A socket that cannot be opened ends the client.
OpenSocket ==
    /\ pc = "open"
    /\ \/ /\ pc' = "armed"
          /\ fd' = IF listen_mode # "none" THEN "open" ELSE fd
          /\ UNCHANGED conf
       \/ listen_mode # "none" /\ fd = "closed" /\ Exit(conf) /\ UNCHANGED fd
    /\ SendNothing
    /\ UNCHANGED <<now, state, timeout, packet_num, failurecnt, listen_mode,
                   net, times, sel, spent, hist>>

EnterSelect ==
    /\ pc = "armed" /\ now < sel
    /\ pc' = "select"
    /\ SendNothing
    /\ UNCHANGED <<now, state, timeout, packet_num, failurecnt, listen_mode, fd,
                   net, times, sel, spent, conf, hist>>

\* The time is up: switch (state).
TimedOut ==
    /\ pc \in {"armed", "select"} /\ now >= sel
    /\ pc' = state
    /\ SendNothing
    /\ UNCHANGED <<now, state, timeout, packet_num, failurecnt, listen_mode, fd,
                   net, times, sel, spent, conf, hist>>

(***************************************************************************)
(* Timeouts                                                                *)
(***************************************************************************)
\* Variant: one packet more.
TriesLeft_4 == packet_num <= 3

TriesLeft == packet_num < 3

NextWait == IF packet_num = 2 THEN LastWait ELSE Wait

InitTimeout ==
    /\ pc = "INIT_SELECTING" /\ TriesLeft
    /\ \E x \in Xids :
         /\ xid' = IF packet_num = 0 THEN x ELSE xid
         /\ Send("DISCOVER", xid', 0, requested_ip)
    /\ timeout' = now + NextWait
    /\ packet_num' = packet_num + 1
    /\ pc' = "top"
    /\ UNCHANGED <<now, state, failurecnt, listen_mode, fd, requested_ip,
                   server_addr, times, sel, spent, conf, hist>>

\* Three DISCOVERs without an answer: after two such rounds the backup
\* address is used, if there is one.
InitRoundOver ==
    /\ pc = "INIT_SELECTING" /\ ~TriesLeft
    /\ \/ /\ BackupIp # 0 /\ failurecnt >= 2
          /\ Exit(BackupIp)
          /\ UNCHANGED <<timeout, packet_num, failurecnt>>
       \/ /\ ~(BackupIp # 0 /\ failurecnt >= 2) /\ AbortIfNoLease
          /\ Exit(conf)
          /\ UNCHANGED <<timeout, packet_num, failurecnt>>
       \/ /\ ~(BackupIp # 0 /\ failurecnt >= 2) /\ ~AbortIfNoLease
          /\ failurecnt' = failurecnt + 1
          /\ packet_num' = 0
          /\ timeout' = now + Pause
          /\ pc' = "top" /\ UNCHANGED conf
    /\ SendNothing
    /\ UNCHANGED <<now, state, listen_mode, fd, net, times, sel, spent, hist>>

RequestTimeout ==
    /\ pc \in {"REQUESTING", "RENEW_REQUESTED"}
    /\ \/ /\ TriesLeft
          /\ IF state = "RENEW_REQUESTED"
             THEN Send("RENEW", xid, server_addr, requested_ip)
             ELSE Send("SELECT", xid, server_addr, requested_ip)
          /\ timeout' = now + NextWait
          /\ packet_num' = packet_num + 1
          /\ pc' = "top"
          /\ UNCHANGED state
       \/ /\ ~TriesLeft
          /\ state' = "INIT_SELECTING"
          /\ timeout' = now
          /\ packet_num' = 0
          /\ pc' = "raw"
          /\ SendNothing
    /\ UNCHANGED <<now, failurecnt, listen_mode, fd, net, times, sel, spent, conf, hist>>

\* case BOUND: once its change_mode is done, it falls through to RENEWING.
BoundTimeout ==
    /\ pc = "BOUND"
    /\ state' = "RENEWING"
    /\ pc' = "kernel"
    /\ SendNothing
    /\ UNCHANGED <<now, timeout, packet_num, failurecnt, listen_mode, fd, net, times,
                   sel, spent, conf, hist>>

RenewTimeout ==
    LET gap == Minus(t2, t1)
    IN  /\ pc = "RENEWING"
        /\ \/ /\ TooClose(gap)
              /\ state' = "REBINDING"
              /\ timeout' = now + gap
              /\ SendNothing
              /\ UNCHANGED t1
           \/ /\ ~TooClose(gap)
              /\ Send("RENEW", xid, server_addr, requested_ip)
              /\ t1' = gap \div 2 + t1
              /\ timeout' = t1' + start
              /\ UNCHANGED state
        /\ pc' = "top"
        /\ UNCHANGED <<now, packet_num, failurecnt, listen_mode, fd, net, t2, start,
                       lease, sel, spent, conf, hist>>

\* Variant: a client that was bound stays deaf.
ModeOf_deaf == IF pc \in {"none", "kernel"} THEN "none" ELSE "raw"

\* The mode of the change_mode that comes next.
ModeOf == IF pc \in {"none", "kernel"} THEN pc ELSE "raw"

\* change_mode, the last statement but for the fall-through of BOUND and the
\* sleep after a NAK.
ChangeMode ==
    /\ pc \in ModePcs
    /\ change_mode(ModeOf)
    /\ pc' = IF pc = "kernel" THEN "RENEWING" ELSE IF pc = "nakraw" THEN "sleep" ELSE "top"
    /\ SendNothing
    /\ UNCHANGED <<now, state, timeout, packet_num, failurecnt, net, times, sel, spent,
                   conf, hist>>

\* The end of the lease: the state changes before the script runs, the rest
\* after it (LostReturns).
RebindTimeout ==
    LET gap == Minus(lease, t2)
    IN  /\ pc = "REBINDING"
        /\ \/ /\ TooClose(gap)
              /\ state' = "INIT_SELECTING"
              /\ pc' = "lost" /\ spent' = 0
              /\ SendNothing
              /\ UNCHANGED <<t2, timeout>>
           \/ /\ ~TooClose(gap)
              /\ Send("RENEW", xid, 0, requested_ip)
              /\ t2' = gap \div 2 + t2
              /\ timeout' = t2' + start
              /\ pc' = "top"
              /\ UNCHANGED <<state, spent>>
        /\ UNCHANGED <<now, packet_num, failurecnt, listen_mode, fd, net, t1,
                       start, lease, sel, conf, hist>>

\* timeout = now: the time read before the script ran.
LostReturns ==
    /\ pc = "lost"
    /\ conf' = 0
    /\ timeout' = now - spent
    /\ packet_num' = 0
    /\ pc' = "raw" /\ spent' = 0
    /\ SendNothing
    /\ UNCHANGED <<now, state, failurecnt, listen_mode, fd, net, times, sel, hist>>

ReleasedTimeout ==
    /\ pc = "RELEASED"
    /\ timeout' = Far
    /\ pc' = "top"
    /\ SendNothing
    /\ UNCHANGED <<now, state, packet_num, failurecnt, listen_mode, fd, net,
                   times, sel, spent, conf, hist>>

(***************************************************************************)
(* Packets                                                                 *)
(***************************************************************************)
Heard == pc = "select" /\ fd = "open"

Leased == {"RENEW_REQUESTED", "REQUESTING", "RENEWING", "REBINDING"}

ForUs(p) == p.xid = xid /\ p.type # "none"

ReceiveOffer(p) ==
    /\ Heard /\ ForUs(p)
    /\ state = "INIT_SELECTING" /\ p.type = "OFFER" /\ p.sid # 0
    /\ server_addr' = p.sid /\ requested_ip' = p.yiaddr
    /\ pc' = "offer"
    /\ SendNothing
    /\ UNCHANGED <<now, state, timeout, packet_num, failurecnt, listen_mode, fd, xid,
                   times, sel, spent, conf, hist>>

OfferTaken ==
    /\ pc = "offer"
    /\ state' = "REQUESTING"
    /\ timeout' = now
    /\ packet_num' = 0
    /\ pc' = "top"
    /\ SendNothing
    /\ UNCHANGED <<now, failurecnt, listen_mode, fd, net, times, sel, spent, conf, hist>>

LeaseOf(p) == IF p.lease = NoOption THEN NoLeaseTime ELSE p.lease

\* The timers are set before the script runs, the state after (AckReturns).
ReceiveAck(p) ==
    /\ Heard /\ ForUs(p)
    /\ state \in Leased /\ p.type = "ACK"
    /\ lease' = LeaseOf(p)
    /\ t1' = lease' \div 2
    /\ t2' = SevenEighths(lease')
    /\ start' = now
    /\ timeout' = t1' + now
    /\ requested_ip' = p.yiaddr
    /\ pc' = "bound" /\ spent' = 0
    /\ SendNothing
    /\ UNCHANGED <<now, state, packet_num, failurecnt, listen_mode, fd,
                   server_addr, xid, sel, conf, hist>>

\* The script configures the interface at some time while it runs.
ScriptConfigures ==
    /\ pc = "bound"
    /\ conf' = requested_ip
    /\ pc' = "bound2"
    /\ SendNothing
    /\ UNCHANGED <<now, state, timeout, packet_num, failurecnt, listen_mode, fd,
                   net, times, sel, spent, hist>>

AckReturns ==
    /\ pc = "bound2"
    /\ state' = "BOUND"
    /\ pc' = "none" /\ spent' = 0
    /\ SendNothing
    /\ UNCHANGED <<now, timeout, packet_num, failurecnt, listen_mode, fd, net, times, sel,
                   conf, hist>>

\* run_script(&packet, "nak")
ReceiveNak(p) ==
    /\ Heard /\ ForUs(p)
    /\ state \in Leased /\ p.type = "NAK"
    /\ pc' = "nak" /\ spent' = 0
    /\ SendNothing
    /\ UNCHANGED <<now, state, timeout, packet_num, failurecnt, listen_mode, fd,
                   net, times, sel, conf, hist>>

NakOver ==
    /\ state' = "INIT_SELECTING"
    /\ timeout' = now - spent
    /\ requested_ip' = 0
    /\ packet_num' = 0
    /\ pc' = "nakraw" /\ spent' = 0
    /\ UNCHANGED <<listen_mode, fd>>

\* Variant: the deconfig is forgotten while the lease is being renewed.
Deconfigures_requested == state = "RENEW_REQUESTED"

Deconfigures == state # "REQUESTING"

NakReturns ==
    /\ pc = "nak"
    /\ IF Deconfigures
       THEN /\ pc' = "deconfig"
            /\ UNCHANGED <<state, timeout, requested_ip, packet_num, listen_mode, fd, spent>>
       ELSE NakOver
    /\ SendNothing
    /\ UNCHANGED <<now, failurecnt, server_addr, xid, times, sel, conf, hist>>

DeconfigReturns ==
    /\ pc = "deconfig"
    /\ conf' = 0
    /\ NakOver
    /\ SendNothing
    /\ UNCHANGED <<now, failurecnt, server_addr, xid, times, sel, hist>>

SleepOver ==
    /\ pc = "sleep" /\ spent >= NakSleep
    /\ pc' = "top" /\ spent' = 0
    /\ SendNothing
    /\ UNCHANGED <<now, state, timeout, packet_num, failurecnt, listen_mode, fd,
                   net, times, sel, conf, hist>>

\* Another xid, no message type, no server id, or nothing this state expects.
Ignore(p) ==
    /\ Heard
    /\ \/ ~ForUs(p)
       \/ state = "INIT_SELECTING" /\ (p.type # "OFFER" \/ p.sid = 0)
       \/ state \in Leased /\ p.type \notin {"ACK", "NAK"}
       \/ state \in {"BOUND", "RELEASED"}
    /\ pc' = "top"
    /\ SendNothing
    /\ UNCHANGED <<now, state, timeout, packet_num, failurecnt, listen_mode, fd,
                   net, times, sel, spent, conf, hist>>

\* The packet is not for the client, or cannot be read: the socket is closed,
\* to be opened again.
ReadError ==
    /\ Heard
    /\ change_mode(listen_mode)
    /\ pc' = "top"
    /\ SendNothing
    /\ UNCHANGED <<now, state, timeout, packet_num, failurecnt, net, times, sel,
                   spent, conf, hist>>

(***************************************************************************)
(* Signals                                                                 *)
(***************************************************************************)

\* select and sleep end with the handler, waitpid is resumed after it.
Interrupted == pc' = IF pc \in {"select", "sleep"} THEN "top" ELSE pc

\* Between two statements of a handler its work is left half done.
Strikes == struck' = (struck \/ pc \in Windows)

Holding == {"BOUND", "RENEWING", "REBINDING"}

\* The mode and the state that SIGUSR1 leads to, unless it changes neither.
RenewMode == IF state \in Holding THEN "kernel" ELSE "raw"
RenewState == IF state \in Holding THEN "RENEW_REQUESTED" ELSE "INIT_SELECTING"

renew_requested ==
    /\ pc # "exit" /\ "USR1" \in Signals /\ signals < MaxSignals
    /\ signals' = signals + 1 /\ released' = FALSE /\ Strikes
    /\ \/ /\ state \in Holding \cup {"RELEASED"}
          /\ change_mode(RenewMode)
          /\ packet_num' = 0
          /\ state' = RenewState
       \/ /\ state \in {"INIT_SELECTING", "REQUESTING", "RENEW_REQUESTED"}
          /\ UNCHANGED <<listen_mode, fd, packet_num, state>>
    /\ timeout' = 0
    /\ Interrupted
    /\ SendNothing
    /\ UNCHANGED <<now, failurecnt, net, times, sel, spent, conf>>

ReleaseLease ==
    IF state \in Holding
    THEN /\ \E x \in Xids : Send("RELEASE", x, server_addr, requested_ip)
         /\ conf' = 0
    ELSE SendNothing /\ UNCHANGED conf

release_requested ==
    /\ pc # "exit" /\ "USR2" \in Signals /\ signals < MaxSignals
    /\ signals' = signals + 1 /\ released' = TRUE /\ Strikes
    /\ ReleaseLease
    /\ change_mode("none")
    /\ state' = "RELEASED"
    /\ timeout' = Far
    /\ Interrupted
    /\ UNCHANGED <<now, packet_num, failurecnt, net, times, sel, spent>>

\* The handler of SIGUSR1, interrupted by that of SIGUSR2 between the reading
\* of the state and its change_mode, or between that and the writing of the
\* state.
RenewInterrupted ==
    /\ pc # "exit" /\ {"USR1", "USR2"} \subseteq Signals /\ signals + 1 < MaxSignals
    /\ signals' = signals + 2 /\ released' = TRUE /\ struck' = TRUE
    /\ state \in Holding \cup {"RELEASED"}
    /\ ReleaseLease
    /\ \E mode \in {"none", RenewMode} : change_mode(mode)
    /\ packet_num' = 0
    /\ state' = RenewState
    /\ timeout' = 0
    /\ Interrupted
    /\ UNCHANGED <<now, failurecnt, net, times, sel, spent>>

\* The handler of SIGUSR2, interrupted by that of SIGUSR1 while it waits for
\* the deconfig script, or between its change_mode and the writing of the state.
ReleaseInterrupted ==
    /\ pc # "exit" /\ {"USR1", "USR2"} \subseteq Signals /\ signals + 1 < MaxSignals
    /\ signals' = signals + 2 /\ released' = FALSE /\ struck' = TRUE
    /\ state \in Holding \cup {"RELEASED"}
    /\ ReleaseLease
    /\ \E mode \in {"none", RenewMode} : change_mode(mode)
    /\ packet_num' = 0
    /\ state' = "RELEASED"
    /\ timeout' = Far
    /\ Interrupted
    /\ UNCHANGED <<now, failurecnt, net, times, sel, spent>>

terminate ==
    /\ pc # "exit" /\ "TERM" \in Signals
    /\ Exit(conf)
    /\ SendNothing
    /\ UNCHANGED <<now, state, timeout, packet_num, failurecnt, listen_mode, fd,
                   net, times, sel, spent, hist>>

\* Time passes only where the client waits: in select up to its deadline, in
\* scripts and in sleep.
Tick ==
    /\ now < MaxTime
    /\ \/ pc = "select" /\ now < sel /\ UNCHANGED spent
       \/ pc \in ScriptPcs /\ spent < MaxScript /\ spent' = spent + 1
       \/ pc = "sleep" /\ spent < NakSleep /\ spent' = spent + 1
    /\ now' = now + 1
    /\ SendNothing
    /\ UNCHANGED <<pc, state, timeout, packet_num, failurecnt, listen_mode, fd,
                   net, times, sel, conf, hist>>

Loop == ComputeTv \/ OpenSocket \/ EnterSelect \/ TimedOut

Timeout == \/ InitTimeout \/ InitRoundOver \/ RequestTimeout \/ BoundTimeout
           \/ RenewTimeout \/ RebindTimeout \/ ReleasedTimeout

Receive == \E p \in Packets : \/ ReceiveOffer(p) \/ ReceiveAck(p)
                             \/ ReceiveNak(p) \/ Ignore(p)

Finish == OfferTaken \/ ChangeMode

Return == \/ Started \/ LostReturns \/ ScriptConfigures \/ AckReturns
          \/ NakReturns \/ DeconfigReturns \/ SleepOver

Signal == \/ renew_requested \/ release_requested \/ terminate
          \/ RenewInterrupted \/ ReleaseInterrupted

Next == Loop \/ Timeout \/ Receive \/ ReadError \/ Finish \/ Return \/ Signal \/ Tick

Spec == Init /\ [][Next]_vars

(***************************************************************************)
(* Properties                                                              *)
(***************************************************************************)

\* Type invariant: the variables hold values of their C types, and at most
\* three packets make a try.
TypeOK ==
    /\ now \in Nat
    /\ pc \in LoopPcs \cup ScriptPcs \cup Windows \cup {"sleep", "exit"}
    /\ state \in States
    /\ timeout \in Nat
    /\ packet_num \in 0..3
    /\ failurecnt \in Nat
    /\ listen_mode \in {"none", "kernel", "raw"}
    /\ fd \in {"open", "closed"}
    /\ {requested_ip, server_addr, xid} \subseteq Nat
    /\ {t1, t2, start, lease} \subseteq Nat
    /\ sel \in Nat
    /\ spent \in Nat /\ spent <= now
    /\ conf \in Nat
    /\ sent \in Messages \cup {NoMessage}
    /\ signals \in Nat
    /\ {released, struck} \subseteq BOOLEAN

Deconfiguring == pc \in {"nak", "deconfig", "lost"}

\* By the time its lease ends the client has called the script that takes the
\* address off the interface, or has a new lease (the halving of t1 and t2,
\* the threshold of dhcpc.c:400 and 415, and the order of the timeouts).
ConfiguredWithinLease ==
    pc # "exit" /\ conf # 0 /\ ~Deconfiguring => now <= start + lease

\* README: deconfig is called when a lease is lost.  While the client looks
\* for a lease, the interface has no address.
UnboundIsDeconfigured ==
    pc \in LoopPcs /\ state \in {"INIT_SELECTING", "REQUESTING"} => conf = 0

\* Two renewals are at least a second apart, however short the lease: the
\* halving of what is left never ends in a loop of packets without a wait.
RenewalsSpaced ==
    [][state' \in {"RENEWING", "REBINDING"} /\ sent'.type = "RENEW"
           => timeout' > now]_vars

\* A client in select listens where the answer to its last packet arrives,
\* whatever signals came while it waited in select, for a script or in sleep,
\* or between the computation of the time left and select.  A signal between
\* two statements of a handler may leave a client deaf that has asked for
\* something; but a bound client does not listen, and one that renews by itself
\* does, after any signals at all.
ListenMatchesState ==
    pc = "select" =>
        /\ state = "BOUND" => listen_mode = "none"
        /\ state = "RENEWING" => listen_mode = "kernel"
        /\ ~struck =>
             /\ state \in {"INIT_SELECTING", "REQUESTING"} => listen_mode = "raw"
             /\ state \in {"REBINDING", "RENEW_REQUESTED"} => listen_mode = "kernel"

\* The inductive invariant behind it.  Outside a handler that waits the mode is
\* already that of the state; between the writing of a state and change_mode
\* signals lead to few states; and without a signal in a handler its case is
\* that of the state.
ModeInv ==
    /\ pc \in LoopPcs \cup States \cup {"sleep", "offer"} =>
         /\ state = "BOUND" => listen_mode = "none"
         /\ state = "RENEWING" => listen_mode = "kernel"
    /\ pc \in {"start", "lost", "raw", "nakraw"} => state \in {"INIT_SELECTING", "RELEASED"}
    /\ pc = "none" => state # "RENEWING"
    /\ pc = "kernel" => state # "BOUND"

UnstruckInv ==
    ~struck =>
        /\ pc \in LoopPcs \cup States \cup {"sleep", "offer"} =>
             /\ state \in {"INIT_SELECTING", "REQUESTING"} => listen_mode = "raw"
             /\ state \in {"REBINDING", "RENEW_REQUESTED"} => listen_mode = "kernel"
        /\ pc \in States => state = pc
        /\ pc = "offer" => state = "INIT_SELECTING"
        /\ pc = "none" => state = "BOUND"
        /\ pc = "kernel" => state = "RENEWING"

ListenInv == TypeOK /\ ModeInv /\ UnstruckInv

(***************************************************************************)
(* The inductive invariant behind the end of the lease                     *)
(***************************************************************************)

\* No signal disturbs the client, scripts return before it is time to renew,
\* and seven leases fit a word.
Undisturbed ==
    /\ Signals \cap {"USR1", "USR2"} = {}
    /\ \A p \in Packets : 7 * LeaseOf(p) < Word /\ MaxScript <= LeaseOf(p) \div 2

\* select waits for the deadline in force.
SelectCurrent == pc \in {"open", "armed", "select"} => sel = timeout

\* Only a client that holds a lease, or is on its way into or out of one, has
\* an address on its interface.
HeldOnly ==
    /\ state \notin {"RENEW_REQUESTED", "RELEASED"}
    /\ pc \in {"bound", "bound2", "nak"} => state \in Leased
    /\ pc = "start" => conf = 0
    /\ pc \in {"sleep", "start", "lost", "offer", "raw", "nakraw"} => state = "INIT_SELECTING"
    /\ pc \in States => state = pc
    /\ pc = "none" => state = "BOUND"
    /\ pc = "kernel" => state = "RENEWING"
    /\ conf # 0 => state \in Holding \/ pc \in {"bound2", "deconfig", "lost", "exit"}

TimersOrdered == t1 <= t2 /\ t2 <= lease /\ lease < Word

\* Where the timers of a lease are in force.
Running == LoopPcs \cup States \cup {"none", "kernel"}

\* The deadline of a client that holds a lease is t1 or t2 after its start,
\* and the clock has not passed it; it has reached it when it is handled.
TimersRun ==
    /\ pc \in {"bound", "bound2"} =>
         /\ TimersOrdered
         /\ timeout = start + t1 /\ now = start + spent
         /\ spent <= MaxScript /\ MaxScript <= t1
    /\ pc \in Running /\ state \in {"BOUND", "RENEWING"} =>
         TimersOrdered /\ timeout = start + t1 /\ now <= timeout
    /\ pc \in Running /\ state = "REBINDING" =>
         TimersOrdered /\ timeout = start + t2 /\ now <= timeout
    /\ pc \in Holding \cup {"kernel"} => now >= timeout

LeaseInv == TypeOK /\ SelectCurrent /\ HeldOnly /\ TimersRun

(***************************************************************************)
(* What the documentation says, and the code does not do                   *)
(***************************************************************************)

\* README: after SIGUSR2 the client is in an inactive state until it is
\* killed or receives a SIGUSR1.  Not even a signal between two statements of
\* a handler is needed to see it do something else.
ReleaseIsInactive == pc = "select" /\ released /\ ~struck => state = "RELEASED"
=============================================================================
