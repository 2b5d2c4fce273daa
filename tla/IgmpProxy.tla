------------------------------ MODULE IgmpProxy ------------------------------
(***************************************************************************)
(* The IGMP proxy (src/igmp-proxy/igmp_proxy.c) and the part of the kernel *)
(* it drives (net/ipv4/igmp.c, ipmr.c): for each downstream interface the  *)
(* groups that have members there, with their timers; on each upstream     *)
(* socket the memberships, which the kernel counts; and the forwarding     *)
(* cache, which says on which interfaces a group goes out.                 *)
(*                                                                         *)
(* One thread handles a datagram or a tick at a time, each to its end.  A  *)
(* member of Loyal is a host that answers every general query in time and  *)
(* whose group nobody leaves; the other hosts do as they like.             *)
(***************************************************************************)
EXTENDS Naturals, FiniteSets

CONSTANTS
    Downstream,       \* interfaces with hosts
    NumUpstream,      \* length of upstream_if_list
    Groups,           \* group addresses, none of them local
    Queries,          \* the nodes of the pool of IGMP_QUERYs
    MaxGroups,        \* MAX_NUMBER_GROUPS
    MaxMemberships,   \* IP_MAX_MEMBERSHIPS of a socket
    GroupInterval,    \* group_membership_interval
    QueryInterval,    \* query_interval
    OtherQuerier,     \* other_querier_present_interval
    LastMember,       \* last_member_query_interval
    Response,         \* query_response_interval, as hosts keep it
    Loyal,            \* pairs <<interface, group>> with such a host
    MaxPackets, MaxFaults,   \* bounds
    None              \* no group, no answer due

Upstream == 1 .. NumUpstream
States == {"MEMBERS_PRESENT", "VERSION_1_MEMBERS_PRESENT", "CHECKING_MEMBERSHIP"}
Group == [state : States, group_timer : Nat, v1_host_timer : Nat,
          retransmit_timer : Nat, query_list : SUBSET Queries]

ASSUME IgmpAssumption ==
    /\ {NumUpstream, MaxGroups, MaxMemberships} \subseteq Nat
    /\ {GroupInterval, QueryInterval, OtherQuerier, Response} \subseteq Nat
    /\ LastMember \in Nat \ {0}
    /\ Loyal \subseteq Downstream \X Groups
    /\ IsFiniteSet(Groups) /\ IsFiniteSet(Downstream)
    /\ {MaxPackets, MaxFaults} \subseteq Nat
    /\ None \notin Nat /\ None \notin Group

\* igmp_proxy.h: 125, 300 and 350 seconds, and 10 for the answer.
ASSUME IntervalAssumption ==
    /\ QueryInterval + 1 + Response <= GroupInterval
    /\ OtherQuerier + 2 + Response <= GroupInterval

VARIABLES
    db,                     \* group_database of each interface
    free,                   \* free_query_list
    querier,                \* bIsQuerier
    general_query_timer, querier_present_timer,
    joined,                 \* kernel: the count of a membership, for each socket
    mfc,                    \* kernel: the interfaces of the entry, {} without one
    due,                    \* loyal hosts: ticks left to answer a general query
    heard, heard1,          \* history: ticks since a report, a version 1 report
    left,                   \* history: ticks since the last leave, None after a report
    unasked,                \* history: groups of loyal hosts that, since their last report,
                            \* missed a general query, or had it put off
    failed,                 \* history: groups whose last update of the kernel failed
    packets, faults

proxy == <<db, free>>
election == <<querier, general_query_timer, querier_present_timer>>
kernel == <<joined, mfc, failed, faults>>
hist == <<heard, heard1, left, unasked>>
vars == <<proxy, election, kernel, due, hist, packets>>

Members(d, g) == {n \in Downstream : d[n][g] # None}
Present == {x \in Downstream \X Groups : db[x[1]][x[2]] # None}

-----------------------------------------------------------------------------
(* The kernel, and the two functions that drive it. *)

\* ip_mc_join_group: a new membership beyond the limit of the socket is refused;
\* one it has is only counted.
Refused(u, g) ==
    /\ joined[u][g] = 0
    /\ Cardinality({h \in Groups : joined[u][h] > 0}) >= MaxMemberships

\* The upstreams are joined one after the other; the first failure, at k, ends
\* the function.  Joining fails too if the interface is gone, adding an entry if
\* there is no memory.  d is the database with the new group.
igmp_proxy_add_membership(d, g) ==
    \E k \in 1 .. NumUpstream + 1, fault \in BOOLEAN :
        /\ \A u \in Upstream : u < k => ~Refused(u, g)
        /\ k \in Upstream => fault \/ Refused(k, g)
        /\ fault => faults < MaxFaults /\ (k \in Upstream \/ mfc[g] = {})
        /\ faults' = IF fault THEN faults + 1 ELSE faults
        /\ failed' = IF fault \/ k \in Upstream THEN failed \union {g} ELSE failed \ {g}
        /\ joined' = [u \in Upstream |->
                        IF u < k THEN [joined[u] EXCEPT ![g] = @ + 1] ELSE joined[u]]
        /\ mfc' = IF fault \/ k \in Upstream THEN mfc
                  ELSE [mfc EXCEPT ![g] = Members(d, g)]

\* Variant: the upstream is left with every interface.
LeavesUpstream_each(d, G, u, g) == g \in G /\ \A v \in 1 .. u : joined[v][g] > 0

\* The membership on u is dropped if no interface has the group any more and
\* the sockets before u had it too.
LeavesUpstream(d, G, u, g) ==
    g \in G /\ Members(d, g) = {} /\ \A v \in 1 .. u : joined[v][g] > 0

\* The entry without the interfaces that have gone: the old one is deleted, the
\* new one may fail for lack of memory.
Entry(d, g, fault) ==
    IF Members(d, g) = {}
    THEN IF \A u \in Upstream : joined[u][g] > 0 THEN {} ELSE mfc[g]
    ELSE IF mfc[g] = {} \/ fault THEN {} ELSE Members(d, g)

\* igmp_proxy_drop_membership for each interface that has lost a group of G.
\* d is the database without them, before the faults of the tick so far.
igmp_proxy_drop_membership(d, G, before) ==
    \E F \in SUBSET {g \in G : Members(d, g) # {} /\ mfc[g] # {}} :
        /\ faults + before + Cardinality(F) <= MaxFaults
        /\ faults' = faults + before + Cardinality(F)
        /\ failed' = (failed \union F) \
                        {g \in G \ F : Members(d, g) = {} \/ mfc[g] # {}}
        /\ joined' = [u \in Upstream |-> [g \in Groups |->
                        IF LeavesUpstream(d, G, u, g) THEN joined[u][g] - 1
                        ELSE joined[u][g]]]
        /\ mfc' = [g \in Groups |-> IF g \in G THEN Entry(d, g, g \in F) ELSE mfc[g]]

-----------------------------------------------------------------------------
(* Datagrams. *)

Packet == packets < MaxPackets /\ packets' = packets + 1

\* Variant: the scheduled queries are forgotten, not given back.
Cancelled_forgotten(r) == {}

\* The scheduled queries that a report gives back to the pool.
Cancelled(r) ==
    IF r # None /\ r.state = "CHECKING_MEMBERSHIP" THEN r.query_list ELSE {}

\* Variant: a version 2 report ends the version 1 state.
Reported_downgrade(r, v) ==
    [state |-> IF v = 1 THEN "VERSION_1_MEMBERS_PRESENT" ELSE "MEMBERS_PRESENT",
     group_timer |-> GroupInterval,
     v1_host_timer |-> IF v = 1 THEN GroupInterval ELSE 0,
     retransmit_timer |-> 0,
     query_list |-> {}]

\* The group after a report of version v, r being the group before it.
Reported(r, v) ==
    [state |-> IF v = 1 \/ (r # None /\ r.state = "VERSION_1_MEMBERS_PRESENT")
               THEN "VERSION_1_MEMBERS_PRESENT" ELSE "MEMBERS_PRESENT",
     group_timer |-> GroupInterval,
     v1_host_timer |-> IF v = 1 THEN GroupInterval
                       ELSE IF r = None THEN 0 ELSE r.v1_host_timer,
     retransmit_timer |-> IF r = None THEN 0 ELSE r.retransmit_timer,
     query_list |-> IF r = None THEN {} ELSE r.query_list \ Cancelled(r)]

\* igmp_router_version1_report_handler and ..._version2_report_handler.
Report(n, g, v) ==
    LET r == db[n][g] IN
    /\ \/ /\ r = None /\ Cardinality(Present) >= MaxGroups
          /\ UNCHANGED <<db, kernel, hist>>
       \/ /\ r # None \/ Cardinality(Present) < MaxGroups
          /\ db' = [db EXCEPT ![n][g] = Reported(r, v)]
          /\ IF r = None THEN igmp_proxy_add_membership(db', g) ELSE UNCHANGED kernel
          /\ heard' = [heard EXCEPT ![n][g] = 0]
          /\ heard1' = IF v = 1 THEN [heard1 EXCEPT ![n][g] = 0] ELSE heard1
          /\ left' = [left EXCEPT ![n][g] = None]
          /\ unasked' = unasked \ {<<n, g>>}
    /\ free' = free \union Cancelled(r)
    /\ UNCHANGED election

AnyReport(n, g, v) == Packet /\ Report(n, g, v) /\ UNCHANGED due

\* The answer of a loyal host.
Answer(n, g, v) ==
    /\ <<n, g>> \in Loyal /\ due[<<n, g>>] # None
    /\ Report(n, g, v)
    /\ due' = [due EXCEPT ![<<n, g>>] = None]
    /\ UNCHANGED packets

\* last_member_query_count - 1, which is one, query of the pool.
Scheduled == IF free = {} THEN {} ELSE {CHOOSE q \in free : TRUE}

\* The group when a leave has been accepted.
Left(r) ==
    [state |-> "CHECKING_MEMBERSHIP",
     group_timer |-> 2 * LastMember,
     v1_host_timer |-> 0,
     retransmit_timer |-> LastMember,
     query_list |-> r.query_list \union Scheduled]

\* igmp_router_leave_handler: nothing happens in the version 1 state, nor when
\* the pool has no query left.
Leave(n, g) ==
    LET r == db[n][g] IN
    /\ Packet /\ <<n, g>> \notin Loyal
    /\ IF r = None \/ r.state = "VERSION_1_MEMBERS_PRESENT" \/ Scheduled = {}
       THEN UNCHANGED <<db, free, left>>
       ELSE /\ db' = [db EXCEPT ![n][g] = Left(r)]
            /\ free' = free \ Scheduled
            /\ left' = [left EXCEPT ![n][g] = 0]
    /\ UNCHANGED <<election, kernel, due, heard, heard1, unasked>>

\* Loyal hosts on the interfaces I have been asked.
Asked(D, I) == [x \in Loyal |-> IF D[x] = None /\ x[1] \in I THEN Response ELSE D[x]]

\* The loyal hosts on the interfaces I.
On(I) == {x \in Loyal : x[1] \in I}

\* What the hosts have of another router's query: a group specific one asks none
\* of the loyal hosts, and may put off the query that would.
Overheard(n, lower, specific) ==
    IF specific THEN /\ unasked' = IF lower THEN unasked \union On({n}) ELSE unasked
                     /\ UNCHANGED due
    ELSE due' = Asked(due, {n}) /\ UNCHANGED unasked

\* Variant: the general query timer keeps what it had.
igmp_router_received_general_query_norestart(n, lower, specific) ==
    /\ Packet
    /\ querier' = IF lower THEN [querier EXCEPT ![n] = FALSE] ELSE querier
    /\ querier_present_timer' =
          [querier_present_timer EXCEPT ![n] = IF lower THEN OtherQuerier ELSE 0]
    /\ general_query_timer' =
          IF lower THEN [general_query_timer EXCEPT ![n] = QueryInterval] ELSE general_query_timer
    /\ Overheard(n, lower, specific)
    /\ UNCHANGED <<proxy, kernel, heard, heard1, left>>

\* Another router's query, from a lower address or not.  A group specific one is
\* handled like a general one.
igmp_router_received_general_query(n, lower, specific) ==
    /\ Packet
    /\ querier' = IF lower THEN [querier EXCEPT ![n] = FALSE] ELSE querier
    /\ querier_present_timer' =
          [querier_present_timer EXCEPT ![n] = IF lower THEN OtherQuerier ELSE 0]
    /\ general_query_timer' =
          IF lower THEN [general_query_timer EXCEPT ![n] = 0] ELSE general_query_timer
    /\ Overheard(n, lower, specific)
    /\ UNCHANGED <<proxy, kernel, heard, heard1, left>>

-----------------------------------------------------------------------------
(* The timer. *)

\* A scheduled query that is sent, and goes back to the pool, at this tick.
Sent(r) ==
    IF r # None /\ r.state = "CHECKING_MEMBERSHIP" /\ r.retransmit_timer = 0 /\ r.query_list # {}
    THEN {CHOOSE q \in r.query_list : TRUE} ELSE {}

\* A group while its members are being asked for: after a query was sent the loop
\* comes back to the group, and counts its timer down at once.
Checked(r) ==
    IF r.retransmit_timer > 0 THEN [r EXCEPT !.retransmit_timer = @ - 1]
    ELSE IF r.query_list = {} THEN None
    ELSE [r EXCEPT !.query_list = @ \ Sent(r), !.retransmit_timer = LastMember - 1]

\* Variant: the version 1 state is not left.
Aged_v1(r) ==
    IF r = None THEN None
    ELSE IF r.state = "CHECKING_MEMBERSHIP" THEN Checked(r)
    ELSE IF r.state = "VERSION_1_MEMBERS_PRESENT"
    THEN [r EXCEPT !.v1_host_timer = IF @ = 0 THEN 0 ELSE @ - 1]
    ELSE IF r.group_timer = 0 THEN None
    ELSE [r EXCEPT !.group_timer = @ - 1]

\* A group after a tick, None when it is removed.
Aged(r) ==
    IF r = None THEN None
    ELSE IF r.state = "CHECKING_MEMBERSHIP" THEN Checked(r)
    ELSE IF r.group_timer = 0 THEN None
    ELSE IF r.state = "VERSION_1_MEMBERS_PRESENT" /\ r.v1_host_timer > 0
    THEN [r EXCEPT !.v1_host_timer = @ - 1, !.group_timer = @ - 1]
    ELSE [r EXCEPT !.state = "MEMBERS_PRESENT", !.group_timer = @ - 1]

\* The interfaces on which a general query is sent at this tick.
Queried == {n \in Downstream : querier[n] /\ general_query_timer[n] = 0}

\* Variant: the timer is counted down past 0.
Down_past(t) == t - 1

Down(t) == IF t = 0 THEN 0 ELSE t - 1
Count(t, limit) == IF t < limit THEN t + 1 ELSE t

\* The general queries sent at this tick but for those in lost, whose sendto
\* fails: the timer is restarted all the same.
SendQueries(lost) ==
    /\ due' = Asked([x \in Loyal |-> IF due[x] = None THEN None ELSE due[x] - 1], Queried \ lost)
    /\ unasked' = unasked \union On(lost)

\* igmp_router_timer_expired, once a second.  A loyal host that has to answer
\* now does so first.
igmp_router_timer_expired ==
    /\ \A x \in Loyal : due[x] # 0
    /\ querier' = [n \in Downstream |-> querier[n] \/ querier_present_timer[n] = 0]
    /\ general_query_timer' = [n \in Downstream |->
          IF ~querier[n] THEN general_query_timer[n]
          ELSE IF n \in Queried THEN QueryInterval ELSE general_query_timer[n] - 1]
    /\ querier_present_timer' = [n \in Downstream |->
          IF querier[n] THEN querier_present_timer[n] ELSE Down(querier_present_timer[n])]
    /\ db' = [n \in Downstream |-> [g \in Groups |-> Aged(db[n][g])]]
    /\ free' = free \union UNION {Sent(db[n][g]) : n \in Downstream, g \in Groups}
    /\ \E lost \in SUBSET Queried :
          /\ SendQueries(lost)
          /\ igmp_proxy_drop_membership(db', {g \in Groups : Members(db', g) # Members(db, g)},
                                        Cardinality(lost))
    /\ heard' = [n \in Downstream |-> [g \in Groups |->
          IF db'[n][g] = None THEN GroupInterval ELSE Count(heard[n][g], GroupInterval)]]
    /\ heard1' = [n \in Downstream |-> [g \in Groups |->
          IF db'[n][g] = None THEN GroupInterval ELSE Count(heard1[n][g], GroupInterval)]]
    /\ left' = [n \in Downstream |-> [g \in Groups |->
          IF db'[n][g] = None \/ left[n][g] = None THEN None
          ELSE Count(left[n][g], 2 * LastMember)]]
    /\ UNCHANGED packets

-----------------------------------------------------------------------------
OnAll(t) == [n \in Downstream |-> t]
OnEach(t) == [n \in Downstream |-> [g \in Groups |-> t]]

\* igmp_create_network_list, and the pools main fills.
Init ==
    /\ db = OnEach(None) /\ free = Queries
    /\ querier = OnAll(TRUE)
    /\ general_query_timer = OnAll(0) /\ querier_present_timer = OnAll(0)
    /\ joined = [u \in Upstream |-> [g \in Groups |-> 0]]
    /\ mfc = [g \in Groups |-> {}]
    /\ due = [x \in Loyal |-> None]
    /\ heard = OnEach(GroupInterval) /\ heard1 = OnEach(GroupInterval)
    /\ left = OnEach(None) /\ unasked = {} /\ failed = {}
    /\ packets = 0 /\ faults = 0

Next ==
    \/ \E n \in Downstream, g \in Groups, v \in {1, 2} : AnyReport(n, g, v)
    \/ \E n \in Downstream, g \in Groups, v \in {1, 2} : Answer(n, g, v)
    \/ \E n \in Downstream, g \in Groups : Leave(n, g)
    \/ \E n \in Downstream, lower \in BOOLEAN, specific \in BOOLEAN :
          igmp_router_received_general_query(n, lower, specific)
    \/ igmp_router_timer_expired

Spec == Init /\ [][Next]_vars

\* The interval timer goes on, and a host answers what it has been asked.
FairSpec ==
    /\ Spec
    /\ WF_vars(igmp_router_timer_expired)
    /\ WF_vars(\E n \in Downstream, g \in Groups, v \in {1, 2} : Answer(n, g, v))

-----------------------------------------------------------------------------
\* Every variable has the type its declaration in igmp_proxy.h, or in the kernel,
\* gives it.
TypeOK ==
    /\ db \in [Downstream -> [Groups -> Group \union {None}]]
    /\ free \subseteq Queries
    /\ querier \in [Downstream -> BOOLEAN]
    /\ general_query_timer \in [Downstream -> 0 .. QueryInterval]
    /\ querier_present_timer \in [Downstream -> 0 .. OtherQuerier]
    /\ joined \in [Upstream -> [Groups -> Nat]]
    /\ mfc \in [Groups -> SUBSET Downstream]
    /\ due \in [Loyal -> (0 .. Response) \union {None}]
    /\ heard \in [Downstream -> [Groups -> 0 .. GroupInterval]]
    /\ heard1 \in [Downstream -> [Groups -> 0 .. GroupInterval]]
    /\ left \in [Downstream -> [Groups -> (0 .. 2 * LastMember) \union {None}]]
    /\ unasked \subseteq Loyal
    /\ failed \subseteq Groups
    /\ packets \in Nat /\ faults \in Nat

\* The nodes of the query pool move between the free list and the lists of the
\* groups (list_remove, list_add, list_cat), of several interfaces, by leaves,
\* reports and ticks: none is ever lost, and none is on two lists.
QueriesConserved ==
    /\ free \union UNION {db[x[1]][x[2]].query_list : x \in Present} = Queries
    /\ \A x \in Present :
          /\ db[x[1]][x[2]].query_list \intersect free = {}
          /\ \A y \in Present \ {x} :
                db[x[1]][x[2]].query_list \intersect db[y[1]][y[2]].query_list = {}

\* The forwarding cache, which the proxy deletes and adds again from what it finds
\* in the databases, sends a group to no interface without members; it sends
\* it to all that have members unless the last update for the group failed (so that
\* a later one puts right what a failure left), and never while an upstream socket is
\* not a member.
ForwardingExact ==
    \A g \in Groups :
        /\ mfc[g] \subseteq Members(db, g)
        /\ g \notin failed => mfc[g] = Members(db, g)
        /\ mfc[g] # {} => \A u \in Upstream : joined[u][g] > 0

\* A tick removes a group only after GroupInterval seconds without a report, or
\* 2 * LastMember after the last leave with no report since (a host has LastMember
\* seconds to answer the query), and never within GroupInterval of a version 1 report,
\* whatever leaves and version 2 reports came in between.
GroupKept ==
    [][\A n \in Downstream, g \in Groups :
          db[n][g] # None /\ db'[n][g] = None
          => /\ heard[n][g] >= GroupInterval
                \/ (left[n][g] # None /\ left[n][g] >= 2 * LastMember)
             /\ heard1[n][g] >= GroupInterval]_vars

\* A group with a host that answers every general query stays, although the role
\* of the querier goes to another router and comes back when that one falls silent:
\* the timers of the election leave the group enough time until the next query.
\* There are two ways to lose it: since its last report a group specific query of
\* another router, which is handled like a general one and asks nobody, has put off
\* the general query, or sendto has failed to send one.
MemberKept ==
    [][\A x \in Loyal : db[x[1]][x[2]] # None /\ x \notin unasked
                        => db'[x[1]][x[2]] # None]_vars

\* Once the other hosts are silent (MaxPackets), every group but those of the loyal
\* hosts is removed and does not come back, whatever state a leave, an exhausted pool
\* or a version 1 report left it in.
GroupsEnd == <>[](Present \subseteq Loyal)

\* The comment on igmp_proxy_drop_membership: when no interface has
\* the group any more, the proxy has left it on the upstream interfaces.
UpstreamFollows ==
    \A u \in Upstream, g \in Groups : joined[u][g] > 0 => Members(db, g) # {}
=============================================================================
