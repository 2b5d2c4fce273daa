----------------------------- MODULE IgmpProofs -----------------------------
(***************************************************************************)
(* Proofs about IgmpProxy, for any interfaces, groups, pools and timers     *)
(* that satisfy its assumptions.                                            *)
(***************************************************************************)
EXTENDS IgmpProxy, FiniteSetTheorems, TLAPS

GroupOrNone == Group \union {None}

-----------------------------------------------------------------------------
(* What the handlers do to one group. *)

\* Reported gives a group, with the timers and the lists the handlers leave in it.
LEMMA ReportedGroup ==
    ASSUME NEW r \in GroupOrNone, NEW v \in {1, 2}
    PROVE  /\ Reported(r, v) \in Group
           /\ Reported(r, v) # None
           /\ Reported(r, v).state \in {"MEMBERS_PRESENT", "VERSION_1_MEMBERS_PRESENT"}
           /\ Reported(r, v).group_timer = GroupInterval
<1>1. Cancelled(r) \subseteq Queries
  BY DEF Cancelled, GroupOrNone, Group
<1>2. Reported(r, v) \in Group
  BY <1>1, IgmpAssumption DEF Reported, GroupOrNone, Group, States
<1>3. Reported(r, v) # None
  BY <1>2, IgmpAssumption
<1> QED BY <1>2, <1>3 DEF Reported

\* A tick leaves a group or removes it.
LEMMA AgedGroup ==
    ASSUME NEW r \in GroupOrNone
    PROVE  /\ Aged(r) \in GroupOrNone
           /\ Sent(r) \subseteq Queries
           /\ r = None => Aged(r) = None
<1>1. CASE r = None
  BY <1>1 DEF Aged, Sent, GroupOrNone
<1>2. CASE r # None /\ r.state = "CHECKING_MEMBERSHIP"
  <2>1. r \in Group BY <1>2 DEF GroupOrNone
  <2>2. Sent(r) \subseteq Queries BY <2>1 DEF Sent, Group
  <2>3. Checked(r) \in GroupOrNone
    <3>1. CASE r.retransmit_timer > 0
      BY <2>1, <3>1 DEF Checked, GroupOrNone, Group
    <3>2. CASE r.retransmit_timer = 0
      <4>1. CASE r.query_list = {}
        BY <3>2, <4>1 DEF Checked, GroupOrNone
      <4>2. CASE r.query_list # {}
        <5>1. LastMember - 1 \in Nat BY IgmpAssumption
        <5>2. r.query_list \ Sent(r) \in SUBSET Queries BY <2>1 DEF Group
        <5>3. [r EXCEPT !.query_list = @ \ Sent(r), !.retransmit_timer = LastMember - 1] \in Group
          BY <2>1, <5>1, <5>2 DEF Group
        <5> QED BY <3>2, <4>2, <5>3 DEF Checked, GroupOrNone
      <4> QED BY <4>1, <4>2
    <3> QED BY <2>1, <3>1, <3>2 DEF Group
  <2> QED BY <1>2, <2>2, <2>3 DEF Aged
<1>3. CASE r # None /\ r.state # "CHECKING_MEMBERSHIP"
  <2>1. r \in Group BY <1>3 DEF GroupOrNone
  <2>2. Sent(r) = {} BY <1>3 DEF Sent
  <2>3. Aged(r) \in GroupOrNone
    <3>1. CASE r.group_timer = 0
      BY <1>3, <3>1 DEF Aged, GroupOrNone
    <3>2. CASE r.group_timer # 0 /\ r.state = "VERSION_1_MEMBERS_PRESENT" /\ r.v1_host_timer > 0
      <4>1. /\ Aged(r) = [r EXCEPT !.v1_host_timer = @ - 1, !.group_timer = @ - 1]
            /\ r.v1_host_timer - 1 \in Nat /\ r.group_timer - 1 \in Nat
        BY <1>3, <2>1, <3>2 DEF Aged, Group
      <4> QED BY <2>1, <4>1 DEF GroupOrNone, Group
    <3>3. CASE r.group_timer # 0 /\ ~(r.state = "VERSION_1_MEMBERS_PRESENT" /\ r.v1_host_timer > 0)
      <4>1. /\ Aged(r) = [r EXCEPT !.state = "MEMBERS_PRESENT", !.group_timer = @ - 1]
            /\ r.group_timer - 1 \in Nat
        BY <1>3, <2>1, <3>3 DEF Aged, Group
      <4> QED BY <2>1, <4>1 DEF GroupOrNone, Group, States
    <3> QED BY <3>1, <3>2, <3>3
  <2> QED BY <1>3, <2>2, <2>3
<1> QED BY <1>1, <1>2, <1>3

-----------------------------------------------------------------------------
(* Types. *)

\* The part of the types that the kernel keeps.
KernelType ==
    /\ joined \in [Upstream -> [Groups -> Nat]]
    /\ mfc \in [Groups -> SUBSET Downstream]
    /\ failed \subseteq Groups
    /\ faults \in Nat

\* igmp_proxy_add_membership keeps the types of the kernel's state.
LEMMA AddType ==
    ASSUME KernelType, NEW d, NEW g \in Groups, igmp_proxy_add_membership(d, g)
    PROVE  KernelType'
<1>1. PICK k \in 1 .. NumUpstream + 1, fault \in BOOLEAN :
        /\ faults' = IF fault THEN faults + 1 ELSE faults
        /\ failed' = IF fault \/ k \in Upstream THEN failed \union {g} ELSE failed \ {g}
        /\ joined' = [u \in Upstream |->
                        IF u < k THEN [joined[u] EXCEPT ![g] = @ + 1] ELSE joined[u]]
        /\ mfc' = IF fault \/ k \in Upstream THEN mfc
                  ELSE [mfc EXCEPT ![g] = Members(d, g)]
  BY DEF igmp_proxy_add_membership
<1>2. faults' \in Nat BY <1>1 DEF KernelType
<1>3. failed' \subseteq Groups BY <1>1 DEF KernelType
<1>4. joined' \in [Upstream -> [Groups -> Nat]] BY <1>1 DEF KernelType
<1>5. mfc' \in [Groups -> SUBSET Downstream] BY <1>1 DEF KernelType, Members
<1> QED BY <1>2, <1>3, <1>4, <1>5 DEF KernelType

\* So does igmp_proxy_drop_membership: no count goes below 0.
LEMMA DropType ==
    ASSUME KernelType, NEW d, NEW G \in SUBSET Groups, NEW before \in Nat,
           igmp_proxy_drop_membership(d, G, before)
    PROVE  KernelType'
<1>1. PICK F \in SUBSET {g \in G : Members(d, g) # {} /\ mfc[g] # {}} :
        /\ faults' = faults + before + Cardinality(F)
        /\ failed' = (failed \union F) \
                        {g \in G \ F : Members(d, g) = {} \/ mfc[g] # {}}
        /\ joined' = [u \in Upstream |-> [g \in Groups |->
                        IF LeavesUpstream(d, G, u, g) THEN joined[u][g] - 1
                        ELSE joined[u][g]]]
        /\ mfc' = [g \in Groups |-> IF g \in G THEN Entry(d, g, g \in F) ELSE mfc[g]]
  BY DEF igmp_proxy_drop_membership
<1>2. Cardinality(F) \in Nat
  BY IgmpAssumption, FS_Subset, FS_CardinalityType
<1>3. faults' \in Nat BY <1>1, <1>2 DEF KernelType
<1>4. failed' \subseteq Groups BY <1>1 DEF KernelType
<1>5. joined' \in [Upstream -> [Groups -> Nat]]
  <2>1. ASSUME NEW u \in Upstream, NEW g \in Groups, LeavesUpstream(d, G, u, g)
        PROVE  joined[u][g] - 1 \in Nat
    <3>1. u \in 1 .. u BY IgmpAssumption DEF Upstream
    <3>2. joined[u][g] > 0 BY <2>1, <3>1 DEF LeavesUpstream
    <3> QED BY <3>2 DEF KernelType
  <2> QED BY <1>1, <2>1 DEF KernelType
<1>6. mfc' \in [Groups -> SUBSET Downstream]
  BY <1>1 DEF KernelType, Entry, Members
<1> QED BY <1>3, <1>4, <1>5, <1>6 DEF KernelType

\* A report keeps the types of all it changes.
LEMMA ReportType ==
    ASSUME TypeOK, NEW n \in Downstream, NEW g \in Groups, NEW v \in {1, 2}, Report(n, g, v)
    PROVE  /\ db' \in [Downstream -> [Groups -> Group \union {None}]]
           /\ free' \subseteq Queries
           /\ querier' \in [Downstream -> BOOLEAN]
           /\ general_query_timer' \in [Downstream -> 0 .. QueryInterval]
           /\ querier_present_timer' \in [Downstream -> 0 .. OtherQuerier]
           /\ KernelType'
           /\ heard' \in [Downstream -> [Groups -> 0 .. GroupInterval]]
           /\ heard1' \in [Downstream -> [Groups -> 0 .. GroupInterval]]
           /\ left' \in [Downstream -> [Groups -> (0 .. 2 * LastMember) \union {None}]]
           /\ unasked' \subseteq Loyal
<1> USE IgmpAssumption
<1>1. db[n][g] \in GroupOrNone BY DEF TypeOK, GroupOrNone
<1>2. Reported(db[n][g], v) \in Group BY <1>1, ReportedGroup
<1>3. db' \in [Downstream -> [Groups -> Group \union {None}]]
  <2>1. db' = db \/ db' = [db EXCEPT ![n][g] = Reported(db[n][g], v)] BY DEF Report
  <2>2. [db[n] EXCEPT ![g] = Reported(db[n][g], v)] \in [Groups -> Group \union {None}]
    BY <1>2 DEF TypeOK
  <2> QED BY <2>1, <2>2 DEF TypeOK
<1>4. free' \subseteq Queries
  <2>1. Cancelled(db[n][g]) \subseteq Queries BY <1>1 DEF Cancelled, GroupOrNone, Group
  <2> QED BY <2>1 DEF Report, TypeOK
<1>5. KernelType'
  <2>1. KernelType BY DEF TypeOK, KernelType
  <2>2. UNCHANGED kernel \/ igmp_proxy_add_membership(db', g) BY DEF Report
  <2>3. CASE UNCHANGED kernel BY <2>1, <2>3 DEF kernel, KernelType
  <2>4. CASE igmp_proxy_add_membership(db', g) BY <2>1, <2>4, AddType
  <2> QED BY <2>2, <2>3, <2>4
<1>6. /\ heard' \in [Downstream -> [Groups -> 0 .. GroupInterval]]
      /\ heard1' \in [Downstream -> [Groups -> 0 .. GroupInterval]]
      /\ left' \in [Downstream -> [Groups -> (0 .. 2 * LastMember) \union {None}]]
  <2>1. heard' \in [Downstream -> [Groups -> 0 .. GroupInterval]]
    <3>1. heard' = heard \/ heard' = [heard EXCEPT ![n][g] = 0] BY DEF Report, hist
    <3>2. [heard[n] EXCEPT ![g] = 0] \in [Groups -> 0 .. GroupInterval] BY DEF TypeOK
    <3> QED BY <3>1, <3>2 DEF TypeOK
  <2>2. heard1' \in [Downstream -> [Groups -> 0 .. GroupInterval]]
    <3>1. heard1' = heard1 \/ heard1' = [heard1 EXCEPT ![n][g] = 0] BY DEF Report, hist
    <3>2. [heard1[n] EXCEPT ![g] = 0] \in [Groups -> 0 .. GroupInterval] BY DEF TypeOK
    <3> QED BY <3>1, <3>2 DEF TypeOK
  <2>3. left' \in [Downstream -> [Groups -> (0 .. 2 * LastMember) \union {None}]]
    <3>1. left' = left \/ left' = [left EXCEPT ![n][g] = None] BY DEF Report, hist
    <3>2. [left[n] EXCEPT ![g] = None] \in [Groups -> (0 .. 2 * LastMember) \union {None}]
      BY DEF TypeOK
    <3> QED BY <3>1, <3>2 DEF TypeOK
  <2> QED BY <2>1, <2>2, <2>3
<1>7. /\ querier' \in [Downstream -> BOOLEAN]
      /\ general_query_timer' \in [Downstream -> 0 .. QueryInterval]
      /\ querier_present_timer' \in [Downstream -> 0 .. OtherQuerier]
  BY DEF Report, election, TypeOK
<1>8. unasked' \subseteq Loyal BY DEF Report, hist, TypeOK
<1> QED BY <1>3, <1>4, <1>5, <1>6, <1>7, <1>8

\* Every step keeps the types.
LEMMA TypeStep ==
    ASSUME TypeOK, [Next]_vars
    PROVE  TypeOK'
<1> USE IgmpAssumption
<1>1. ASSUME NEW n \in Downstream, NEW g \in Groups, NEW v \in {1, 2}, AnyReport(n, g, v)
      PROVE  TypeOK'
  <2>1. Report(n, g, v) BY <1>1 DEF AnyReport
  <2>2. due' = due /\ packets' \in Nat BY <1>1 DEF AnyReport, Packet, TypeOK
  <2> QED BY <2>1, <2>2, ReportType DEF TypeOK, KernelType
<1>2. ASSUME NEW n \in Downstream, NEW g \in Groups, NEW v \in {1, 2}, Answer(n, g, v)
      PROVE  TypeOK'
  <2>1. Report(n, g, v) BY <1>2 DEF Answer
  <2>2. packets' = packets /\ due' \in [Loyal -> (0 .. Response) \union {None}]
    BY <1>2 DEF Answer, TypeOK
  <2> QED BY <2>1, <2>2, ReportType DEF TypeOK, KernelType
<1>3. ASSUME NEW n \in Downstream, NEW g \in Groups, Leave(n, g)
      PROVE  TypeOK'
  <2>1. Scheduled \subseteq Queries BY DEF Scheduled, TypeOK
  <2>2. /\ db' \in [Downstream -> [Groups -> Group \union {None}]]
        /\ free' \subseteq Queries
        /\ left' \in [Downstream -> [Groups -> (0 .. 2 * LastMember) \union {None}]]
    <3>1. CASE UNCHANGED <<db, free, left>> BY <3>1 DEF TypeOK
    <3>2. CASE ~UNCHANGED <<db, free, left>>
      <4> DEFINE r == Left(db[n][g])
      <4>1. /\ db[n][g] # None
            /\ db' = [db EXCEPT ![n][g] = r]
            /\ free' = free \ Scheduled
            /\ left' = [left EXCEPT ![n][g] = 0]
        BY <1>3, <3>2, Zenon DEF Leave
      <4>2. db[n][g] \in Group BY <4>1 DEF TypeOK
      <4>3. db[n][g].query_list \subseteq Queries BY <4>2 DEF Group
      <4>4. r \in Group BY <4>3, <2>1 DEF Left, Group, States
      <4> HIDE DEF r
      <4>5. [db[n] EXCEPT ![g] = r] \in [Groups -> Group \union {None}] BY <4>4 DEF TypeOK
      <4>6. [left[n] EXCEPT ![g] = 0] \in [Groups -> (0 .. 2 * LastMember) \union {None}]
        BY DEF TypeOK
      <4>7. db' \in [Downstream -> [Groups -> Group \union {None}]] BY <4>1, <4>5 DEF TypeOK
      <4>8. left' \in [Downstream -> [Groups -> (0 .. 2 * LastMember) \union {None}]]
        BY <4>1, <4>6 DEF TypeOK
      <4> QED BY <4>1, <4>7, <4>8 DEF TypeOK
    <3> QED BY <3>1, <3>2
  <2> QED BY <1>3, <2>2 DEF Leave, Packet, election, kernel, TypeOK
<1>4. ASSUME NEW n \in Downstream, NEW lower \in BOOLEAN, NEW specific \in BOOLEAN,
             igmp_router_received_general_query(n, lower, specific)
      PROVE  TypeOK'
  <2>1. /\ due' \in [Loyal -> (0 .. Response) \union {None}]
        /\ unasked' \subseteq Loyal
    <3>1. Overheard(n, lower, specific) BY <1>4 DEF igmp_router_received_general_query
    <3>2. On({n}) \subseteq Loyal BY DEF On
    <3>3. Asked(due, {n}) \in [Loyal -> (0 .. Response) \union {None}] BY DEF Asked, TypeOK
    <3>4. CASE specific BY <3>1, <3>2, <3>4 DEF Overheard, TypeOK
    <3>5. CASE ~specific BY <3>1, <3>3, <3>5 DEF Overheard, TypeOK
    <3> QED BY <3>4, <3>5
  <2>2. querier' \in [Downstream -> BOOLEAN]
    BY <1>4 DEF igmp_router_received_general_query, TypeOK
  <2>3. querier_present_timer' \in [Downstream -> 0 .. OtherQuerier]
    BY <1>4 DEF igmp_router_received_general_query, TypeOK
  <2>4. general_query_timer' \in [Downstream -> 0 .. QueryInterval]
    BY <1>4 DEF igmp_router_received_general_query, TypeOK
  <2>5. packets' \in Nat
    BY <1>4 DEF igmp_router_received_general_query, Packet, TypeOK
  <2>6. /\ UNCHANGED <<db, free>> /\ UNCHANGED <<joined, mfc, failed, faults>>
        /\ UNCHANGED <<heard, heard1, left>>
    BY <1>4 DEF igmp_router_received_general_query, proxy, kernel, hist
  <2> QED BY <2>1, <2>2, <2>3, <2>4, <2>5, <2>6 DEF TypeOK
<1>5. ASSUME igmp_router_timer_expired PROVE TypeOK'
  <2>0. ASSUME NEW n \in Downstream, NEW g \in Groups
        PROVE  /\ Aged(db[n][g]) \in Group \union {None}
               /\ Sent(db[n][g]) \subseteq Queries
    <3>1. db[n][g] \in GroupOrNone BY DEF TypeOK, GroupOrNone
    <3> QED BY <3>1, AgedGroup DEF GroupOrNone
  <2>1. db' \in [Downstream -> [Groups -> Group \union {None}]]
    BY <1>5, <2>0 DEF igmp_router_timer_expired
  <2>2. free' \subseteq Queries
    <3>1. UNION {Sent(db[n][g]) : n \in Downstream, g \in Groups} \subseteq Queries BY <2>0
    <3> QED BY <1>5, <3>1 DEF igmp_router_timer_expired, TypeOK
  <2>3. querier' \in [Downstream -> BOOLEAN]
    BY <1>5 DEF igmp_router_timer_expired, TypeOK
  <2>4. general_query_timer' \in [Downstream -> 0 .. QueryInterval]
    <3>1. ASSUME NEW n \in Downstream, querier[n], n \notin Queried
          PROVE  general_query_timer[n] - 1 \in 0 .. QueryInterval
      <4>1. general_query_timer[n] \in 0 .. QueryInterval BY DEF TypeOK
      <4>2. general_query_timer[n] # 0 BY <3>1 DEF Queried
      <4> QED BY <4>1, <4>2
    <3> QED BY <1>5, <3>1 DEF igmp_router_timer_expired, TypeOK
  <2>5. querier_present_timer' \in [Downstream -> 0 .. OtherQuerier]
    <3>1. ASSUME NEW n \in Downstream PROVE Down(querier_present_timer[n]) \in 0 .. OtherQuerier
      <4>1. querier_present_timer[n] \in 0 .. OtherQuerier BY DEF TypeOK
      <4> QED BY <4>1 DEF Down
    <3> QED BY <1>5, <3>1 DEF igmp_router_timer_expired, TypeOK
  <2>6. KernelType'
    <3>1. KernelType BY DEF TypeOK, KernelType
    <3> DEFINE G == {g \in Groups : Members(db', g) # Members(db, g)}
    <3>2. PICK lost \in SUBSET Queried : igmp_proxy_drop_membership(db', G, Cardinality(lost))
      BY <1>5 DEF igmp_router_timer_expired
    <3>3. Cardinality(lost) \in Nat
      <4>1. lost \subseteq Downstream BY DEF Queried
      <4> QED BY <4>1, FS_Subset, FS_CardinalityType
    <3>4. G \in SUBSET Groups OBVIOUS
    <3> HIDE DEF G
    <3> QED BY <3>1, <3>2, <3>3, <3>4, DropType
  <2>7. /\ due' \in [Loyal -> (0 .. Response) \union {None}]
        /\ unasked' \subseteq Loyal
    <3>1. ASSUME NEW x \in Loyal, due[x] # None PROVE due[x] - 1 \in 0 .. Response
      <4>1. due[x] \in 0 .. Response BY <3>1 DEF TypeOK
      <4>2. due[x] # 0 BY <1>5 DEF igmp_router_timer_expired
      <4> QED BY <4>1, <4>2
    <3>2. PICK lost \in SUBSET Queried : SendQueries(lost)
      BY <1>5 DEF igmp_router_timer_expired
    <3> QED BY <3>1, <3>2 DEF SendQueries, Asked, On, TypeOK
  <2>8. /\ heard' \in [Downstream -> [Groups -> 0 .. GroupInterval]]
        /\ heard1' \in [Downstream -> [Groups -> 0 .. GroupInterval]]
    <3>1. ASSUME NEW t \in 0 .. GroupInterval PROVE Count(t, GroupInterval) \in 0 .. GroupInterval
      BY DEF Count
    <3> QED BY <1>5, <3>1 DEF igmp_router_timer_expired, TypeOK
  <2>9. left' \in [Downstream -> [Groups -> (0 .. 2 * LastMember) \union {None}]]
    <3>1. ASSUME NEW t \in 0 .. 2 * LastMember
          PROVE  Count(t, 2 * LastMember) \in 0 .. 2 * LastMember
      BY DEF Count
    <3> QED BY <1>5, <3>1 DEF igmp_router_timer_expired, TypeOK
  <2> QED BY <1>5, <2>1, <2>2, <2>3, <2>4, <2>5, <2>6, <2>7, <2>8, <2>9
          DEF igmp_router_timer_expired, TypeOK, KernelType
<1>6. CASE UNCHANGED vars
  BY <1>6 DEF vars, proxy, election, kernel, hist, TypeOK
<1> QED BY <1>1, <1>2, <1>3, <1>4, <1>5, <1>6 DEF Next

\* The types hold in every reachable state, for any interfaces, groups and timers.
THEOREM TypeCorrect == Spec => []TypeOK
<1>1. Init => TypeOK BY IgmpAssumption DEF Init, TypeOK, OnAll, OnEach
<1> QED BY <1>1, TypeStep, PTL DEF Spec

-----------------------------------------------------------------------------
(* The timers of a group and its history: what removes it. *)

\* h and h1 are the ticks since a report and since one of version 1, l those since
\* the last leave.
Timed(r, h, h1, l) ==
    /\ r = None => h1 >= GroupInterval
    /\ r # None =>
        /\ r.v1_host_timer <= GroupInterval
        /\ r.state # "CHECKING_MEMBERSHIP" =>
              r.query_list = {} /\ r.group_timer + h >= GroupInterval
        /\ r.state = "VERSION_1_MEMBERS_PRESENT" =>
              r.v1_host_timer + h1 >= GroupInterval /\ r.v1_host_timer <= r.group_timer
        /\ r.state # "VERSION_1_MEMBERS_PRESENT" => h1 >= GroupInterval
        /\ r.state = "CHECKING_MEMBERSHIP" =>
              /\ l # None
              /\ l + r.retransmit_timer >= IF r.query_list = {} THEN 2 * LastMember ELSE LastMember

\* Every group's timers agree with its history.
GroupsTimed ==
    \A n \in Downstream, g \in Groups : Timed(db[n][g], heard[n][g], heard1[n][g], left[n][g])

Ticks == 0 .. GroupInterval
Leaves == (0 .. 2 * LastMember) \union {None}

\* A report leaves timers that agree with the history after it.
LEMMA ReportedTimed ==
    ASSUME NEW r \in GroupOrNone, NEW v \in {1, 2}, NEW h \in Ticks, NEW h1 \in Ticks,
           NEW l \in Leaves, Timed(r, h, h1, l)
    PROVE  Timed(Reported(r, v), 0, IF v = 1 THEN 0 ELSE h1, None)
<1> USE IgmpAssumption
<1> DEFINE s == Reported(r, v)
<1> SUFFICES Timed(s, 0, IF v = 1 THEN 0 ELSE h1, None)
  OBVIOUS
<1>1. /\ s # None
      /\ s.state \in {"MEMBERS_PRESENT", "VERSION_1_MEMBERS_PRESENT"}
      /\ s.group_timer = GroupInterval
  BY ReportedGroup
<1>2. s.query_list = {}
  BY DEF Reported, Cancelled, Timed, GroupOrNone
<1>3. CASE v = 1
  <2>1. s.state = "VERSION_1_MEMBERS_PRESENT" /\ s.v1_host_timer = GroupInterval
    BY <1>3 DEF Reported
  <2> HIDE DEF s
  <2> QED BY <1>1, <1>2, <1>3, <2>1 DEF Timed, Ticks
<1>4. CASE v = 2 /\ r # None /\ r.state = "VERSION_1_MEMBERS_PRESENT"
  <2>1. s.state = "VERSION_1_MEMBERS_PRESENT" /\ s.v1_host_timer = r.v1_host_timer
    BY <1>4 DEF Reported
  <2>2. r.v1_host_timer \in Nat BY <1>4 DEF GroupOrNone, Group
  <2> HIDE DEF s
  <2> QED BY <1>1, <1>2, <1>4, <2>1, <2>2 DEF Timed, Ticks
<1>5. CASE v = 2 /\ ~(r # None /\ r.state = "VERSION_1_MEMBERS_PRESENT")
  <2>1. s.state = "MEMBERS_PRESENT" /\ h1 >= GroupInterval
    BY <1>5 DEF Reported, Timed
  <2>2. s.v1_host_timer = IF r = None THEN 0 ELSE r.v1_host_timer
    BY <1>5 DEF Reported
  <2>3. s.v1_host_timer <= GroupInterval BY <2>2 DEF Timed
  <2> HIDE DEF s
  <2> QED BY <1>1, <1>2, <1>5, <2>1, <2>3 DEF Timed, Ticks
<1> QED BY <1>3, <1>4, <1>5

\* So does a tick, and the group it removes has been silent, or left, long enough.
LEMMA AgedTimed ==
    ASSUME NEW r \in GroupOrNone, NEW h \in Ticks, NEW h1 \in Ticks,
           NEW l \in Leaves, Timed(r, h, h1, l)
    PROVE  /\ Timed(Aged(r),
                    IF Aged(r) = None THEN GroupInterval ELSE Count(h, GroupInterval),
                    IF Aged(r) = None THEN GroupInterval ELSE Count(h1, GroupInterval),
                    IF Aged(r) = None \/ l = None THEN None ELSE Count(l, 2 * LastMember))
           /\ r # None /\ Aged(r) = None =>
                /\ h >= GroupInterval \/ (l # None /\ l >= 2 * LastMember)
                /\ h1 >= GroupInterval
<1> USE IgmpAssumption
<1>1. CASE r = None
  BY <1>1 DEF Aged, Timed
<1>2. CASE r # None /\ r.state = "CHECKING_MEMBERSHIP"
  <2>1. r \in Group /\ Aged(r) = Checked(r) BY <1>2 DEF GroupOrNone, Aged
  <2>2. /\ r.retransmit_timer \in Nat /\ r.v1_host_timer \in Nat
        /\ l \in 0 .. 2 * LastMember /\ h1 >= GroupInterval
        /\ r.v1_host_timer <= GroupInterval
        /\ l + r.retransmit_timer >= IF r.query_list = {} THEN 2 * LastMember ELSE LastMember
    BY <1>2, <2>1 DEF Group, Timed, Leaves
  <2>3. CASE r.retransmit_timer > 0
    <3> DEFINE s == [r EXCEPT !.retransmit_timer = @ - 1]
    <3>1. /\ s.state = r.state /\ s.v1_host_timer = r.v1_host_timer
          /\ s.query_list = r.query_list /\ s.retransmit_timer = r.retransmit_timer - 1
      BY <2>1 DEF Group
    <3>2. s \in Group BY <2>1, <2>2, <2>3 DEF Group
    <3>3. Aged(r) = s /\ s # None BY <2>1, <2>3, <3>2 DEF Checked
    <3> HIDE DEF s
    <3> QED BY <1>2, <2>2, <2>3, <3>1, <3>3 DEF Timed, Count, Ticks
  <2>4. CASE r.retransmit_timer = 0 /\ r.query_list = {}
    BY <2>1, <2>2, <2>4, <1>2 DEF Checked, Timed
  <2>5. CASE r.retransmit_timer = 0 /\ r.query_list # {}
    <3> DEFINE s == [r EXCEPT !.query_list = @ \ Sent(r), !.retransmit_timer = LastMember - 1]
    <3>1. /\ s.state = r.state /\ s.v1_host_timer = r.v1_host_timer
          /\ s.retransmit_timer = LastMember - 1
      BY <2>1 DEF Group
    <3>2. Aged(r) = s BY <2>1, <2>5 DEF Checked
    <3>3. s # None
      <4>1. r.query_list \ Sent(r) \in SUBSET Queries /\ LastMember - 1 \in Nat BY <2>1 DEF Group
      <4>2. s \in Group BY <2>1, <4>1 DEF Group
      <4> QED BY <4>2
    <3> HIDE DEF s
    <3> QED BY <1>2, <2>2, <2>5, <3>1, <3>2, <3>3 DEF Timed, Count, Ticks
  <2> QED BY <2>2, <2>3, <2>4, <2>5
<1>3. CASE r # None /\ r.state # "CHECKING_MEMBERSHIP"
  <2>1. r \in Group BY <1>3 DEF GroupOrNone
  <2>2. /\ r.group_timer \in Nat /\ r.v1_host_timer \in Nat
        /\ r.v1_host_timer <= GroupInterval
        /\ r.query_list = {} /\ r.group_timer + h >= GroupInterval
        /\ r.state = "VERSION_1_MEMBERS_PRESENT" =>
              r.v1_host_timer + h1 >= GroupInterval /\ r.v1_host_timer <= r.group_timer
        /\ r.state # "VERSION_1_MEMBERS_PRESENT" => h1 >= GroupInterval
    BY <1>3, <2>1 DEF Group, Timed
  <2>3. CASE r.group_timer = 0
    <3>1. Aged(r) = None BY <1>3, <2>3 DEF Aged
    <3>2. h >= GroupInterval /\ h1 >= GroupInterval BY <2>2, <2>3 DEF Ticks
    <3> QED BY <3>1, <3>2 DEF Timed
  <2>4. CASE r.group_timer # 0 /\ r.state = "VERSION_1_MEMBERS_PRESENT" /\ r.v1_host_timer > 0
    <3> DEFINE s == [r EXCEPT !.v1_host_timer = @ - 1, !.group_timer = @ - 1]
    <3>1. Aged(r) = s BY <1>3, <2>4 DEF Aged
    <3>2. /\ s.state = r.state /\ s.query_list = r.query_list
          /\ s.group_timer = r.group_timer - 1 /\ s.v1_host_timer = r.v1_host_timer - 1
      BY <2>1 DEF Group
    <3>3. s # None
      <4>1. r.group_timer - 1 \in Nat /\ r.v1_host_timer - 1 \in Nat BY <2>2, <2>4
      <4>2. s \in Group BY <2>1, <4>1 DEF Group
      <4> QED BY <4>2
    <3> HIDE DEF s
    <3> QED BY <2>2, <2>4, <3>1, <3>2, <3>3 DEF Timed, Count, Ticks
  <2>5. CASE r.group_timer # 0 /\ ~(r.state = "VERSION_1_MEMBERS_PRESENT" /\ r.v1_host_timer > 0)
    <3> DEFINE s == [r EXCEPT !.state = "MEMBERS_PRESENT", !.group_timer = @ - 1]
    <3>1. Aged(r) = s BY <1>3, <2>5 DEF Aged
    <3>2. /\ s.state = "MEMBERS_PRESENT" /\ s.query_list = r.query_list
          /\ s.group_timer = r.group_timer - 1 /\ s.v1_host_timer = r.v1_host_timer
      BY <2>1 DEF Group
    <3>3. s # None
      <4>1. r.group_timer - 1 \in Nat BY <2>2, <2>5
      <4>2. s \in Group BY <2>1, <4>1 DEF Group, States
      <4> QED BY <4>2
    <3>4. h1 >= GroupInterval BY <2>2, <2>5 DEF Ticks
    <3> HIDE DEF s
    <3> QED BY <2>2, <2>5, <3>1, <3>2, <3>3, <3>4 DEF Timed, Count, Ticks
  <2> QED BY <2>3, <2>4, <2>5
<1> QED BY <1>1, <1>2, <1>3

\* One entry of a table of interfaces and groups is replaced.
LEMMA Replaced ==
    ASSUME NEW R, NEW f \in [Downstream -> [Groups -> R]], NEW e,
           NEW n \in Downstream, NEW g \in Groups, NEW m \in Downstream, NEW k \in Groups
    PROVE  /\ m = n /\ k = g => [f EXCEPT ![n][g] = e][m][k] = e
           /\ m # n \/ k # g => [f EXCEPT ![n][g] = e][m][k] = f[m][k]
OBVIOUS

\* What a report does to one group of one interface.
LEMMA ReportEffect ==
    ASSUME TypeOK, NEW n \in Downstream, NEW g \in Groups, NEW v \in {1, 2}, Report(n, g, v),
           NEW m \in Downstream, NEW k \in Groups
    PROVE  \/ /\ m = n /\ k = g
              /\ db'[m][k] = Reported(db[m][k], v)
              /\ heard'[m][k] = 0
              /\ heard1'[m][k] = IF v = 1 THEN 0 ELSE heard1[m][k]
              /\ left'[m][k] = None
           \/ /\ m # n \/ k # g \/ db[m][k] = None
              /\ db'[m][k] = db[m][k]
              /\ heard'[m][k] = heard[m][k] /\ heard1'[m][k] = heard1[m][k]
              /\ left'[m][k] = left[m][k]
<1>1. CASE db[n][g] = None /\ UNCHANGED <<db, kernel, hist>>
  BY <1>1 DEF hist
<1>2. CASE /\ db' = [db EXCEPT ![n][g] = Reported(db[n][g], v)]
           /\ heard' = [heard EXCEPT ![n][g] = 0]
           /\ heard1' = IF v = 1 THEN [heard1 EXCEPT ![n][g] = 0] ELSE heard1
           /\ left' = [left EXCEPT ![n][g] = None]
  BY <1>2 DEF TypeOK
<1> QED BY <1>1, <1>2 DEF Report

\* What a tick does to one group of one interface.
LEMMA TickEffect ==
    ASSUME TypeOK, igmp_router_timer_expired, NEW n \in Downstream, NEW g \in Groups
    PROVE  /\ db'[n][g] = Aged(db[n][g])
           /\ heard'[n][g] = IF Aged(db[n][g]) = None THEN GroupInterval
                             ELSE Count(heard[n][g], GroupInterval)
           /\ heard1'[n][g] = IF Aged(db[n][g]) = None THEN GroupInterval
                              ELSE Count(heard1[n][g], GroupInterval)
           /\ left'[n][g] = IF Aged(db[n][g]) = None \/ left[n][g] = None THEN None
                            ELSE Count(left[n][g], 2 * LastMember)
<1>1. db'[n][g] = Aged(db[n][g]) BY DEF igmp_router_timer_expired
<1> QED BY <1>1 DEF igmp_router_timer_expired

\* What a leave does.
LEMMA LeaveEffect ==
    ASSUME TypeOK, NEW n \in Downstream, NEW g \in Groups, Leave(n, g)
    PROVE  /\ heard' = heard /\ heard1' = heard1
           /\ \/ db' = db /\ left' = left /\ free' = free
              \/ /\ <<n, g>> \notin Loyal
                 /\ db[n][g] # None /\ db[n][g].state # "VERSION_1_MEMBERS_PRESENT"
                 /\ Scheduled # {} /\ free' = free \ Scheduled
                 /\ Left(db[n][g]) \in Group
                 /\ db' = [db EXCEPT ![n][g] = Left(db[n][g])]
                 /\ left' = [left EXCEPT ![n][g] = 0]
<1>1. heard' = heard /\ heard1' = heard1 BY DEF Leave
<1>2. CASE db[n][g] = None \/ db[n][g].state = "VERSION_1_MEMBERS_PRESENT" \/ Scheduled = {}
  <2>1. db' = db /\ left' = left /\ free' = free BY <1>2 DEF Leave
  <2> QED BY <1>1, <2>1
<1>3. CASE ~(db[n][g] = None \/ db[n][g].state = "VERSION_1_MEMBERS_PRESENT" \/ Scheduled = {})
  <2>1. /\ db' = [db EXCEPT ![n][g] = Left(db[n][g])] /\ left' = [left EXCEPT ![n][g] = 0]
        /\ free' = free \ Scheduled /\ <<n, g>> \notin Loyal
    BY <1>3, Zenon DEF Leave
  <2>3. db[n][g] \in Group BY <1>3 DEF TypeOK
  <2>4. db[n][g].query_list \subseteq Queries BY <2>3 DEF Group
  <2>5. Scheduled \subseteq Queries BY DEF Scheduled, TypeOK
  <2>6. Left(db[n][g]) \in Group BY <2>4, <2>5, IgmpAssumption DEF Left, Group, States
  <2> QED BY <1>1, <1>3, <2>1, <2>6
<1> QED BY <1>2, <1>3

\* Every step keeps the timers in agreement with the history.
LEMMA TimedStep ==
    ASSUME TypeOK, GroupsTimed, [Next]_vars
    PROVE  GroupsTimed'
<1> USE IgmpAssumption
<1> SUFFICES ASSUME NEW m \in Downstream, NEW k \in Groups
             PROVE  Timed(db'[m][k], heard'[m][k], heard1'[m][k], left'[m][k])
  BY DEF GroupsTimed
<1>0. /\ db[m][k] \in GroupOrNone /\ heard[m][k] \in Ticks /\ heard1[m][k] \in Ticks
      /\ left[m][k] \in Leaves
      /\ Timed(db[m][k], heard[m][k], heard1[m][k], left[m][k])
  BY DEF TypeOK, GroupsTimed, GroupOrNone, Ticks, Leaves
<1>1. ASSUME NEW n \in Downstream, NEW g \in Groups, NEW v \in {1, 2}, Report(n, g, v)
      PROVE  Timed(db'[m][k], heard'[m][k], heard1'[m][k], left'[m][k])
  <2>1. Timed(Reported(db[m][k], v), 0, IF v = 1 THEN 0 ELSE heard1[m][k], None)
    BY <1>0, ReportedTimed
  <2> QED BY <1>0, <1>1, <2>1, ReportEffect
<1>2. ASSUME NEW n \in Downstream, NEW g \in Groups, Leave(n, g)
      PROVE  Timed(db'[m][k], heard'[m][k], heard1'[m][k], left'[m][k])
  <2>1. CASE db'[m][k] = db[m][k] /\ left'[m][k] = left[m][k]
    BY <1>0, <1>2, <2>1, LeaveEffect
  <2>2. CASE ~(db'[m][k] = db[m][k] /\ left'[m][k] = left[m][k])
    <3> DEFINE r == Left(db[m][k])
    <3>1. /\ heard' = heard /\ heard1' = heard1
          /\ \/ db' = db /\ left' = left /\ free' = free
             \/ /\ db[n][g] # None /\ db[n][g].state # "VERSION_1_MEMBERS_PRESENT"
                /\ Scheduled # {} /\ Left(db[n][g]) \in Group
                /\ db' = [db EXCEPT ![n][g] = Left(db[n][g])]
                /\ left' = [left EXCEPT ![n][g] = 0]
      BY <1>2, LeaveEffect
    <3>2. /\ db[m][k] # None /\ db[m][k].state # "VERSION_1_MEMBERS_PRESENT"
          /\ Scheduled # {} /\ r \in Group /\ db'[m][k] = r /\ left'[m][k] = 0
      <4>1. /\ db' = [db EXCEPT ![n][g] = Left(db[n][g])] /\ left' = [left EXCEPT ![n][g] = 0]
            /\ db[n][g] # None /\ db[n][g].state # "VERSION_1_MEMBERS_PRESENT"
            /\ Scheduled # {} /\ Left(db[n][g]) \in Group
        BY <2>2, <3>1
      <4>2. m = n /\ k = g
        <5>1. CASE m # n \/ k # g
          <6>1. db'[m][k] = db[m][k] BY <4>1, <5>1, Replaced DEF TypeOK
          <6>2. left'[m][k] = left[m][k] BY <4>1, <5>1, Replaced DEF TypeOK
          <6> QED BY <2>2, <6>1, <6>2
        <5> QED BY <5>1
      <4>3. db'[m][k] = Left(db[n][g]) BY <4>1, <4>2, Replaced DEF TypeOK
      <4>4. left'[m][k] = 0 BY <4>1, <4>2, Replaced DEF TypeOK
      <4> QED BY <4>1, <4>2, <4>3, <4>4
    <3>3. /\ r.state = "CHECKING_MEMBERSHIP" /\ r.v1_host_timer = 0
          /\ r.retransmit_timer = LastMember /\ r.query_list # {}
      BY <3>2 DEF Left
    <3>4. heard1[m][k] >= GroupInterval BY <1>0, <3>2 DEF Timed
    <3> HIDE DEF r
    <3> QED BY <1>0, <3>1, <3>2, <3>3, <3>4 DEF Timed, Ticks
  <2> QED BY <2>1, <2>2
<1>3. ASSUME NEW n \in Downstream, NEW lower \in BOOLEAN, NEW specific \in BOOLEAN,
             igmp_router_received_general_query(n, lower, specific)
      PROVE  Timed(db'[m][k], heard'[m][k], heard1'[m][k], left'[m][k])
  BY <1>0, <1>3 DEF igmp_router_received_general_query, proxy, hist
<1>4. ASSUME igmp_router_timer_expired
      PROVE  Timed(db'[m][k], heard'[m][k], heard1'[m][k], left'[m][k])
  BY <1>0, <1>4, TickEffect, AgedTimed
<1>5. CASE UNCHANGED vars BY <1>0, <1>5 DEF vars, proxy, hist
<1> QED BY <1>1, <1>2, <1>3, <1>4, <1>5 DEF Next, AnyReport, Answer

\* The types and the timers, together.
LEMMA TimedHolds == Spec => [](TypeOK /\ GroupsTimed)
<1>1. Init => TypeOK /\ GroupsTimed
  BY IgmpAssumption DEF Init, TypeOK, OnAll, OnEach, GroupsTimed, Timed
<1> QED BY <1>1, TypeStep, TimedStep, PTL DEF Spec

\* GroupKept: a tick removes a group only after GroupInterval ticks without a report, or
\* 2 * LastMember after a leave, and never within GroupInterval of a version 1 report.
THEOREM Kept == Spec => GroupKept
<1> DEFINE A == \A n \in Downstream, g \in Groups :
                   db[n][g] # None /\ db'[n][g] = None
                   => /\ heard[n][g] >= GroupInterval
                         \/ (left[n][g] # None /\ left[n][g] >= 2 * LastMember)
                      /\ heard1[n][g] >= GroupInterval
<1>1. ASSUME TypeOK, GroupsTimed, [Next]_vars PROVE A
  <2> SUFFICES ASSUME NEW m \in Downstream, NEW k \in Groups,
                      db[m][k] # None, db'[m][k] = None
               PROVE  /\ heard[m][k] >= GroupInterval
                         \/ (left[m][k] # None /\ left[m][k] >= 2 * LastMember)
                      /\ heard1[m][k] >= GroupInterval
    OBVIOUS
  <2>0. /\ db[m][k] \in GroupOrNone /\ heard[m][k] \in Ticks /\ heard1[m][k] \in Ticks
        /\ left[m][k] \in Leaves
        /\ Timed(db[m][k], heard[m][k], heard1[m][k], left[m][k])
    BY <1>1 DEF TypeOK, GroupsTimed, GroupOrNone, Ticks, Leaves
  <2>1. ASSUME NEW n \in Downstream, NEW g \in Groups, NEW v \in {1, 2}, Report(n, g, v)
        PROVE  FALSE
    BY <1>1, <2>0, <2>1, ReportEffect, ReportedGroup
  <2>2. ASSUME NEW n \in Downstream, NEW g \in Groups, Leave(n, g) PROVE FALSE
    <3>1. \/ db' = db
          \/ /\ Left(db[n][g]) \in Group
             /\ db' = [db EXCEPT ![n][g] = Left(db[n][g])]
      BY <1>1, <2>2, LeaveEffect
    <3>2. CASE /\ Left(db[n][g]) \in Group
               /\ db' = [db EXCEPT ![n][g] = Left(db[n][g])]
      <4>1. db \in [Downstream -> [Groups -> Group \union {None}]] BY <1>1 DEF TypeOK
      <4>2. db'[m][k] = db[m][k] \/ db'[m][k] = Left(db[n][g]) BY <3>2, <4>1, Replaced
      <4> QED BY <3>2, <4>2, IgmpAssumption
    <3> QED BY <3>1, <3>2
  <2>3. ASSUME NEW n \in Downstream, NEW lower \in BOOLEAN, NEW specific \in BOOLEAN,
               igmp_router_received_general_query(n, lower, specific)
        PROVE  FALSE
    BY <2>3 DEF igmp_router_received_general_query, proxy
  <2>4. ASSUME igmp_router_timer_expired
        PROVE  /\ heard[m][k] >= GroupInterval
                  \/ (left[m][k] # None /\ left[m][k] >= 2 * LastMember)
               /\ heard1[m][k] >= GroupInterval
    BY <1>1, <2>0, <2>4, TickEffect, AgedTimed
  <2>5. CASE UNCHANGED vars BY <2>5 DEF vars, proxy
  <2> QED BY <1>1, <2>1, <2>2, <2>3, <2>4, <2>5 DEF Next, AnyReport, Answer
<1>2. TypeOK /\ GroupsTimed /\ [Next]_vars => [A]_vars BY <1>1
<1> HIDE DEF A
<1>3. Spec => [][A]_vars BY <1>2, TimedHolds, PTL DEF Spec
<1> QED BY <1>3 DEF A, GroupKept

-----------------------------------------------------------------------------
(* The groups of the loyal hosts. *)

\* The ticks until the next general query on interface n, at the latest.
Wait(n) == IF querier[n] THEN general_query_timer[n] + 1 ELSE querier_present_timer[n] + 2

\* The group timer reaches to the answer that is due in d ticks, or, if none is, to
\* the answer to the next query, in w ticks.
Covered(r, d, w) ==
    r # None =>
        /\ r.state # "CHECKING_MEMBERSHIP"
        /\ d # None => r.group_timer >= d
        /\ d = None => r.group_timer >= w + Response

\* The inductive invariant behind MemberKept: a group whose host has missed no general
\* query since its last report is covered.
LoyalCovered ==
    /\ \A x \in Loyal \ unasked : Covered(db[x[1]][x[2]], due[x], Wait(x[1]))
    /\ \A n \in Downstream : ~querier[n] => general_query_timer[n] = 0

\* A group whose timer runs is only counted down.
LEMMA AgedMember ==
    ASSUME NEW r \in Group, r.state # "CHECKING_MEMBERSHIP", r.group_timer > 0
    PROVE  /\ Aged(r) # None
           /\ Aged(r).state # "CHECKING_MEMBERSHIP"
           /\ Aged(r).group_timer = r.group_timer - 1
<1> USE IgmpAssumption
<1>0. r.group_timer \in Nat /\ r.v1_host_timer \in Nat BY DEF Group
<1>1. CASE r.state = "VERSION_1_MEMBERS_PRESENT" /\ r.v1_host_timer > 0
  <2> DEFINE s == [r EXCEPT !.v1_host_timer = @ - 1, !.group_timer = @ - 1]
  <2>1. Aged(r) = s BY <1>0, <1>1 DEF Aged
  <2>2. s \in Group
    <3>1. r.group_timer - 1 \in Nat /\ r.v1_host_timer - 1 \in Nat BY <1>0, <1>1
    <3> QED BY <3>1 DEF Group
  <2>3. s.state = r.state /\ s.group_timer = r.group_timer - 1 BY DEF Group
  <2> HIDE DEF s
  <2> QED BY <2>1, <2>2, <2>3
<1>2. CASE ~(r.state = "VERSION_1_MEMBERS_PRESENT" /\ r.v1_host_timer > 0)
  <2> DEFINE s == [r EXCEPT !.state = "MEMBERS_PRESENT", !.group_timer = @ - 1]
  <2>1. Aged(r) = s BY <1>0, <1>2 DEF Aged
  <2>2. s \in Group
    <3>1. r.group_timer - 1 \in Nat BY <1>0
    <3> QED BY <3>1 DEF Group, States
  <2>3. s.state = "MEMBERS_PRESENT" /\ s.group_timer = r.group_timer - 1 BY DEF Group
  <2> HIDE DEF s
  <2> QED BY <2>1, <2>2, <2>3
<1> QED BY <1>1, <1>2

\* The wait is a number, within the bound that the intervals allow for.
LEMMA WaitBound ==
    ASSUME TypeOK, NEW n \in Downstream
    PROVE  Wait(n) \in Nat /\ Wait(n) + Response <= GroupInterval
<1>1. /\ general_query_timer[n] \in 0 .. QueryInterval
      /\ querier_present_timer[n] \in 0 .. OtherQuerier
  BY DEF TypeOK
<1> QED BY <1>1, IgmpAssumption, IntervalAssumption DEF Wait

\* A report covers the group it refreshes.
LEMMA ReportCovered ==
    ASSUME TypeOK, LoyalCovered, NEW n \in Downstream, NEW g \in Groups, NEW v \in {1, 2},
           Report(n, g, v), NEW x \in Loyal, x \notin unasked', NEW D \in (0 .. Response) \union {None},
           D = due[x] \/ (D = None /\ x = <<n, g>>)
    PROVE  Covered(db'[x[1]][x[2]], D, Wait(x[1])')
<1> USE IgmpAssumption
<1>1. x[1] \in Downstream /\ x[2] \in Groups /\ x = <<x[1], x[2]>> OBVIOUS
<1>2. Wait(x[1])' = Wait(x[1])
  BY DEF Report, election, Wait
<1>3. Wait(x[1]) \in Nat /\ Wait(x[1]) + Response <= GroupInterval BY <1>1, WaitBound
<1>4. x # <<n, g>> => Covered(db[x[1]][x[2]], due[x], Wait(x[1]))
  <2>1. unasked' = unasked \/ unasked' = unasked \ {<<n, g>>} BY DEF Report, hist
  <2> QED BY <2>1 DEF LoyalCovered
<1>5. CASE x[1] = n /\ x[2] = g /\ db'[x[1]][x[2]] = Reported(db[x[1]][x[2]], v)
  <2>1. db[x[1]][x[2]] \in GroupOrNone BY <1>1 DEF TypeOK, GroupOrNone
  <2> DEFINE s == Reported(db[x[1]][x[2]], v)
  <2>2. /\ s.state \in {"MEMBERS_PRESENT", "VERSION_1_MEMBERS_PRESENT"}
        /\ s.group_timer = GroupInterval
    BY <2>1, ReportedGroup
  <2> HIDE DEF s
  <2>3. Covered(s, D, Wait(x[1])) BY <1>3, <2>2, IntervalAssumption DEF Covered
  <2> QED BY <1>2, <1>5, <2>3 DEF s
<1>6. CASE /\ x[1] # n \/ x[2] # g \/ db[x[1]][x[2]] = None
           /\ db'[x[1]][x[2]] = db[x[1]][x[2]]
  <2>1. CASE db[x[1]][x[2]] = None BY <1>6, <2>1 DEF Covered
  <2>2. CASE x[1] # n \/ x[2] # g
    <3>1. D = due[x] /\ x # <<n, g>> BY <1>1, <2>2
    <3> QED BY <1>2, <1>4, <1>6, <3>1
  <2> QED BY <1>6, <2>1, <2>2
<1> QED BY <1>1, <1>5, <1>6, ReportEffect

\* Every step keeps the loyal hosts' groups covered.
LEMMA CoveredStep ==
    ASSUME TypeOK, LoyalCovered, [Next]_vars
    PROVE  LoyalCovered'
<1> USE IgmpAssumption
<1>0. /\ \A x \in Loyal : x[1] \in Downstream /\ x[2] \in Groups /\ x = <<x[1], x[2]>>
      /\ \A x \in Loyal : due[x] \in (0 .. Response) \union {None}
  BY DEF TypeOK
<1>1. ASSUME NEW n \in Downstream, NEW g \in Groups, NEW v \in {1, 2}, Report(n, g, v),
             due' = due \/ (<<n, g>> \in Loyal /\ due' = [due EXCEPT ![<<n, g>>] = None])
      PROVE  LoyalCovered'
  <2>1. ASSUME NEW x \in Loyal, x \notin unasked'
        PROVE  Covered(db[x[1]][x[2]], due[x], Wait(x[1]))'
    <3>1. /\ due'[x] \in (0 .. Response) \union {None}
          /\ due'[x] = due[x] \/ (due'[x] = None /\ x = <<n, g>>)
      BY <1>0, <1>1 DEF TypeOK
    <3> QED BY <1>1, <2>1, <3>1, ReportCovered
  <2>2. UNCHANGED <<querier, general_query_timer>> BY <1>1 DEF Report, election
  <2> QED BY <2>1, <2>2 DEF LoyalCovered
<1>2. ASSUME NEW n \in Downstream, NEW g \in Groups, Leave(n, g) PROVE LoyalCovered'
  <2>1. UNCHANGED <<querier, general_query_timer, querier_present_timer, due, unasked>>
    BY <1>2 DEF Leave, election
  <2>2. ASSUME NEW x \in Loyal PROVE db'[x[1]][x[2]] = db[x[1]][x[2]]
    <3>1. CASE db' = db BY <3>1
    <3>2. CASE <<n, g>> \notin Loyal /\ db' = [db EXCEPT ![n][g] = Left(db[n][g])]
      <4>1. x[1] # n \/ x[2] # g BY <1>0, <3>2
      <4>2. db \in [Downstream -> [Groups -> Group \union {None}]] BY DEF TypeOK
      <4> QED BY <1>0, <3>2, <4>1, <4>2, Replaced
    <3> QED BY <1>2, <3>1, <3>2, LeaveEffect
  <2> QED BY <2>1, <2>2 DEF LoyalCovered, Wait
<1>3. ASSUME NEW n \in Downstream, NEW lower \in BOOLEAN, NEW specific \in BOOLEAN,
             igmp_router_received_general_query(n, lower, specific)
      PROVE  LoyalCovered'
  <2>0. db' = db BY <1>3 DEF igmp_router_received_general_query, proxy
  <2>1. ASSUME NEW x \in Loyal, x \notin unasked'
        PROVE  Covered(db[x[1]][x[2]], due[x], Wait(x[1]))'
    <3>0. /\ x \notin unasked
          /\ Covered(db[x[1]][x[2]], due[x], Wait(x[1]))
          /\ Wait(x[1]) \in Nat
          /\ db[x[1]][x[2]] # None => db[x[1]][x[2]].group_timer \in Nat
      <4>1. x \notin unasked
        BY <1>3, <2>1 DEF igmp_router_received_general_query, Overheard
      <4> QED BY <1>0, <4>1, WaitBound DEF LoyalCovered, TypeOK, Group
    <3>1. CASE x[1] = n /\ ~specific
      <4>1. due'[x] = IF due[x] = None THEN Response ELSE due[x]
        BY <1>3, <3>1 DEF igmp_router_received_general_query, Overheard, Asked
      <4>2. due'[x] # None BY <4>1
      <4> QED BY <2>0, <3>0, <4>1, <4>2 DEF Covered
    <3>2. CASE x[1] = n /\ specific
      <4>1. ~lower /\ due' = due
        BY <1>3, <2>1, <3>2 DEF igmp_router_received_general_query, Overheard, On
      <4>2. /\ querier' = querier /\ general_query_timer' = general_query_timer
            /\ querier_present_timer'[n] = 0
        BY <1>3, <4>1 DEF igmp_router_received_general_query, TypeOK
      <4>3. querier_present_timer[n] \in Nat /\ general_query_timer[n] \in Nat BY DEF TypeOK
      <4>4. Wait(n)' \in Nat /\ Wait(n)' <= Wait(n) BY <4>2, <4>3 DEF Wait
      <4> QED BY <2>0, <3>0, <3>2, <4>1, <4>4 DEF Covered
    <3>3. CASE x[1] # n
      <4>1. due'[x] = due[x]
        BY <1>3, <3>3 DEF igmp_router_received_general_query, Overheard, Asked
      <4>2. Wait(x[1])' = Wait(x[1])
        BY <1>0, <1>3, <3>3 DEF igmp_router_received_general_query, Wait, TypeOK
      <4> QED BY <2>0, <3>0, <4>1, <4>2
    <3> QED BY <3>1, <3>2, <3>3
  <2>2. ASSUME NEW m \in Downstream, ~querier'[m] PROVE general_query_timer'[m] = 0
    BY <1>3, <2>2 DEF igmp_router_received_general_query, LoyalCovered, TypeOK
  <2> QED BY <2>1, <2>2 DEF LoyalCovered
<1>4. ASSUME igmp_router_timer_expired PROVE LoyalCovered'
  <2>0. PICK lost \in SUBSET Queried : SendQueries(lost)
    BY <1>4 DEF igmp_router_timer_expired
  <2>1. ASSUME NEW x \in Loyal, x \notin unasked'
        PROVE  Covered(db[x[1]][x[2]], due[x], Wait(x[1]))'
    <3> DEFINE n == x[1]
               r == db[x[1]][x[2]]
    <3>0. /\ n \in Downstream /\ x[2] \in Groups /\ r \in GroupOrNone
          /\ Covered(r, due[x], Wait(n)) /\ Wait(n) \in Nat
          /\ due[x] \in (0 .. Response) \union {None} /\ due[x] # 0
          /\ general_query_timer[n] \in 0 .. QueryInterval
          /\ querier_present_timer[n] \in 0 .. OtherQuerier
          /\ ~querier[n] => general_query_timer[n] = 0
      <4>1. x \notin unasked BY <2>0, <2>1 DEF SendQueries
      <4> QED BY <1>0, <1>4, <4>1, WaitBound
              DEF LoyalCovered, TypeOK, GroupOrNone, igmp_router_timer_expired
    <3>1. db'[x[1]][x[2]] = Aged(r) BY <1>4, <3>0, TickEffect
    <3>2. due'[x] = IF due[x] # None THEN due[x] - 1
                    ELSE IF querier[n] /\ general_query_timer[n] = 0 THEN Response ELSE None
      <4> DEFINE D == [y \in Loyal |-> IF due[y] = None THEN None ELSE due[y] - 1]
      <4>1. due' = Asked(D, Queried \ lost) /\ n \notin lost
        BY <2>0, <2>1 DEF SendQueries, On
      <4>2. D[x] = IF due[x] = None THEN None ELSE due[x] - 1 OBVIOUS
      <4> HIDE DEF D
      <4>3. due'[x] = IF D[x] = None /\ n \in Queried \ lost THEN Response ELSE D[x]
        BY <4>1 DEF Asked
      <4>4. n \in Queried <=> querier[n] /\ general_query_timer[n] = 0 BY <3>0 DEF Queried
      <4>5. due[x] # None => due[x] - 1 # None BY <3>0
      <4> QED BY <4>1, <4>2, <4>3, <4>4, <4>5
    <3>3. /\ querier'[n] <=> (querier[n] \/ querier_present_timer[n] = 0)
          /\ general_query_timer'[n] =
                IF ~querier[n] THEN general_query_timer[n]
                ELSE IF general_query_timer[n] = 0 THEN QueryInterval ELSE general_query_timer[n] - 1
          /\ querier_present_timer'[n] =
                IF querier[n] THEN querier_present_timer[n] ELSE Down(querier_present_timer[n])
      BY <1>4, <3>0 DEF igmp_router_timer_expired, Queried
    <3>4. CASE r = None
      BY <3>0, <3>1, <3>4, AgedGroup DEF Covered
    <3>5. CASE r # None
      <4>1. r \in Group /\ r.group_timer \in Nat BY <3>0, <3>5 DEF GroupOrNone, Group
      <4>2. r.group_timer > 0 /\ r.state # "CHECKING_MEMBERSHIP"
        BY <3>0, <3>5, <4>1 DEF Covered, Wait
      <4> DEFINE s == Aged(r)
      <4>3. s.state # "CHECKING_MEMBERSHIP" /\ s.group_timer = r.group_timer - 1
        BY <4>1, <4>2, AgedMember
      <4> HIDE DEF s, r, n
      <4>4. due'[x] # None => s.group_timer >= due'[x]
        BY <3>0, <3>2, <3>5, <4>1, <4>2, <4>3 DEF Covered, Wait
      <4>5. due'[x] = None => s.group_timer >= Wait(n)' + Response
        <5>1. SUFFICES ASSUME due'[x] = None PROVE s.group_timer >= Wait(n)' + Response
          OBVIOUS
        <5>2. due[x] = None /\ ~(querier[n] /\ general_query_timer[n] = 0)
          BY <3>0, <3>2, <5>1
        <5>3. r.group_timer >= Wait(n) + Response BY <3>0, <3>5, <5>2 DEF Covered
        <5>4. Wait(n)' = IF querier'[n] THEN general_query_timer'[n] + 1
                         ELSE querier_present_timer'[n] + 2
          BY DEF Wait, n
        <5>5. Wait(n)' <= Wait(n) - 1
          <6>1. CASE querier[n]
            <7>1. Wait(n) = general_query_timer[n] + 1 BY <6>1 DEF Wait
            <7>2. Wait(n)' = general_query_timer[n] BY <3>0, <3>3, <5>2, <5>4, <6>1
            <7> QED BY <3>0, <7>1, <7>2
          <6>2. CASE ~querier[n]
            <7>1. Wait(n) = querier_present_timer[n] + 2 BY <6>2 DEF Wait
            <7>2. CASE querier_present_timer[n] = 0
              <8>1. Wait(n)' = 1 BY <3>0, <3>3, <5>4, <6>2, <7>2
              <8> QED BY <7>1, <7>2, <8>1
            <7>3. CASE querier_present_timer[n] # 0
              <8>1. Wait(n)' = querier_present_timer[n] + 1
                BY <3>0, <3>3, <5>4, <6>2, <7>3 DEF Down
              <8> QED BY <3>0, <7>1, <8>1
            <7> QED BY <7>2, <7>3
          <6> QED BY <6>1, <6>2
        <5>6. Wait(n)' \in Nat
          BY <3>0, <3>3, <5>2, <5>4 DEF Down
        <5> QED BY <3>0, <4>1, <4>3, <5>3, <5>5, <5>6
      <4>6. Covered(s, due'[x], Wait(n)') BY <4>3, <4>4, <4>5 DEF Covered
      <4> QED BY <3>1, <4>6 DEF s, r, n
    <3> QED BY <3>4, <3>5
  <2>2. ASSUME NEW m \in Downstream, ~querier'[m] PROVE general_query_timer'[m] = 0
    BY <1>4, <2>2 DEF igmp_router_timer_expired, LoyalCovered
  <2> QED BY <2>1, <2>2 DEF LoyalCovered
<1>5. CASE UNCHANGED vars
  BY <1>5 DEF vars, proxy, election, hist, LoyalCovered, Wait
<1> QED BY <1>1, <1>2, <1>3, <1>4, <1>5 DEF Next, AnyReport, Answer

\* The types and the cover, together.
LEMMA CoveredHolds == Spec => [](TypeOK /\ LoyalCovered)
<1>1. Init => TypeOK /\ LoyalCovered
  BY IgmpAssumption DEF Init, TypeOK, OnAll, OnEach, LoyalCovered, Covered
<1> QED BY <1>1, TypeStep, CoveredStep, PTL DEF Spec

\* MemberKept: a group with a host that answers every general query is not removed unless,
\* since the host's last report, a general query could not be sent or was put off by
\* another router's group specific one, with any timers that leave room for the takeover of
\* a querier and its first query.
THEOREM MembersStay == Spec => MemberKept
<1> DEFINE A == \A x \in Loyal : db[x[1]][x[2]] # None /\ x \notin unasked
                                => db'[x[1]][x[2]] # None
<1>1. ASSUME TypeOK, LoyalCovered, [Next]_vars PROVE A
  <2> SUFFICES ASSUME NEW x \in Loyal, db[x[1]][x[2]] # None, x \notin unasked
               PROVE  db'[x[1]][x[2]] # None
    OBVIOUS
  <2>0. /\ x[1] \in Downstream /\ x[2] \in Groups /\ x = <<x[1], x[2]>>
        /\ db[x[1]][x[2]] \in Group
        /\ db \in [Downstream -> [Groups -> Group \union {None}]]
    BY <1>1, IgmpAssumption DEF TypeOK
  <2>1. ASSUME NEW n \in Downstream, NEW g \in Groups, NEW v \in {1, 2}, Report(n, g, v)
        PROVE  db'[x[1]][x[2]] # None
    <3>1. db[x[1]][x[2]] \in GroupOrNone BY <2>0 DEF GroupOrNone
    <3> QED BY <1>1, <2>0, <2>1, <3>1, ReportEffect, ReportedGroup
  <2>2. ASSUME NEW n \in Downstream, NEW g \in Groups, Leave(n, g)
        PROVE  db'[x[1]][x[2]] # None
    <3>1. CASE db' = db BY <3>1
    <3>2. CASE <<n, g>> \notin Loyal /\ db' = [db EXCEPT ![n][g] = Left(db[n][g])]
      <4>1. x[1] # n \/ x[2] # g BY <2>0, <3>2
      <4>2. db'[x[1]][x[2]] = db[x[1]][x[2]] BY <2>0, <3>2, <4>1, Replaced
      <4> QED BY <4>2
    <3> QED BY <1>1, <2>2, <3>1, <3>2, LeaveEffect
  <2>3. ASSUME NEW n \in Downstream, NEW lower \in BOOLEAN, NEW specific \in BOOLEAN,
               igmp_router_received_general_query(n, lower, specific)
        PROVE  db'[x[1]][x[2]] # None
    BY <2>3 DEF igmp_router_received_general_query, proxy
  <2>4. ASSUME igmp_router_timer_expired PROVE db'[x[1]][x[2]] # None
    <3>1. db'[x[1]][x[2]] = Aged(db[x[1]][x[2]]) BY <1>1, <2>0, <2>4, TickEffect
    <3>2. due[x] # 0 /\ due[x] \in (0 .. Response) \union {None}
      BY <1>1, <2>4 DEF igmp_router_timer_expired, TypeOK
    <3>3. /\ Covered(db[x[1]][x[2]], due[x], Wait(x[1])) /\ Wait(x[1]) \in Nat
          /\ db[x[1]][x[2]].group_timer \in Nat
      BY <1>1, <2>0, WaitBound DEF LoyalCovered, Group
    <3>4. Wait(x[1]) > 0
      BY <1>1, <2>0, IgmpAssumption DEF Wait, TypeOK
    <3>5. db[x[1]][x[2]].group_timer > 0 /\ db[x[1]][x[2]].state # "CHECKING_MEMBERSHIP"
      BY <3>2, <3>3, <3>4, IgmpAssumption DEF Covered
    <3> QED BY <2>0, <3>1, <3>5, AgedMember
  <2>5. CASE UNCHANGED vars BY <2>5 DEF vars, proxy
  <2> QED BY <1>1, <2>1, <2>2, <2>3, <2>4, <2>5 DEF Next, AnyReport, Answer
<1>2. TypeOK /\ LoyalCovered /\ [Next]_vars => [A]_vars BY <1>1
<1> HIDE DEF A
<1>3. Spec => [][A]_vars BY <1>2, CoveredHolds, PTL DEF Spec
<1> QED BY <1>3 DEF A, MemberKept

-----------------------------------------------------------------------------
(* The pool of queries. *)

\* The list of a group, empty without one.
ListOf(r) == IF r = None THEN {} ELSE r.query_list

\* Every node is on exactly one list: the form of QueriesConserved the steps keep.
PoolWhole ==
    /\ \A q \in Queries :
          q \in free \/ \E n \in Downstream, g \in Groups : q \in ListOf(db[n][g])
    /\ \A n \in Downstream, g \in Groups, q \in Queries : q \in ListOf(db[n][g]) => q \notin free
    /\ \A n \in Downstream, g \in Groups, m \in Downstream, k \in Groups, q \in Queries :
          q \in ListOf(db[n][g]) /\ q \in ListOf(db[m][k]) => n = m /\ g = k

\* Lists hold nodes of the pool only.
LEMMA ListType ==
    ASSUME TypeOK, NEW n \in Downstream, NEW g \in Groups
    PROVE  ListOf(db[n][g]) \subseteq Queries
<1>1. db[n][g] \in Group \union {None} BY DEF TypeOK
<1> QED BY <1>1 DEF ListOf, Group

\* PoolWhole says what QueriesConserved says.
LEMMA PoolConserved == ASSUME TypeOK, PoolWhole PROVE QueriesConserved
<1>1. \A x \in Present : /\ x[1] \in Downstream /\ x[2] \in Groups /\ x = <<x[1], x[2]>>
                         /\ db[x[1]][x[2]].query_list = ListOf(db[x[1]][x[2]])
                         /\ ListOf(db[x[1]][x[2]]) \subseteq Queries
  BY ListType DEF Present, ListOf
<1>2. free \union UNION {db[x[1]][x[2]].query_list : x \in Present} \subseteq Queries
  BY <1>1 DEF TypeOK
<1>3. Queries \subseteq free \union UNION {db[x[1]][x[2]].query_list : x \in Present}
  <2> SUFFICES ASSUME NEW q \in Queries, q \notin free
               PROVE  \E x \in Present : q \in db[x[1]][x[2]].query_list
    OBVIOUS
  <2>1. PICK n \in Downstream, g \in Groups : q \in ListOf(db[n][g]) BY DEF PoolWhole
  <2>2. db[n][g] # None BY <2>1 DEF ListOf
  <2>3. <<n, g>> \in Present BY <2>2 DEF Present
  <2> QED BY <2>1, <2>2, <2>3 DEF ListOf
<1>4. ASSUME NEW x \in Present
      PROVE  /\ db[x[1]][x[2]].query_list \intersect free = {}
             /\ \A y \in Present \ {x} :
                   db[x[1]][x[2]].query_list \intersect db[y[1]][y[2]].query_list = {}
  <2>1. db[x[1]][x[2]].query_list \intersect free = {} BY <1>1 DEF PoolWhole
  <2>2. ASSUME NEW y \in Present \ {x}, NEW q \in db[x[1]][x[2]].query_list,
               q \in db[y[1]][y[2]].query_list
        PROVE  FALSE
    <3>1. q \in Queries /\ q \in ListOf(db[x[1]][x[2]]) /\ q \in ListOf(db[y[1]][y[2]])
      BY <1>1, <2>2
    <3>2. x[1] = y[1] /\ x[2] = y[2] BY <1>1, <3>1 DEF PoolWhole
    <3> QED BY <1>1, <3>2
  <2> QED BY <2>1, <2>2
<1> QED BY <1>2, <1>3, <1>4 DEF QueriesConserved

\* Nodes that leave the lists for the free list leave the pool whole.
LEMMA PoolReturn ==
    ASSUME TypeOK, PoolWhole, NEW R \in [Downstream -> [Groups -> SUBSET Queries]],
           \A n \in Downstream, g \in Groups :
              R[n][g] \subseteq ListOf(db[n][g]) /\ ListOf(db'[n][g]) = ListOf(db[n][g]) \ R[n][g],
           \A q \in Queries : q \in free' <=>
              q \in free \/ \E n \in Downstream, g \in Groups : q \in R[n][g]
    PROVE  PoolWhole'
<1>1. ASSUME NEW q \in Queries
      PROVE  q \in free' \/ \E n \in Downstream, g \in Groups : q \in ListOf(db'[n][g])
  BY DEF PoolWhole
<1>2. ASSUME NEW n \in Downstream, NEW g \in Groups, NEW q \in Queries, q \in ListOf(db'[n][g])
      PROVE  q \notin free'
  <2>1. q \in ListOf(db[n][g]) /\ q \notin R[n][g] BY <1>2
  <2>2. q \notin free BY <2>1 DEF PoolWhole
  <2>3. ASSUME NEW m \in Downstream, NEW k \in Groups, q \in R[m][k] PROVE FALSE
    <3>1. q \in ListOf(db[m][k]) BY <2>3
    <3>2. n = m /\ g = k BY <2>1, <3>1 DEF PoolWhole
    <3> QED BY <2>1, <2>3, <3>2
  <2> QED BY <2>2, <2>3
<1>3. ASSUME NEW n \in Downstream, NEW g \in Groups, NEW m \in Downstream, NEW k \in Groups,
             NEW q \in Queries, q \in ListOf(db'[n][g]), q \in ListOf(db'[m][k])
      PROVE  n = m /\ g = k
  <2>1. q \in ListOf(db[n][g]) /\ q \in ListOf(db[m][k]) BY <1>3
  <2> QED BY <2>1 DEF PoolWhole
<1>4. \A n \in Downstream, g \in Groups : ListOf(db[n][g])' = ListOf(db'[n][g])
  BY DEF ListOf
<1> QED BY <1>1, <1>2, <1>3, <1>4 DEF PoolWhole

\* A report gives back what it cancels, a tick what it sends.
LEMMA ListEffects ==
    ASSUME NEW r \in GroupOrNone, NEW v \in {1, 2}
    PROVE  /\ Cancelled(r) \subseteq ListOf(r) /\ Cancelled(r) \subseteq Queries
           /\ ListOf(Reported(r, v)) = ListOf(r) \ Cancelled(r)
           /\ Sent(r) \subseteq ListOf(r) /\ Sent(r) \subseteq Queries
           /\ (r # None => r.state = "CHECKING_MEMBERSHIP" \/ r.query_list = {}) =>
                 ListOf(Aged(r)) = ListOf(r) \ Sent(r)
<1> USE IgmpAssumption
<1>1. Cancelled(r) \subseteq ListOf(r) /\ Cancelled(r) \subseteq Queries
  BY DEF Cancelled, ListOf, GroupOrNone, Group
<1>2. ListOf(Reported(r, v)) = ListOf(r) \ Cancelled(r)
  <2>1. Reported(r, v) # None BY ReportedGroup
  <2>2. Reported(r, v).query_list = IF r = None THEN {} ELSE r.query_list \ Cancelled(r)
    BY DEF Reported
  <2> QED BY <2>1, <2>2, <1>1 DEF ListOf
<1>3. Sent(r) \subseteq ListOf(r) /\ Sent(r) \subseteq Queries
  BY DEF Sent, ListOf, GroupOrNone, Group
<1>4. ASSUME r # None => r.state = "CHECKING_MEMBERSHIP" \/ r.query_list = {}
      PROVE  ListOf(Aged(r)) = ListOf(r) \ Sent(r)
  <2>1. CASE r = None BY <2>1 DEF Aged, ListOf
  <2>2. CASE r # None /\ r.state # "CHECKING_MEMBERSHIP"
    <3>1. r \in Group /\ ListOf(r) = {} BY <1>4, <2>2 DEF GroupOrNone, ListOf
    <3>2. CASE Aged(r) = None BY <3>1, <3>2 DEF ListOf
    <3>3. CASE Aged(r) # None
      <4>1. Aged(r).query_list = r.query_list
        BY <2>2, <3>1, <3>3 DEF Aged, Group
      <4> QED BY <1>4, <2>2, <3>1, <3>3, <4>1 DEF ListOf
    <3> QED BY <3>2, <3>3
  <2>3. CASE r # None /\ r.state = "CHECKING_MEMBERSHIP"
    <3>1. r \in Group /\ r.retransmit_timer \in Nat /\ Aged(r) = Checked(r) /\ ListOf(r) = r.query_list
      BY <2>3 DEF GroupOrNone, Group, Aged, ListOf
    <3>2. CASE r.retransmit_timer > 0
      <4> DEFINE s == [r EXCEPT !.retransmit_timer = @ - 1]
      <4>1. s \in Group /\ s.query_list = r.query_list BY <3>1, <3>2 DEF Group
      <4>2. Aged(r) = s /\ Sent(r) = {} BY <3>1, <3>2 DEF Checked, Sent
      <4> HIDE DEF s
      <4> QED BY <3>1, <4>1, <4>2 DEF ListOf
    <3>3. CASE r.retransmit_timer = 0 /\ r.query_list = {}
      BY <3>1, <3>3 DEF Checked, ListOf
    <3>4. CASE r.retransmit_timer = 0 /\ r.query_list # {}
      <4> DEFINE s == [r EXCEPT !.query_list = @ \ Sent(r), !.retransmit_timer = LastMember - 1]
      <4>1. r.query_list \ Sent(r) \in SUBSET Queries /\ LastMember - 1 \in Nat BY <3>1 DEF Group
      <4>2. s \in Group /\ s.query_list = r.query_list \ Sent(r) BY <3>1, <4>1 DEF Group
      <4>3. Aged(r) = s BY <3>1, <3>4 DEF Checked
      <4> HIDE DEF s
      <4> QED BY <3>1, <4>2, <4>3 DEF ListOf
    <3> QED BY <3>1, <3>2, <3>3, <3>4
  <2> QED BY <2>1, <2>2, <2>3
<1> QED BY <1>1, <1>2, <1>3, <1>4

\* Every step keeps the pool whole.
LEMMA PoolStep ==
    ASSUME TypeOK, GroupsTimed, PoolWhole, [Next]_vars
    PROVE  PoolWhole'
<1> USE IgmpAssumption
<1>0. \A n \in Downstream, g \in Groups : db[n][g] \in GroupOrNone BY DEF TypeOK, GroupOrNone
<1>1. ASSUME NEW n \in Downstream, NEW g \in Groups, NEW v \in {1, 2}, Report(n, g, v)
      PROVE  PoolWhole'
  <2> DEFINE R == [m \in Downstream |-> [k \in Groups |->
                     IF m = n /\ k = g THEN Cancelled(db[n][g]) ELSE {}]]
  <2>1. R \in [Downstream -> [Groups -> SUBSET Queries]] BY <1>0, ListEffects
  <2>2. ASSUME NEW m \in Downstream, NEW k \in Groups
        PROVE  R[m][k] \subseteq ListOf(db[m][k]) /\ ListOf(db'[m][k]) = ListOf(db[m][k]) \ R[m][k]
    <3>1. CASE m = n /\ k = g /\ db'[m][k] = Reported(db[m][k], v)
      <4>1. R[m][k] = Cancelled(db[m][k]) BY <3>1
      <4> HIDE DEF R
      <4> QED BY <1>0, <3>1, <4>1, ListEffects
    <3>2. CASE /\ m # n \/ k # g \/ db[m][k] = None
               /\ db'[m][k] = db[m][k]
      <4>1. R[m][k] = {} BY <3>2 DEF Cancelled
      <4> HIDE DEF R
      <4> QED BY <3>2, <4>1
    <3> QED BY <1>1, <3>1, <3>2, ReportEffect
  <2>3. ASSUME NEW q \in Queries
        PROVE  q \in free' <=> q \in free \/ \E m \in Downstream, k \in Groups : q \in R[m][k]
    <3>1. free' = free \union Cancelled(db[n][g]) BY <1>1 DEF Report
    <3>2. (\E m \in Downstream, k \in Groups : q \in R[m][k]) <=> q \in Cancelled(db[n][g])
      OBVIOUS
    <3> QED BY <3>1, <3>2
  <2> HIDE DEF R
  <2> QED BY <2>1, <2>2, <2>3, PoolReturn
<1>2. ASSUME NEW n \in Downstream, NEW g \in Groups, Leave(n, g) PROVE PoolWhole'
  <2>1. CASE db' = db /\ free' = free BY <2>1 DEF PoolWhole, ListOf
  <2>2. CASE /\ db[n][g] # None /\ free' = free \ Scheduled
             /\ db' = [db EXCEPT ![n][g] = Left(db[n][g])] /\ Left(db[n][g]) \in Group
    <3>1. Scheduled \subseteq free BY DEF Scheduled
    <3>2. ListOf(Left(db[n][g])) = ListOf(db[n][g]) \union Scheduled
      BY <2>2 DEF ListOf, Left
    <3>3. db \in [Downstream -> [Groups -> Group \union {None}]] BY DEF TypeOK
    <3>4. ASSUME NEW m \in Downstream, NEW k \in Groups, NEW q \in Queries
          PROVE  q \in ListOf(db'[m][k]) <=>
                    q \in ListOf(db[m][k]) \/ (m = n /\ k = g /\ q \in Scheduled)
      <4>1. CASE m = n /\ k = g
        <5>1. db'[m][k] = Left(db[n][g]) BY <2>2, <3>3, <4>1, Replaced
        <5> QED BY <3>2, <4>1, <5>1
      <4>2. CASE m # n \/ k # g
        <5>1. db'[m][k] = db[m][k] BY <2>2, <3>3, <4>2, Replaced
        <5> QED BY <4>2, <5>1
      <4> QED BY <4>1, <4>2
    <3>5. \A m \in Downstream, k \in Groups : ListOf(db[m][k])' = ListOf(db'[m][k])
      BY DEF ListOf
    <3>6. ASSUME NEW q \in Queries
          PROVE  q \in free' \/ \E m \in Downstream, k \in Groups : q \in ListOf(db'[m][k])
      BY <2>2, <3>4 DEF PoolWhole
    <3>7. ASSUME NEW m \in Downstream, NEW k \in Groups, NEW q \in Queries, q \in ListOf(db'[m][k])
          PROVE  q \notin free'
      BY <2>2, <3>4, <3>7 DEF PoolWhole
    <3>8. ASSUME NEW i \in Downstream, NEW j \in Groups, NEW m \in Downstream, NEW k \in Groups,
                 NEW q \in Queries, q \in ListOf(db'[i][j]), q \in ListOf(db'[m][k])
          PROVE  i = m /\ j = k
      <4>1. q \in ListOf(db[i][j]) \/ (i = n /\ j = g /\ q \in Scheduled) BY <3>4, <3>8
      <4>2. q \in ListOf(db[m][k]) \/ (m = n /\ k = g /\ q \in Scheduled) BY <3>4, <3>8
      <4>3. q \in Scheduled => q \in free BY <3>1
      <4> QED BY <4>1, <4>2, <4>3 DEF PoolWhole
    <3> QED BY <3>5, <3>6, <3>7, <3>8 DEF PoolWhole
  <2> QED BY <1>2, <2>1, <2>2, LeaveEffect
<1>3. ASSUME NEW n \in Downstream, NEW lower \in BOOLEAN, NEW specific \in BOOLEAN,
             igmp_router_received_general_query(n, lower, specific)
      PROVE  PoolWhole'
  <2>1. db' = db /\ free' = free BY <1>3 DEF igmp_router_received_general_query, proxy
  <2> QED BY <2>1 DEF PoolWhole, ListOf
<1>4. ASSUME igmp_router_timer_expired PROVE PoolWhole'
  <2> DEFINE R == [n \in Downstream |-> [g \in Groups |-> Sent(db[n][g])]]
  <2>1. R \in [Downstream -> [Groups -> SUBSET Queries]] BY <1>0, ListEffects
  <2>2. ASSUME NEW m \in Downstream, NEW k \in Groups
        PROVE  R[m][k] \subseteq ListOf(db[m][k]) /\ ListOf(db'[m][k]) = ListOf(db[m][k]) \ R[m][k]
    <3>1. R[m][k] = Sent(db[m][k]) OBVIOUS
    <3>2. db[m][k] # None => db[m][k].state = "CHECKING_MEMBERSHIP" \/ db[m][k].query_list = {}
      BY DEF GroupsTimed, Timed
    <3>3. db'[m][k] = Aged(db[m][k]) BY <1>4, TickEffect
    <3> HIDE DEF R
    <3> QED BY <1>0, <3>1, <3>2, <3>3, ListEffects
  <2>3. ASSUME NEW q \in Queries
        PROVE  q \in free' <=> q \in free \/ \E m \in Downstream, k \in Groups : q \in R[m][k]
    <3>1. free' = free \union UNION {Sent(db[n][g]) : n \in Downstream, g \in Groups}
      BY <1>4 DEF igmp_router_timer_expired
    <3>2. \A m \in Downstream, k \in Groups : R[m][k] = Sent(db[m][k]) OBVIOUS
    <3> HIDE DEF R
    <3> QED BY <3>1, <3>2
  <2> HIDE DEF R
  <2> QED BY <2>1, <2>2, <2>3, PoolReturn
<1>5. CASE UNCHANGED vars BY <1>5 DEF vars, proxy, PoolWhole, ListOf
<1> QED BY <1>1, <1>2, <1>3, <1>4, <1>5 DEF Next, AnyReport, Answer

\* QueriesConserved: no node of the pool is lost or on two lists, for a pool of any size.
THEOREM Conserved == Spec => []QueriesConserved
<1>1. Init => PoolWhole
  BY DEF Init, OnEach, PoolWhole, ListOf
<1>2. Spec => [](TypeOK /\ PoolWhole)
  BY <1>1, TimedHolds, PoolStep, PTL DEF Spec
<1> QED BY <1>2, PoolConserved, PTL

-----------------------------------------------------------------------------
(* The forwarding cache and the databases. *)

\* A group that an interface gets, or that changes where it is, changes the members of
\* no other group, and takes none away.
LEMMA MembersGrow ==
    ASSUME TypeOK, NEW n \in Downstream, NEW g \in Groups, NEW e, e # None,
           db' = [db EXCEPT ![n][g] = e], NEW k \in Groups
    PROVE  /\ Members(db, k) \subseteq Members(db', k)
           /\ k # g \/ db[n][g] # None => Members(db', k) = Members(db, k)
<1>1. ASSUME NEW m \in Downstream
      PROVE  /\ db[m][k] # None => db'[m][k] # None
             /\ k # g \/ db[n][g] # None => (db'[m][k] # None <=> db[m][k] # None)
  <2>1. db \in [Downstream -> [Groups -> Group \union {None}]] BY DEF TypeOK
  <2> DEFINE f == [db EXCEPT ![n][g] = e]
  <2>2. /\ m = n /\ k = g => f[m][k] = e
        /\ m # n \/ k # g => f[m][k] = db[m][k]
    BY <2>1, Replaced
  <2>3. db'[m][k] = f[m][k] OBVIOUS
  <2> QED BY <2>2, <2>3
<1> QED BY <1>1 DEF Members

\* A new group: either the sockets have all joined and the entry is that of
\* the database, or the cache is as it was and the failure is noted.
LEMMA AddEffect ==
    ASSUME TypeOK, NEW d, NEW g \in Groups, igmp_proxy_add_membership(d, g)
    PROVE  /\ \A u \in Upstream, k \in Groups : joined[u][k] > 0 => joined'[u][k] > 0
           /\ \A k \in Groups \ {g} : mfc'[k] = mfc[k] /\ (k \in failed' <=> k \in failed)
           /\ \/ mfc' = mfc /\ g \in failed'
              \/ /\ mfc'[g] = Members(d, g)
                 /\ \A u \in Upstream : joined'[u][g] > 0
<1> USE IgmpAssumption
<1>0. joined \in [Upstream -> [Groups -> Nat]] /\ mfc \in [Groups -> SUBSET Downstream]
  BY DEF TypeOK
<1>1. PICK k \in 1 .. NumUpstream + 1, fault \in BOOLEAN :
        /\ failed' = IF fault \/ k \in Upstream THEN failed \union {g} ELSE failed \ {g}
        /\ joined' = [u \in Upstream |->
                        IF u < k THEN [joined[u] EXCEPT ![g] = @ + 1] ELSE joined[u]]
        /\ mfc' = IF fault \/ k \in Upstream THEN mfc
                  ELSE [mfc EXCEPT ![g] = Members(d, g)]
  BY DEF igmp_proxy_add_membership
<1>2. ASSUME NEW u \in Upstream, NEW h \in Groups, joined[u][h] > 0
      PROVE  joined'[u][h] > 0
  <2>1. joined[u] \in [Groups -> Nat] BY <1>0
  <2>2. joined'[u] = IF u < k THEN [joined[u] EXCEPT ![g] = @ + 1] ELSE joined[u]
    BY <1>1
  <2>3. CASE u < k BY <2>1, <2>2, <2>3, <1>2
  <2>4. CASE ~(u < k) BY <2>2, <2>4, <1>2
  <2> QED BY <2>3, <2>4
<1>3. \A h \in Groups \ {g} : mfc'[h] = mfc[h] /\ (h \in failed' <=> h \in failed)
  BY <1>0, <1>1
<1>4. CASE fault \/ k \in Upstream
  BY <1>1, <1>2, <1>3, <1>4
<1>5. CASE ~(fault \/ k \in Upstream)
  <2>1. k = NumUpstream + 1 BY <1>5 DEF Upstream
  <2>2. mfc'[g] = Members(d, g) BY <1>0, <1>1, <1>5
  <2>3. ASSUME NEW u \in Upstream PROVE joined'[u][g] > 0
    <3>1. u < k BY <2>1 DEF Upstream
    <3>2. joined[u] \in [Groups -> Nat] BY <1>0
    <3>3. joined'[u] = [joined[u] EXCEPT ![g] = @ + 1] BY <1>1, <3>1
    <3> QED BY <3>2, <3>3
  <2> QED BY <1>2, <1>3, <2>2, <2>3
<1> QED BY <1>4, <1>5

\* A report keeps the cache right.
LEMMA ReportExact ==
    ASSUME TypeOK, ForwardingExact, NEW n \in Downstream, NEW g \in Groups,
           NEW v \in {1, 2}, Report(n, g, v)
    PROVE  ForwardingExact'
<1> DEFINE e == Reported(db[n][g], v)
<1>1. CASE UNCHANGED <<db, kernel>>
  BY <1>1 DEF ForwardingExact, Members, kernel
<1>2. CASE /\ db' = [db EXCEPT ![n][g] = e]
           /\ db[n][g] # None /\ UNCHANGED kernel
  <2>1. db[n][g] \in GroupOrNone BY DEF TypeOK, GroupOrNone
  <2>2. e # None BY <2>1, ReportedGroup
  <2> HIDE DEF e
  <2>3. \A k \in Groups : Members(db', k) = Members(db, k) BY <1>2, <2>2, MembersGrow
  <2>4. \A k \in Groups : Members(db, k)' = Members(db, k) BY <2>3 DEF Members
  <2> QED BY <1>2, <2>4 DEF ForwardingExact, kernel
<1>3. CASE /\ db' = [db EXCEPT ![n][g] = e]
           /\ db[n][g] = None /\ igmp_proxy_add_membership(db', g)
  <2>1. db[n][g] \in GroupOrNone BY DEF TypeOK, GroupOrNone
  <2>2. e # None BY <2>1, ReportedGroup
  <2> HIDE DEF e
  <2>3. \A k \in Groups : /\ Members(db, k) \subseteq Members(db', k)
                          /\ k # g => Members(db', k) = Members(db, k)
    BY <1>3, <2>2, MembersGrow
  <2>4. /\ \A u \in Upstream, k \in Groups : joined[u][k] > 0 => joined'[u][k] > 0
        /\ \A k \in Groups \ {g} : mfc'[k] = mfc[k] /\ (k \in failed' <=> k \in failed)
        /\ \/ mfc' = mfc /\ g \in failed'
           \/ /\ mfc'[g] = Members(db', g)
              /\ \A u \in Upstream : joined'[u][g] > 0
    BY <1>3, AddEffect
  <2> SUFFICES ASSUME NEW k \in Groups
               PROVE  /\ mfc'[k] \subseteq Members(db', k)
                      /\ k \notin failed' => mfc'[k] = Members(db', k)
                      /\ mfc'[k] # {} => \A u \in Upstream : joined'[u][k] > 0
    BY DEF ForwardingExact, Members
  <2>5. /\ mfc[k] \subseteq Members(db, k)
        /\ k \notin failed => mfc[k] = Members(db, k)
        /\ mfc[k] # {} => \A u \in Upstream : joined[u][k] > 0
    BY DEF ForwardingExact
  <2>6. CASE k # g BY <2>3, <2>4, <2>5, <2>6
  <2>7. CASE k = g BY <2>3, <2>4, <2>5, <2>7
  <2> QED BY <2>6, <2>7
<1> QED BY <1>1, <1>2, <1>3 DEF Report

\* A tick takes members away, never adds one; the entry of a group that has lost one
\* is deleted, and added again for those that are left.
LEMMA TickExact ==
    ASSUME TypeOK, ForwardingExact, igmp_router_timer_expired
    PROVE  ForwardingExact'
<1> USE IgmpAssumption
<1> DEFINE G == {g \in Groups : Members(db', g) # Members(db, g)}
<1>0. joined \in [Upstream -> [Groups -> Nat]] /\ mfc \in [Groups -> SUBSET Downstream]
  BY DEF TypeOK
<1>1. PICK F \in SUBSET {g \in G : Members(db', g) # {} /\ mfc[g] # {}} :
        /\ failed' = (failed \union F) \
                        {g \in G \ F : Members(db', g) = {} \/ mfc[g] # {}}
        /\ joined' = [u \in Upstream |-> [g \in Groups |->
                        IF LeavesUpstream(db', G, u, g) THEN joined[u][g] - 1
                        ELSE joined[u][g]]]
        /\ mfc' = [g \in Groups |-> IF g \in G THEN Entry(db', g, g \in F) ELSE mfc[g]]
  <2>1. PICK lost \in SUBSET Queried : igmp_proxy_drop_membership(db', G, Cardinality(lost))
    BY DEF igmp_router_timer_expired
  <2> HIDE DEF G
  <2> QED BY <2>1 DEF igmp_proxy_drop_membership
<1> SUFFICES ASSUME NEW k \in Groups
             PROVE  /\ mfc'[k] \subseteq Members(db', k)
                    /\ k \notin failed' => mfc'[k] = Members(db', k)
                    /\ mfc'[k] # {} => \A u \in Upstream : joined'[u][k] > 0
  BY DEF ForwardingExact, Members
<1>2. /\ mfc[k] \subseteq Members(db, k)
      /\ k \notin failed => mfc[k] = Members(db, k)
      /\ mfc[k] # {} => \A u \in Upstream : joined[u][k] > 0
  BY DEF ForwardingExact
<1>3. Members(db', k) \subseteq Members(db, k)
  <2>1. ASSUME NEW m \in Downstream, db[m][k] = None PROVE db'[m][k] = None
    <3>1. db'[m][k] = Aged(db[m][k]) BY TickEffect
    <3> QED BY <2>1, <3>1 DEF Aged
  <2> QED BY <2>1 DEF Members
<1>4. k \in G <=> Members(db', k) # Members(db, k) OBVIOUS
<1>5. k \in F => k \in G /\ Members(db', k) # {} /\ mfc[k] # {} BY <1>1
<1>6. mfc'[k] = IF k \in G THEN Entry(db', k, k \in F) ELSE mfc[k] BY <1>1
<1>7. k \in failed' <=>
         /\ k \in failed \/ k \in F
         /\ ~(k \in G /\ k \notin F /\ (Members(db', k) = {} \/ mfc[k] # {}))
  BY <1>1
<1>8. k \notin G \/ Members(db', k) # {} =>
         \A u \in Upstream : joined'[u][k] = joined[u][k]
  BY <1>0, <1>1 DEF LeavesUpstream
<1> HIDE DEF G
<1>9. CASE k \notin G
  BY <1>2, <1>4, <1>5, <1>6, <1>7, <1>8, <1>9
<1>10. CASE k \in G /\ Members(db', k) = {}
  <2>1. mfc'[k] = {} BY <1>2, <1>6, <1>10 DEF Entry
  <2> QED BY <2>1, <1>10
<1>11. CASE k \in G /\ Members(db', k) # {} /\ mfc[k] = {}
  <2>1. mfc'[k] = {} BY <1>6, <1>11 DEF Entry
  <2>2. k \in failed BY <1>2, <1>3, <1>11
  <2>3. k \in failed' BY <1>7, <1>5, <1>11, <2>2
  <2> QED BY <2>1, <2>3
<1>12. CASE k \in G /\ Members(db', k) # {} /\ mfc[k] # {} /\ k \in F
  <2>1. mfc'[k] = {} BY <1>6, <1>12 DEF Entry
  <2>2. k \in failed' BY <1>7, <1>12
  <2> QED BY <2>1, <2>2
<1>13. CASE k \in G /\ Members(db', k) # {} /\ mfc[k] # {} /\ k \notin F
  <2>1. mfc'[k] = Members(db', k) BY <1>6, <1>13 DEF Entry
  <2>2. \A u \in Upstream : joined'[u][k] > 0 BY <1>2, <1>8, <1>13
  <2> QED BY <2>1, <2>2
<1> QED BY <1>9, <1>10, <1>11, <1>12, <1>13

\* A step keeps the cache right.
LEMMA ExactStep ==
    ASSUME TypeOK, ForwardingExact, [Next]_vars
    PROVE  ForwardingExact'
<1>1. ASSUME NEW n \in Downstream, NEW g \in Groups, Leave(n, g)
      PROVE  ForwardingExact'
  <2>1. UNCHANGED kernel BY <1>1 DEF Leave
  <2>2. \A k \in Groups : Members(db', k) = Members(db, k)
    <3>1. CASE db' = db BY <3>1
    <3>2. CASE /\ db[n][g] # None /\ Left(db[n][g]) \in Group
               /\ db' = [db EXCEPT ![n][g] = Left(db[n][g])]
      <4>1. Left(db[n][g]) # None BY <3>2, IgmpAssumption
      <4> QED BY <3>2, <4>1, MembersGrow
    <3> QED BY <1>1, <3>1, <3>2, LeaveEffect
  <2>3. \A k \in Groups : Members(db, k)' = Members(db, k) BY <2>2 DEF Members
  <2> QED BY <2>1, <2>3 DEF ForwardingExact, kernel
<1>2. ASSUME UNCHANGED <<proxy, kernel>> PROVE ForwardingExact'
  BY <1>2 DEF ForwardingExact, Members, proxy, kernel
<1>3. ASSUME NEW n \in Downstream, NEW g \in Groups, NEW v \in {1, 2}, Report(n, g, v)
      PROVE  ForwardingExact'
  BY <1>3, ReportExact
<1>4. ASSUME Next PROVE ForwardingExact'
  <2>1. \/ \E n \in Downstream, g \in Groups, v \in {1, 2} : Report(n, g, v)
        \/ \E n \in Downstream, g \in Groups : Leave(n, g)
        \/ UNCHANGED <<proxy, kernel>>
        \/ igmp_router_timer_expired
    BY <1>4 DEF Next, AnyReport, Answer, igmp_router_received_general_query
  <2> QED BY <2>1, <1>1, <1>2, <1>3, TickExact
<1>5. UNCHANGED vars => UNCHANGED <<proxy, kernel>> BY DEF vars
<1> QED BY <1>2, <1>4, <1>5

\* ForwardingExact: the cache forwards a group to no interface without members, to
\* all that have some unless the last update failed, and only while every upstream
\* socket is a member.
THEOREM Exact == Spec => []ForwardingExact
<1>1. Init => ForwardingExact
  BY DEF Init, ForwardingExact, Members, OnEach
<1> QED BY <1>1, ExactStep, TypeCorrect, PTL DEF Spec

=============================================================================
