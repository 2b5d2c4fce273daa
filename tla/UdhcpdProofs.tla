---------------------------- MODULE UdhcpdProofs ----------------------------
(***************************************************************************)
(* Proofs about the DHCP server Udhcpd, for every pool, table size, set of *)
(* clients and packets, and for every configuration of times.              *)
(*                                                                         *)
(* The module first states what the searches and updates of the lease      *)
(* table return, then that every step keeps the types (TypeOK), then that  *)
(* every step keeps IInv.  IInv is needed because GrantHonoured by itself  *)
(* is not inductive: that no later step takes a promised address from its  *)
(* slot needs that the slot is the only one with the address (GrantKept),  *)
(* that hosts in the table are distinct and have an address, that the      *)
(* clock has left 0 once anything is entered (otherwise add_lease finds no *)
(* room for a renewal), and that what arpping asks for while the clock     *)
(* moves on stays free (PingTarget).                                       *)
(***************************************************************************)
EXTENDS Udhcpd, TLAPS, WellFoundedInduction

\* A non-empty set of naturals has a least element.
LEMMA LeastExists ==
    ASSUME NEW S \in SUBSET Nat, S # {}
    PROVE  \E x \in S : \A y \in S : x <= y
<1> DEFINE R == OpToRel(<, Nat)
<1>1. \A a, b \in Nat : a < b => <<a, b>> \in R
  BY DEF OpToRel
<1>2. IsWellFoundedOn(R, Nat)
  BY NatLessThanWellFounded
<1> HIDE DEF R
<1>3. PICK x \in S : \A y \in S : ~(<<y, x>> \in R)
  BY <1>2, WFMin
<1>4. ASSUME NEW y \in S PROVE x <= y
  <2>1. x \in Nat /\ y \in Nat /\ ~(y < x)
    BY <1>1, <1>3
  <2> QED BY <2>1
<1> QED BY <1>4

\* The searches of leases.c return 0 or the first of the slots they look for.
LEMMA LeastIsLeast ==
    ASSUME NEW S \in SUBSET Nat, 0 \notin S
    PROVE  /\ Least(S) \in S \cup {0}
           /\ Least(S) = 0 <=> S = {}
           /\ \A x \in S : Least(S) \in S /\ Least(S) <= x
<1>1. CASE S = {}
  BY <1>1 DEF Least
<1>2. CASE S # {}
  <2>1. \E x \in S : \A y \in S : x <= y
    BY <1>2, LeastExists
  <2>2. Least(S) \in S /\ \A y \in S : Least(S) <= y
    BY <1>2, <2>1 DEF Least
  <2> QED BY <2>2
<1> QED BY <1>1, <1>2

\* oldest_expired_lease returns 0 or an expired slot, the first of those that
\* expired first, and 0 only when no slot has expired.
LEMMA OldestIsExpired ==
    ASSUME NEW tbl \in [Slots -> Leases], NEW t \in Nat
    PROVE  LET s == oldest_expired_lease(tbl, t)
           IN  /\ s \in Slots \cup {0}
               /\ s # 0 => s \in Slots /\ lease_expired(tbl[s], t)
               /\ s = 0 => \A r \in Slots : ~lease_expired(tbl[r], t)
               /\ s # 0 => \A r \in Slots : lease_expired(tbl[r], t) =>
                             \/ tbl[s].expires < tbl[r].expires
                             \/ tbl[s].expires = tbl[r].expires /\ s <= r
<1> DEFINE E == {s \in Slots : lease_expired(tbl[s], t)}
           X == {tbl[s].expires : s \in E}
           P(s) == \A r \in E : \/ tbl[s].expires < tbl[r].expires
                                \/ tbl[s].expires = tbl[r].expires /\ s <= r
<1>0. Slots \subseteq Nat /\ 0 \notin Slots
  BY TableAssumption DEF Slots
<1>1. \A s \in Slots : tbl[s].expires \in Nat
  BY DEF Leases
<1>2. CASE E = {}
  BY <1>2, <1>0 DEF oldest_expired_lease
<1>3. CASE E # {}
  <2>1. X \in SUBSET Nat /\ X # {}
    BY <1>1, <1>3
  <2>2. PICK e \in X : \A y \in X : e <= y
    BY <2>1, LeastExists
  <2> DEFINE F == {s \in E : tbl[s].expires = e}
  <2>3. F \in SUBSET Nat /\ F # {}
    BY <2>2, <1>0
  <2>4. PICK s \in F : \A r \in F : s <= r
    BY <2>3, LeastExists
  <2>5. s \in E /\ P(s)
    <3> SUFFICES ASSUME NEW r \in E
                 PROVE  \/ tbl[s].expires < tbl[r].expires
                        \/ tbl[s].expires = tbl[r].expires /\ s <= r
      BY <2>4
    <3>1. tbl[r].expires \in X /\ e <= tbl[r].expires /\ tbl[s].expires = e
      BY <2>2, <2>4
    <3>2. CASE tbl[r].expires = e
      BY <3>1, <3>2, <2>4
    <3>3. CASE tbl[r].expires # e
      BY <3>1, <3>3, <1>1, <2>1, <2>2
    <3> QED BY <3>2, <3>3
  <2>6. oldest_expired_lease(tbl, t) = CHOOSE q \in E : P(q)
    BY <1>3 DEF oldest_expired_lease
  <2>7. oldest_expired_lease(tbl, t) \in E /\ P(oldest_expired_lease(tbl, t))
    <3> HIDE DEF E, P
    <3> QED BY <2>5, <2>6
  <2> QED BY <2>7, <1>0
<1> QED BY <1>2, <1>3

\* Eviction leaves a table in which each slot is as before or empty.
LEMMA CleanedType ==
    ASSUME NEW tbl \in [Slots -> Leases], NEW c, NEW a
    PROVE  /\ Cleaned(tbl, c, a) \in [Slots -> Leases]
           /\ \A s \in Slots :
                \/ Cleaned(tbl, c, a)[s] = tbl[s]
                \/ Cleaned(tbl, c, a)[s].chaddr = Blank /\ Cleaned(tbl, c, a)[s].yiaddr = 0
<1>1. NoLease \in Leases /\ NoLease.chaddr = Blank /\ NoLease.yiaddr = 0
  BY DEF NoLease, Leases, HwAddr, Hostnames
<1> QED BY <1>1 DEF Cleaned, clear_lease

\* What add_lease does: it evicts, then either fills one expired slot of what
\* is left or, without room, stops there.
LEMMA AddLease ==
    ASSUME NEW tbl \in [Slots -> Leases], NEW c \in HwAddr, NEW a \in Nat,
           NEW len, NEW t \in Nat, NEW h \in Hostnames, Expiry(len, t) \in Nat
    PROVE  /\ add_lease(tbl, c, a, len, t, h) \in [Slots -> Leases]
           /\ Entry(c, a, len, t, h) \in Leases
           /\ ~HasRoom(tbl, c, a, t) => add_lease(tbl, c, a, len, t, h) = Cleaned(tbl, c, a)
           /\ HasRoom(tbl, c, a, t) =>
                \E o \in Slots :
                    /\ lease_expired(Cleaned(tbl, c, a)[o], t)
                    /\ add_lease(tbl, c, a, len, t, h)[o] = Entry(c, a, len, t, h)
                    /\ \A r \in Slots \ {o} :
                         add_lease(tbl, c, a, len, t, h)[r] = Cleaned(tbl, c, a)[r]
<1> DEFINE clean == Cleaned(tbl, c, a)
           o == oldest_expired_lease(clean, t)
           e == Entry(c, a, len, t, h)
<1>1. clean \in [Slots -> Leases]
  BY CleanedType
<1>2. e \in Leases
  BY DEF Entry, Leases
<1>3. /\ o \in Slots \cup {0}
      /\ o # 0 => o \in Slots /\ lease_expired(clean[o], t)
  BY <1>1, OldestIsExpired
<1>4. add_lease(tbl, c, a, len, t, h) = IF o = 0 THEN clean ELSE [clean EXCEPT ![o] = e]
  BY DEF add_lease
<1>5. HasRoom(tbl, c, a, t) <=> o # 0
  BY DEF HasRoom
<1> HIDE DEF clean, o, e
<1>6. add_lease(tbl, c, a, len, t, h) \in [Slots -> Leases]
  BY <1>1, <1>2, <1>3, <1>4
<1>7. o # 0 => /\ lease_expired(clean[o], t)
               /\ add_lease(tbl, c, a, len, t, h)[o] = e
               /\ \A r \in Slots \ {o} : add_lease(tbl, c, a, len, t, h)[r] = clean[r]
  BY <1>1, <1>3, <1>4
<1>8. o = 0 => add_lease(tbl, c, a, len, t, h) = clean
  BY <1>4
<1> QED BY <1>2, <1>3, <1>5, <1>6, <1>7, <1>8 DEF clean, o, e

\* add_lease never gives a host two slots, or an address two hosts.
LEMMA AddLeaseDistinct ==
    ASSUME NEW tbl \in [Slots -> Leases], NEW c \in HwAddr, NEW a \in Nat \ {0},
           NEW len, NEW t \in Nat, NEW h \in Hostnames, Expiry(len, t) \in Nat,
           Distinct(tbl)
    PROVE  Distinct(add_lease(tbl, c, a, len, t, h))
<1> DEFINE clean == Cleaned(tbl, c, a)
           new == add_lease(tbl, c, a, len, t, h)
<1>1. Distinct(clean)
  BY CleanedType DEF Distinct
<1>2. c # Blank => \A s \in Slots : clean[s].chaddr # c /\ clean[s].yiaddr # a
  BY DEF Cleaned, clear_lease, zerohwaddr, NoLease
<1>3. Entry(c, a, len, t, h).chaddr = c /\ Entry(c, a, len, t, h).yiaddr = a
  BY DEF Entry
<1>4. CASE ~HasRoom(tbl, c, a, t)
  BY <1>1, <1>4, AddLease
<1>5. CASE HasRoom(tbl, c, a, t)
  <2>1. PICK o \in Slots : /\ new[o] = Entry(c, a, len, t, h)
                           /\ \A r \in Slots \ {o} : new[r] = clean[r]
    BY <1>5, AddLease
  <2> HIDE DEF clean, new
  <2>2. Distinct(new)
    BY <2>1, <1>1, <1>2, <1>3 DEF Distinct
  <2> QED BY <2>2 DEF new
<1> QED BY <1>4, <1>5

\* Every host of the table keeps its address when one with an address is added.
LEMMA AddLeaseAddresses ==
    ASSUME NEW tbl \in [Slots -> Leases], NEW c \in HwAddr, NEW a \in Nat \ {0},
           NEW len, NEW t \in Nat, NEW h \in Hostnames, Expiry(len, t) \in Nat,
           \A s \in Slots : tbl[s].chaddr # Blank => tbl[s].yiaddr # 0
    PROVE  \A s \in Slots : add_lease(tbl, c, a, len, t, h)[s].chaddr # Blank
                              => add_lease(tbl, c, a, len, t, h)[s].yiaddr # 0
<1> DEFINE clean == Cleaned(tbl, c, a)
           new == add_lease(tbl, c, a, len, t, h)
<1>1. \A s \in Slots : clean[s].chaddr # Blank => clean[s].yiaddr # 0
  BY CleanedType
<1>2. Entry(c, a, len, t, h).yiaddr = a
  BY DEF Entry
<1>3. \A s \in Slots : new[s] = clean[s] \/ new[s] = Entry(c, a, len, t, h)
  BY AddLease
<1> HIDE DEF clean, new
<1>4. \A s \in Slots : new[s].chaddr # Blank => new[s].yiaddr # 0
  BY <1>1, <1>2, <1>3
<1> QED BY <1>4 DEF new

\* An unexpired entry of another host for another address is left alone, and
\* no second entry for its address appears.
LEMMA AddLeaseSpares ==
    ASSUME NEW tbl \in [Slots -> Leases], NEW c \in HwAddr, NEW a \in Nat \ {0},
           NEW len, NEW t \in Nat, NEW h \in Hostnames, Expiry(len, t) \in Nat,
           NEW s \in Slots, tbl[s].chaddr # c, tbl[s].yiaddr # a,
           tbl[s].yiaddr # 0, ~lease_expired(tbl[s], t),
           \A r \in Slots \ {s} : tbl[r].yiaddr # tbl[s].yiaddr
    PROVE  /\ add_lease(tbl, c, a, len, t, h)[s] = tbl[s]
           /\ \A r \in Slots \ {s} :
                add_lease(tbl, c, a, len, t, h)[r].yiaddr # tbl[s].yiaddr
<1> DEFINE clean == Cleaned(tbl, c, a)
           new == add_lease(tbl, c, a, len, t, h)
<1>1. clean[s] = tbl[s]
  BY DEF Cleaned, clear_lease
<1>2. \A r \in Slots \ {s} : clean[r].yiaddr # tbl[s].yiaddr
  BY CleanedType
<1>3. Entry(c, a, len, t, h).yiaddr = a
  BY DEF Entry
<1>4. CASE ~HasRoom(tbl, c, a, t)
  BY <1>1, <1>2, <1>4, AddLease
<1>5. CASE HasRoom(tbl, c, a, t)
  <2>1. PICK o \in Slots : /\ lease_expired(clean[o], t)
                           /\ new[o] = Entry(c, a, len, t, h)
                           /\ \A r \in Slots \ {o} : new[r] = clean[r]
    BY <1>5, AddLease
  <2>2. o # s
    BY <2>1, <1>1
  <2> HIDE DEF clean, new
  <2>3. new[s] = tbl[s] /\ \A r \in Slots \ {s} : new[r].yiaddr # tbl[s].yiaddr
    BY <2>1, <2>2, <1>1, <1>2, <1>3
  <2> QED BY <2>3 DEF new
<1> QED BY <1>4, <1>5

\* Entering a host that is already in the table always finds room once the
\* clock runs: its own slot.
LEMMA AddLeaseOwnRoom ==
    ASSUME NEW tbl \in [Slots -> Leases], NEW c \in HwAddr \ {Blank}, NEW a \in Nat,
           NEW t \in Nat, t > 0, NEW s \in Slots, tbl[s].chaddr = c
    PROVE  HasRoom(tbl, c, a, t)
<1>1. Cleaned(tbl, c, a)[s] = NoLease
  BY DEF Cleaned, clear_lease, zerohwaddr
<1>2. lease_expired(NoLease, t)
  BY TableAssumption DEF lease_expired, NoLease
<1>3. Cleaned(tbl, c, a) \in [Slots -> Leases]
  BY CleanedType
<1>4. oldest_expired_lease(Cleaned(tbl, c, a), t) # 0
  BY <1>1, <1>2, <1>3, OldestIsExpired
<1> QED BY <1>4 DEF HasRoom

\* The new entry is the only one with its address, if it has a host.
LEMMA AddLeaseSole ==
    ASSUME NEW tbl \in [Slots -> Leases], NEW c \in HwAddr \ {Blank}, NEW a \in Nat \ {0},
           NEW len, NEW t \in Nat, NEW h \in Hostnames, Expiry(len, t) \in Nat,
           HasRoom(tbl, c, a, t)
    PROVE  \E o \in Slots :
              /\ add_lease(tbl, c, a, len, t, h)[o] = Entry(c, a, len, t, h)
              /\ \A r \in Slots \ {o} : add_lease(tbl, c, a, len, t, h)[r].yiaddr # a
<1>1. \A s \in Slots : Cleaned(tbl, c, a)[s].yiaddr # a
  BY DEF Cleaned, clear_lease, zerohwaddr, NoLease
<1> QED BY <1>1, AddLease

-----------------------------------------------------------------------------
\* The search by hardware address finds a slot of that host, or there is none.
LEMMA FindByChaddr ==
    ASSUME NEW tbl, NEW c
    PROVE  LET s == find_lease_by_chaddr(tbl, c)
           IN  /\ s # 0 => s \in Slots /\ tbl[s].chaddr = c
               /\ s = 0 => \A r \in Slots : tbl[r].chaddr # c
<1> DEFINE S == {r \in Slots : tbl[r].chaddr = c}
<1>1. S \in SUBSET Nat /\ 0 \notin S
  BY TableAssumption DEF Slots
<1>2. find_lease_by_chaddr(tbl, c) = Least(S)
  BY DEF find_lease_by_chaddr
<1> HIDE DEF S
<1>3. Least(S) \in S \cup {0} /\ (Least(S) = 0 <=> S = {})
  BY <1>1, LeastIsLeast
<1> QED BY <1>2, <1>3 DEF S

\* The search by address finds a slot with that address, or there is none.
LEMMA FindByYiaddr ==
    ASSUME NEW tbl, NEW a
    PROVE  LET s == find_lease_by_yiaddr(tbl, a)
           IN  /\ s # 0 => s \in Slots /\ tbl[s].yiaddr = a
               /\ s = 0 => \A r \in Slots : tbl[r].yiaddr # a
<1> DEFINE S == {r \in Slots : tbl[r].yiaddr = a}
<1>1. S \in SUBSET Nat /\ 0 \notin S
  BY TableAssumption DEF Slots
<1>2. find_lease_by_yiaddr(tbl, a) = Least(S)
  BY DEF find_lease_by_yiaddr
<1> HIDE DEF S
<1>3. Least(S) \in S \cup {0} /\ (Least(S) = 0 <=> S = {})
  BY <1>1, LeastIsLeast
<1> QED BY <1>2, <1>3 DEF S

\* The next address to ping is one of the pool that find_address may take.
LEMMA CandidateFits ==
    ASSUME NEW tbl, NEW from \in Nat, from >= Start, NEW expiredToo \in BOOLEAN, NEW t
    PROVE  LET n == NextCandidate(tbl, from, expiredToo, t)
           IN  /\ n \in Nat
               /\ n # 0 => n \in Pool /\ Available(tbl, n, TRUE, t)
<1> DEFINE S == {a \in from..End : /\ a % 256 \notin {0, 255}
                                   /\ Available(tbl, a, expiredToo, t)}
<1>1. S \in SUBSET Nat /\ 0 \notin S
  BY TableAssumption
<1>2. NextCandidate(tbl, from, expiredToo, t) = Least(S)
  BY DEF NextCandidate
<1>3. \A a \in S : a \in Pool /\ Available(tbl, a, expiredToo, t)
  BY TableAssumption DEF Pool
<1>4. \A a : Available(tbl, a, expiredToo, t) => Available(tbl, a, TRUE, t)
  BY DEF Available
<1> HIDE DEF S
<1>5. Least(S) \in S \cup {0}
  BY <1>1, LeastIsLeast
<1>6. CASE Least(S) \in S
  <2>1. Least(S) \in Pool /\ Available(tbl, Least(S), TRUE, t)
    BY <1>3, <1>4, <1>6
  <2>2. Least(S) \in Nat
    BY <1>1, <1>6
  <2> QED BY <1>2, <2>1, <2>2
<1>7. CASE Least(S) = 0
  BY <1>2, <1>7
<1> QED BY <1>5, <1>6, <1>7

\* The search for an address stops at one of the pool that may be taken, or
\* gives up.
LEMMA NextPingFits ==
    ASSUME NEW tbl, NEW from \in Nat, from >= Start, NEW pass, now \in Nat
    PROVE  LET n == NextPing(tbl, from, pass)
           IN  /\ n.at \in Nat
               /\ n.pass \in {"find0", "find1", "idle"}
               /\ n.pass # "idle" => n.at \in Pool /\ Available(tbl, n.at, TRUE, now)
<1> DEFINE free == IF pass = "find0" THEN NextCandidate(tbl, from, FALSE, now) ELSE 0
           old == NextCandidate(tbl, IF pass = "find0" THEN Start ELSE from, TRUE, now)
<1>1. free \in Nat /\ (free # 0 => free \in Pool /\ Available(tbl, free, TRUE, now))
  BY CandidateFits
<1>2. old \in Nat /\ (old # 0 => old \in Pool /\ Available(tbl, old, TRUE, now))
  <2>1. Start \in Nat /\ Start >= Start
    BY TableAssumption
  <2> QED BY <2>1, CandidateFits
<1>3. NextPing(tbl, from, pass) = IF free # 0 THEN [pass |-> "find0", at |-> free]
                                  ELSE IF old # 0 THEN [pass |-> "find1", at |-> old]
                                  ELSE [pass |-> "idle", at |-> 0]
  BY DEF NextPing
<1> HIDE DEF free, old
<1> DEFINE n == NextPing(tbl, from, pass)
<1>4. CASE free # 0
  <2>1. n.at = free /\ n.pass = "find0"
    BY <1>3, <1>4
  <2> HIDE DEF n
  <2>2. n.at \in Pool /\ Available(tbl, n.at, TRUE, now)
    BY <1>1, <1>4, <2>1, Zenon
  <2> QED BY <1>1, <2>1, <2>2 DEF n
<1>5. CASE free = 0 /\ old # 0
  <2>1. n.at = old /\ n.pass = "find1"
    BY <1>3, <1>5
  <2> HIDE DEF n
  <2>2. n.at \in Pool /\ Available(tbl, n.at, TRUE, now)
    BY <1>2, <1>5, <2>1, Zenon
  <2> QED BY <1>2, <2>1, <2>2 DEF n
<1>6. CASE free = 0 /\ old = 0
  BY <1>3, <1>6
<1> QED BY <1>4, <1>5, <1>6

-----------------------------------------------------------------------------
(***************************************************************************)
(* Type correctness                                                        *)
(***************************************************************************)

\* add_lease stores a number of seconds.
LEMMA ExpiryType == \A len, t \in Nat : Expiry(len, t) \in Nat
  BY TableAssumption DEF Expiry

\* What is read from a line expires at a time that can be stored.
LEMMA TimeLeftType ==
    ASSUME now \in Nat, NEW l \in Lines
    PROVE  Expiry(TimeLeft(l), now) \in Nat
<1>1. l.time \in Nat
  BY DEF Lines
<1>2. CASE Remaining
  BY <1>1, <1>2, ExpiryType DEF TimeLeft
<1>3. CASE ~Remaining
  BY <1>1, <1>3, TableAssumption DEF TimeLeft, Expiry
<1> QED BY <1>2, <1>3

\* The fields of a packet the server acts on.
LEMMA PacketFields ==
    ASSUME NEW p \in Packets
    PROVE  /\ p.chaddr \in Chaddr /\ p.chaddr \in HwAddr \ {Blank}
           /\ p.requested \in Nat
           /\ p.time \in Nat \cup {NoOption}
           /\ p.hostname \in Hostnames
           /\ p # NoPacket
  BY ServerAssumption, TableAssumption DEF PacketType, NoPacket, HwAddr

\* Forgetting a promise leaves the others.
LEMMA DropType ==
    ASSUME TypeOK, NEW c
    PROVE  Drop(c) \in [Chaddr -> Grants]
<1>1. NoGrant \in Grants
  BY DEF Grants, NoGrant
<1> QED BY <1>1 DEF TypeOK, Drop

\* write_to_delta leaves a line.
LEMMA DeltaType ==
    ASSUME NEW op \in {"ADD", "DEL"}, NEW c \in HwAddr, NEW a \in Nat
    PROVE  write_to_delta(op, c, a) \in Deltas
  BY DEF write_to_delta, Deltas

\* The tail of sendOffer keeps the types.
LEMMA TypeFinishOffer ==
    ASSUME TypeOK, NEW p \in Packets, NEW a \in Nat, NEW base \in Nat,
           NEW sent \in BOOLEAN, FinishOffer(p, a, base, sent)
    PROVE  TypeOK'
<1> DEFINE s == find_lease_by_chaddr(leases, p.chaddr)
           len == IF s # 0 /\ leases[s].expires = InfLease THEN InfLease ELSE OfferTime
           host == IF p.hostname = "" THEN "host" ELSE p.hostname
           ok == HasRoom(leases, p.chaddr, a, now)
<1>1. len \in Nat /\ host \in Hostnames /\ now \in Nat
  BY TableAssumption, ServerAssumption, PacketFields DEF TypeOK, Hostnames
<1>2. OfferedTime(p, base, len) \in Nat
  BY <1>1, PacketFields, TableAssumption, ServerAssumption DEF OfferedTime, NoOption
<1>3. /\ leases' = add_lease(leases, p.chaddr, a, len, now, host)
      /\ delta' = IF ok THEN write_to_delta("ADD", p.chaddr, a) ELSE NoDelta
      /\ reply' = IF ok /\ sent
                    THEN [type |-> "OFFER", chaddr |-> p.chaddr, yiaddr |-> a,
                          time |-> OfferedTime(p, base, len)]
                    ELSE NoReply
      /\ grant' = grant \/ grant' = Drop(p.chaddr)
      /\ pc' = "idle" /\ cur' = NoPacket /\ cursor' = 0
      /\ UNCHANGED <<now, timeout_end, file, usr1, restarts>>
  BY DEF FinishOffer
<1> HIDE DEF len, host, ok
<1>4. leases' \in [Slots -> Leases]
  BY <1>1, <1>3, AddLease, ExpiryType, PacketFields DEF TypeOK
<1>5. delta' \in Deltas \cup {NoDelta}
  BY <1>3, PacketFields DEF Deltas, write_to_delta
<1>6. reply' \in Replies \cup {NoReply}
  BY <1>2, <1>3, PacketFields DEF Replies
<1>7. grant' \in [Chaddr -> Grants]
  BY <1>3, DropType DEF TypeOK
<1> QED BY <1>3, <1>4, <1>5, <1>6, <1>7 DEF TypeOK, Busy

\* Reading the lease file keeps the types.
LEMMA TypeLoad ==
    ASSUME TypeOK, Load
    PROVE  TypeOK'
<1> DEFINE l == file[cursor]
<1>1. ASSUME cursor \in Slots
      PROVE  /\ l \in Lines /\ l.chaddr \in HwAddr /\ l.yiaddr \in Nat
             /\ Expiry(TimeLeft(l), now) \in Nat
  <2>1. l \in Lines
    BY <1>1 DEF TypeOK
  <2> QED BY <2>1, TimeLeftType DEF TypeOK, Lines
<1>2. ASSUME NEW h \in Hostnames, ReadLine(h)
      PROVE  TypeOK'
  <2>1. leases' \in [Slots -> Leases]
    BY <1>1, <1>2, AddLease DEF TypeOK, ReadLine
  <2>2. delta' \in Deltas \cup {NoDelta}
    BY <1>1, <1>2 DEF ReadLine, Deltas, write_to_delta
  <2>3. /\ UNCHANGED <<now, cur, file, grant, usr1, restarts>> /\ reply' = NoReply
        /\ pc = "load" /\ pc' \in {"load", "idle"}
        /\ cursor' \in {0, cursor + 1}
        /\ timeout_end' \in {timeout_end, now + AutoTime}
    BY <1>2 DEF ReadLine, EnterLoop
  <2> QED BY <2>1, <2>2, <2>3, ServerAssumption DEF TypeOK, Busy
<1>3. ASSUME NEW b \in Junk \cup {Blank}, ReadShortLine(b)
      PROVE  TypeOK'
  <2> DEFINE first == IF InFileRange(l.yiaddr)
                      THEN add_lease(leases, l.chaddr, l.yiaddr, TimeLeft(l), now, "host")
                      ELSE leases
  <2>0. "host" \in Hostnames /\ b \in HwAddr /\ End + 1 \in Nat
    BY TableAssumption DEF Hostnames, HwAddr
  <2>1. first \in [Slots -> Leases]
    BY <1>1, <1>3, <2>0, AddLease DEF TypeOK, ReadShortLine
  <2>2. \/ leases' = first
        \/ leases' = add_lease(first, b, End + 1, TimeLeft(l), now, "host")
    BY <1>3 DEF ReadShortLine
  <2>3. add_lease(first, b, End + 1, TimeLeft(l), now, "host") \in [Slots -> Leases]
    BY <1>1, <1>3, <2>0, <2>1, AddLease DEF TypeOK, ReadShortLine
  <2>4. delta' \in Deltas \cup {NoDelta}
    <3>1. delta' \in {write_to_delta("ADD", b, End + 1),
                      write_to_delta("ADD", l.chaddr, l.yiaddr), NoDelta}
      BY <1>3 DEF ReadShortLine
    <3>2. cursor \in Slots
      BY <1>3 DEF ReadShortLine
    <3> QED BY <1>1, <2>0, <3>1, <3>2, DeltaType
  <2> HIDE DEF first
  <2>5. leases' \in [Slots -> Leases]
    BY <2>1, <2>2, <2>3
  <2>6. /\ UNCHANGED <<now, cur, file, grant, usr1, restarts>> /\ reply' = NoReply
        /\ pc = "load" /\ pc' \in {"load", "idle"}
        /\ cursor' \in {0, MaxLeases + 1}
        /\ timeout_end' \in {timeout_end, now + AutoTime}
    BY <1>3 DEF ReadShortLine, EnterLoop
  <2> QED BY <2>4, <2>5, <2>6, ServerAssumption, TableAssumption DEF TypeOK, Busy
<1>4. ASSUME SkipLine PROVE TypeOK'
  <2>1. /\ UNCHANGED <<now, pc, leases, timeout_end, cur, file, grant, usr1, restarts>>
        /\ pc = "load" /\ cursor' = cursor + 1 /\ Quiet
    BY <1>4 DEF SkipLine
  <2> QED BY <2>1 DEF TypeOK, Quiet, Busy
<1>5. ASSUME LoadDone PROVE TypeOK'
  BY <1>5, ServerAssumption DEF TypeOK, LoadDone, EnterLoop, Quiet, Busy
<1> QED BY <1>2, <1>3, <1>4, <1>5 DEF Load

\* The end of arpping's wait keeps the types.
LEMMA TypePing ==
    ASSUME TypeOK, Ping
    PROVE  TypeOK'
<1>1. ASSUME NEW sent \in SendOutcomes, ArpSilent(sent)
      PROVE  TypeOK'
  BY <1>1, TypeFinishOffer, ServerAssumption DEF TypeOK, ArpSilent
<1>2. ASSUME NEW o \in ArpAnswers, ArpUsed(o)
      PROVE  TypeOK'
  <2> DEFINE tbl == add_lease(leases, o, cursor, ConflictTime, now, "host")
  <2>1. /\ o \in HwAddr /\ "host" \in Hostnames /\ now \in Nat /\ cursor \in Nat
        /\ leases \in [Slots -> Leases] /\ Expiry(ConflictTime, now) \in Nat
    BY ServerAssumption, ExpiryType DEF TypeOK, Hostnames
  <2>2. tbl \in [Slots -> Leases]
    BY <2>1, AddLease
  <2>3. delta' \in Deltas \cup {NoDelta}
    BY <1>2, <2>1 DEF ArpUsed, Deltas, write_to_delta
  <2>4. grant' \in [Chaddr -> Grants]
    BY <1>2 DEF ArpUsed, TypeOK, Drop, Grants, NoGrant
  <2>5. cursor \in Pool /\ cursor + 1 \in Nat /\ cursor + 1 >= Start
    BY <1>2, TableAssumption DEF ArpUsed, TypeOK, Pool
  <2>6. \E from \in Nat, pass \in Busy : from >= Start /\ PingFrom(tbl, from, pass, cur)
    <3>1. Start \in Nat /\ Start >= Start
      BY TableAssumption
    <3>2. \/ PingFrom(tbl, Start, "find0", cur)
          \/ PingFrom(tbl, cursor + 1, pc, cur)
      BY <1>2 DEF ArpUsed
    <3>3. "find0" \in Busy /\ pc \in Busy
      BY <1>2 DEF ArpUsed, Busy
    <3> QED BY <2>5, <3>1, <3>2, <3>3
  <2>7. leases' = tbl
    BY <1>2 DEF ArpUsed
  <2>8. cur \in Packets
    BY <1>2 DEF ArpUsed, TypeOK
  <2> HIDE DEF tbl
  <2>9. /\ pc' \in Busy \cup {"idle"} /\ cursor' \in Nat
        /\ pc' \in Busy => cursor' \in Pool
        /\ cur' \in Packets \cup {NoPacket}
        /\ pc' \in Busy <=> cur' # NoPacket
    <3>1. PICK from \in Nat, pass \in Busy : from >= Start /\ PingFrom(tbl, from, pass, cur)
      BY <2>6
    <3>2. LET n == NextPing(tbl, from, pass)
          IN  /\ n.at \in Nat
              /\ n.pass \in {"find0", "find1", "idle"}
              /\ n.pass # "idle" => n.at \in Pool
      BY <3>1, <2>1, NextPingFits
    <3> QED BY <3>1, <3>2, <2>8, PacketFields DEF PingFrom, Busy
  <2>10. UNCHANGED <<now, timeout_end, file, usr1, restarts>> /\ reply' = NoReply
    BY <1>2 DEF ArpUsed
  <2> QED BY <2>2, <2>3, <2>4, <2>7, <2>9, <2>10 DEF TypeOK, Busy
<1> QED BY <1>1, <1>2 DEF Ping

\* Each handler of the main loop keeps the types.
LEMMA TypeReceive ==
    ASSUME TypeOK, NEW p \in Packets, NEW sent \in SendOutcomes, Receive(p, sent)
    PROVE  TypeOK'
<1> DEFINE s == find_lease_by_chaddr(leases, p.chaddr)
<1>0. sent \in BOOLEAN /\ now \in Nat /\ leases \in [Slots -> Leases]
  BY ServerAssumption DEF TypeOK
<1>1. s # 0 => s \in Slots /\ leases[s] \in Leases /\ leases[s].yiaddr \in Nat
                           /\ leases[s].expires \in Nat
  BY <1>0, FindByChaddr DEF Leases
<1>2. pc = "idle" /\ cur = NoPacket
  BY DEF Receive, TypeOK, Busy
<1>3. CASE DiscoverKnown(p, sent)
  <2> DEFINE base == IF lease_expired(leases[s], now) THEN Lease
                     ELSE IF leases[s].expires = InfLease THEN InfLease
                     ELSE leases[s].expires - now
  <2>1. s # 0 /\ FinishOffer(p, leases[s].yiaddr, base, sent)
    BY <1>3 DEF DiscoverKnown
  <2>2. base \in Nat
    BY <1>0, <1>1, <2>1, ServerAssumption, TableAssumption DEF lease_expired
  <2> HIDE DEF base
  <2> QED BY <1>0, <1>1, <2>1, <2>2, TypeFinishOffer
<1>4. CASE DiscoverRequested(p)
  BY <1>4, PacketFields DEF DiscoverRequested, RequestedFits, Quiet, TypeOK, Busy
<1>5. CASE DiscoverNew(p)
  <2>1. Start \in Nat /\ Start >= Start
    BY TableAssumption
  <2>2. LET n == NextPing(leases, Start, "find0")
        IN  /\ n.at \in Nat
            /\ n.pass \in {"find0", "find1", "idle"}
            /\ n.pass # "idle" => n.at \in Pool
    BY <1>0, <2>1, NextPingFits
  <2>3. /\ pc' \in Busy \cup {"idle"} /\ cursor' \in Nat
        /\ pc' \in Busy => cursor' \in Pool
        /\ cur' \in Packets \cup {NoPacket}
        /\ pc' \in Busy <=> cur' # NoPacket
    BY <1>5, <2>2, PacketFields DEF DiscoverNew, PingFrom, Busy
  <2> QED BY <1>5, <2>3 DEF DiscoverNew, Quiet, TypeOK
<1>6. ASSUME leases' \in [Slots -> Leases], delta' \in Deltas \cup {NoDelta},
             reply' \in Replies \cup {NoReply}, grant' \in [Chaddr -> Grants], Handled
      PROVE  TypeOK'
  BY <1>6 DEF TypeOK, Handled, Busy
<1>7. CASE RequestKnown(p, sent)
  <2> DEFINE a == leases[s].yiaddr
  <2>1. s # 0 /\ (sendACK(p, a, sent) \/ Silent \/ sendNAK(p, sent)) /\ Handled
    BY <1>7 DEF RequestKnown
  <2>2. CASE sendACK(p, a, sent)
    <3>1. AckTime(p) \in Nat
      BY PacketFields, TableAssumption, ServerAssumption DEF AckTime, NoOption
    <3>2. leases' \in [Slots -> Leases]
      <4>1. \/ leases' = add_lease(leases, p.chaddr, a, AckTime(p), now, p.hostname)
            \/ leases' = leases
        BY <2>2 DEF sendACK
      <4>2. a \in Nat /\ Expiry(AckTime(p), now) \in Nat
        BY <1>0, <1>1, <2>1, <3>1, ExpiryType
      <4> QED BY <1>0, <4>1, <4>2, AddLease, PacketFields
    <3>3. delta' \in Deltas \cup {NoDelta} /\ reply' \in Replies \cup {NoReply}
      BY <1>1, <2>1, <2>2, <3>1, PacketFields
         DEF sendACK, Quiet, Deltas, write_to_delta, Replies
    <3>4. [yiaddr |-> a, end |-> now + AckTime(p), forever |-> AckTime(p) = InfLease] \in Grants
      BY <1>0, <1>1, <2>1, <3>1 DEF Grants
    <3>5. grant' \in [Chaddr -> Grants]
      BY <2>2, <3>4 DEF sendACK, TypeOK
    <3> QED BY <1>6, <2>1, <3>2, <3>3, <3>5
  <2>3. CASE Silent
    BY <1>6, <2>1, <2>3 DEF Silent, Quiet, TypeOK
  <2>4. CASE sendNAK(p, sent)
    BY <1>6, <2>1, <2>4, PacketFields DEF sendNAK, TypeOK, Replies
  <2> QED BY <2>1, <2>2, <2>3, <2>4
<1>8. CASE RequestUnknown(p, sent)
  <2> DEFINE r == find_lease_by_yiaddr(leases, p.requested)
  <2>1. CASE r # 0 /\ leases' = [leases EXCEPT ![r].chaddr = Blank]
             /\ Quiet /\ UNCHANGED grant
    <3>1. r \in Slots
      BY <2>1, FindByYiaddr
    <3> HIDE DEF r
    <3>2. leases' \in [Slots -> Leases]
      BY <1>0, <2>1, <3>1 DEF Leases, HwAddr
    <3> QED BY <1>6, <1>8, <2>1, <3>2 DEF RequestUnknown, Quiet, TypeOK
  <2>2. CASE sendNAK(p, sent)
    BY <1>6, <1>8, <2>2, PacketFields DEF RequestUnknown, sendNAK, TypeOK, Replies
  <2> QED BY <1>8, <2>1, <2>2 DEF RequestUnknown
<1>9. CASE Decline(p)
  <2>1. leases' \in [Slots -> Leases]
    BY <1>0, <1>1, <1>9, ServerAssumption DEF Decline, Leases, HwAddr
  <2>2. grant' \in [Chaddr -> Grants]
    BY <1>9 DEF Decline, TypeOK, Drop, Grants, NoGrant
  <2> QED BY <1>6, <1>9, <2>1, <2>2 DEF Decline, Quiet
<1>10. CASE Release(p)
  <2>1. leases' \in [Slots -> Leases]
    BY <1>0, <1>1, <1>10 DEF Release, Leases
  <2>2. grant' \in [Chaddr -> Grants]
    BY <1>10 DEF Release, TypeOK, Drop, Grants, NoGrant
  <2>3. delta' \in Deltas \cup {NoDelta} /\ reply' = NoReply
    BY <1>1, <1>10, PacketFields DEF Release, Deltas, write_to_delta
  <2> QED BY <1>6, <1>10, <2>1, <2>2, <2>3 DEF Release
<1>11. CASE Inform(p, sent)
  BY <1>6, <1>11, PacketFields DEF Inform, Replies, TypeOK
<1> QED BY <1>3, <1>4, <1>5, <1>7, <1>8, <1>9, <1>10, <1>11 DEF Receive

\* What write_leases puts in the file can be read as lines.
LEMMA ImageType ==
    ASSUME TypeOK
    PROVE  FileImage(leases) \in [Slots -> Lines]
<1> SUFFICES ASSUME NEW s \in Slots PROVE LineOf(leases[s]) \in Lines
  BY DEF FileImage
<1> DEFINE l == leases[s]
<1>1. l \in Leases /\ l.chaddr \in HwAddr /\ l.yiaddr \in Nat /\ l.expires \in Nat
      /\ l.hostname \in Hostnames /\ now \in Nat
  BY DEF TypeOK, Leases
<1>2. Mac(l.chaddr) \in HwAddr
  BY <1>1, ServerAssumption DEF Mac, HwAddr
<1>3. NoLine \in Lines
  BY DEF NoLine, Lines, HwAddr, Hostnames
<1> DEFINE t == IF ~Remaining \/ l.expires = InfLease THEN l.expires
                ELSE IF lease_expired(l, now) THEN 0 ELSE l.expires - now
<1>4. t \in Nat
  BY <1>1 DEF lease_expired
<1>5. LineOf(l) = IF l.yiaddr = 0 THEN NoLine
                  ELSE [chaddr |-> Mac(l.chaddr), yiaddr |-> l.yiaddr, time |-> t,
                        hostname |-> l.hostname]
  BY DEF LineOf
<1> HIDE DEF t, l
<1> QED BY <1>1, <1>2, <1>3, <1>4, <1>5 DEF Lines, l

\* The last of a non-empty set of slots exists.
LEMMA LastExists ==
    ASSUME NEW S \in SUBSET Slots, S # {}
    PROVE  \E s \in S : \A r \in S : r <= s
<1> DEFINE T == {MaxLeases - s : s \in S}
<1>0. MaxLeases \in Nat /\ \A s \in S : s \in Nat /\ s <= MaxLeases
  BY TableAssumption DEF Slots
<1>1. T \in SUBSET Nat /\ T # {}
  BY <1>0
<1>2. PICK x \in T : \A y \in T : x <= y
  BY <1>1, LeastExists
<1>3. PICK s \in S : x = MaxLeases - s
  BY <1>2
<1>4. ASSUME NEW r \in S PROVE r <= s
  <2>1. MaxLeases - s <= MaxLeases - r
    BY <1>2, <1>3
  <2> QED BY <2>1, <1>0
<1> QED BY <1>4

\* write_leases keeps the types.
LEMMA TypeWrite ==
    ASSUME TypeOK, write_leases
    PROVE  /\ file' \in [Slots -> Lines]
           /\ leases' \in [Slots -> Leases]
           /\ delta' \in Deltas \cup {NoDelta}
<1>1. file' \in [Slots -> Lines]
  BY ImageType DEF write_leases
<1>2. leases' \in [Slots -> Leases]
  BY DEF write_leases, TypeOK, Leases
<1>3. delta' \in Deltas \cup {NoDelta}
  <2> DEFINE news == {s \in Reported : leases[s].expires # 0}
             last == CHOOSE s \in news : \A r \in news : r <= s
  <2>1. delta' = IF news = {} THEN NoDelta
                 ELSE write_to_delta("DEL", leases[last].chaddr, leases[last].yiaddr)
    BY DEF write_leases
  <2>2. news \in SUBSET Slots
    BY DEF Reported
  <2>3. ASSUME news # {} PROVE last \in Slots
    <3>1. \E s \in news : \A r \in news : r <= s
      BY <2>2, <2>3, LastExists
    <3> HIDE DEF news
    <3> QED BY <2>2, <3>1
  <2>4. ASSUME last \in Slots
        PROVE  leases[last].chaddr \in HwAddr /\ leases[last].yiaddr \in Nat
    BY <2>4 DEF TypeOK, Leases
  <2> HIDE DEF news, last
  <2> QED BY <2>1, <2>3, <2>4, DeltaType
<1> QED BY <1>1, <1>2, <1>3

\* Stopping the process keeps the types.
LEMMA TypeStopped ==
    ASSUME TypeOK, NEW lines \in [Slots -> Lines], Stopped(lines),
           now' \in Nat, usr1' \in Nat, restarts' \in Nat
    PROVE  TypeOK'
<1>1. EmptyTable \in [Slots -> Leases]
  BY DEF EmptyTable, NoLease, Leases, HwAddr, Hostnames
<1>2. NoGrant \in Grants
  BY DEF Grants, NoGrant
<1> QED BY <1>1, <1>2 DEF Stopped, Quiet, TypeOK, Busy

\* Every step keeps the types.
LEMMA TypeStep == TypeOK /\ [Next]_vars => TypeOK'
<1> SUFFICES ASSUME TypeOK, [Next]_vars PROVE TypeOK'
  OBVIOUS
<1>1. CASE Load
  BY <1>1, TypeLoad
<1>2. CASE Ping
  BY <1>2, TypePing
<1>3. CASE \E p \in Packets, sent \in SendOutcomes : Receive(p, sent)
  BY <1>3, TypeReceive
<1>4. CASE AutoWrite
  <2>1. /\ file' \in [Slots -> Lines] /\ leases' \in [Slots -> Leases]
        /\ delta' \in Deltas \cup {NoDelta}
    BY <1>4, TypeWrite DEF AutoWrite
  <2> QED BY <1>4, <2>1, ServerAssumption DEF AutoWrite, TypeOK, Busy
<1>5. CASE AutoWriteFails
  BY <1>5, ServerAssumption DEF AutoWriteFails, Quiet, TypeOK, Busy
<1>6. CASE SigUsr1
  <2>1. CASE Stopped(file)
    BY <1>6, <2>1, TypeStopped DEF SigUsr1, TypeOK
  <2>2. CASE UNCHANGED <<pc, leases, cur, cursor, timeout_end, file, grant>> /\ Quiet
    BY <1>6, <2>2 DEF SigUsr1, Quiet, TypeOK, Busy
  <2> QED BY <1>6, <2>1, <2>2 DEF SigUsr1
<1>7. CASE Kill
  <2>1. CASE Stopped(file)
    BY <1>7, <2>1, TypeStopped DEF Kill, TypeOK
  <2>2. ASSUME NEW k \in 0..MaxLeases, NEW torn \in TornLines \cup {NoLine},
               Stopped(CutFile(k, torn))
        PROVE  TypeOK'
    <3>0. NoLine \in Lines
      BY DEF NoLine, Lines, HwAddr, Hostnames
    <3>1. NoLine \in Lines /\ torn \in Lines
      BY <3>0, TornAssumption
    <3>2. CutFile(k, torn) \in [Slots -> Lines]
      BY <3>1, ImageType DEF CutFile
    <3> QED BY <1>7, <2>2, <3>2, TypeStopped DEF Kill, TypeOK
  <2> QED BY <1>7, <2>1, <2>2 DEF Kill
<1>8. CASE \E t \in {0, now} : Restart(t)
  BY <1>8 DEF Restart, Quiet, TypeOK, Busy
<1>9. CASE Tick
  BY <1>9 DEF Tick, Quiet, TypeOK, Busy
<1>10. CASE UNCHANGED vars
  BY <1>10 DEF vars, TypeOK, Busy
<1> QED BY <1>1, <1>2, <1>3, <1>4, <1>5, <1>6, <1>7, <1>8, <1>9, <1>10 DEF Next

\* The server starts with well-typed variables.
LEMMA TypeInit == Init => TypeOK
<1>1. EmptyTable \in [Slots -> Leases]
  BY DEF EmptyTable, NoLease, Leases, HwAddr, Hostnames
<1>2. NoLine \in Lines
  BY DEF NoLine, Lines, HwAddr, Hostnames
<1>3. NoGrant \in Grants
  BY DEF Grants, NoGrant
<1> QED BY <1>1, <1>2, <1>3 DEF Init, TypeOK, Busy

\* Every reachable state of the server, for any number of clients, slots and
\* addresses, has the types of the C program.
THEOREM TypeCorrect == Spec => []TypeOK
  BY TypeInit, TypeStep, PTL DEF Spec

-----------------------------------------------------------------------------
(***************************************************************************)
(* Safety: the inductive invariant IInv                                    *)
(***************************************************************************)

Sole(s) == \A r \in Slots \ {s} : leases[r].yiaddr # leases[s].yiaddr

\* The slot that keeps a standing promise has not expired.
LEMMA KeptIsLive ==
    ASSUME TypeOK, NEW d \in Chaddr, LiveGrant(d), NEW s \in Slots, Keeps(s, d)
    PROVE  ~lease_expired(leases[s], now) /\ leases[s].yiaddr # 0
<1>1. leases[s].expires \in Nat /\ grant[d].end \in Nat /\ now \in Nat
  BY DEF TypeOK, Leases, Grants
<1> QED BY <1>1 DEF LiveGrant, Keeps, lease_expired

\* An address find_address may take is not promised to anybody.
LEMMA AvailableNotPromised ==
    ASSUME TypeOK, NEW a, Available(leases, a, TRUE, now),
           NEW d \in Chaddr, LiveGrant(d), NEW s \in Slots, Keeps(s, d), Sole(s)
    PROVE  leases[s].yiaddr # a
<1> SUFFICES ASSUME leases[s].yiaddr = a PROVE FALSE
  OBVIOUS
<1> DEFINE r == find_lease_by_yiaddr(leases, a)
<1>1. r # 0 /\ r \in Slots /\ leases[r].yiaddr = a
  BY FindByYiaddr
<1>2. lease_expired(leases[r], now)
  BY <1>1 DEF Available
<1>3. r = s
  BY <1>1 DEF Sole
<1> QED BY <1>2, <1>3, KeptIsLive

\* add_lease for one host and an address not promised to d leaves d's slot.
LEMMA AddKeepsPromise ==
    ASSUME TypeOK, NEW c \in HwAddr, NEW a \in Nat \ {0}, NEW len,
           NEW h \in Hostnames, Expiry(len, now) \in Nat,
           leases' = add_lease(leases, c, a, len, now, h),
           NEW d \in Chaddr, d # c, LiveGrant(d), grant'[d] = grant[d],
           NEW s \in Slots, Keeps(s, d), Sole(s), leases[s].yiaddr # a
    PROVE  Keeps(s, d)' /\ Sole(s)'
<1>1. ~lease_expired(leases[s], now) /\ leases[s].yiaddr # 0
  BY KeptIsLive
<1>2. leases \in [Slots -> Leases] /\ now \in Nat /\ leases[s].chaddr # c
  BY DEF TypeOK, Keeps
<1>3. leases'[s] = leases[s] /\ \A r \in Slots \ {s} : leases'[r].yiaddr # leases[s].yiaddr
  BY <1>1, <1>2, AddLeaseSpares DEF Sole
<1> QED BY <1>3 DEF Keeps, Sole

\* An entry is added only when the clock has left 0: add_lease needs an
\* expired slot.
LEMMA AddClock ==
    ASSUME TypeOK, ClockRuns, NEW c \in HwAddr, NEW a \in Nat, NEW len,
           NEW h \in Hostnames, Expiry(len, now) \in Nat,
           leases' = add_lease(leases, c, a, len, now, h), now' = now
    PROVE  ClockRuns'
<1>1. leases \in [Slots -> Leases] /\ now \in Nat
  BY DEF TypeOK
<1> DEFINE clean == Cleaned(leases, c, a)
<1>2. CASE HasRoom(leases, c, a, now)
  <2>1. PICK o \in Slots : lease_expired(clean[o], now)
    BY <1>1, <1>2, AddLease
  <2>2. clean[o].expires \in Nat
    BY <1>1, CleanedType DEF Leases
  <2>3. now > 0
    BY <1>1, <2>1, <2>2 DEF lease_expired
  <2> QED BY <2>3 DEF ClockRuns
<1>3. CASE ~HasRoom(leases, c, a, now)
  <2>1. leases' = clean
    BY <1>1, <1>3, AddLease
  <2>2. \A s \in Slots : leases'[s].yiaddr # 0 => leases[s].yiaddr # 0
    BY <1>1, <2>1, CleanedType
  <2> QED BY <2>2 DEF ClockRuns
<1> QED BY <1>2, <1>3

\* The three facts of the table alone survive add_lease.
LEMMA AddTable ==
    ASSUME TypeOK, HeldAddressesDistinct, HostsHaveAddresses, ClockRuns,
           NEW c \in HwAddr, NEW a \in Nat \ {0}, NEW len,
           NEW h \in Hostnames, Expiry(len, now) \in Nat,
           leases' = add_lease(leases, c, a, len, now, h), now' = now
    PROVE  HeldAddressesDistinct' /\ HostsHaveAddresses' /\ ClockRuns'
<1>1. leases \in [Slots -> Leases] /\ now \in Nat
  BY DEF TypeOK
<1>2. HeldAddressesDistinct'
  <2>1. Distinct(add_lease(leases, c, a, len, now, h))
    BY <1>1, AddLeaseDistinct DEF HeldAddressesDistinct
  <2> QED BY <2>1 DEF HeldAddressesDistinct
<1>3. HostsHaveAddresses'
  BY <1>1, AddLeaseAddresses DEF HostsHaveAddresses
<1>4. ClockRuns'
  BY <1>1, AddClock
<1> QED BY <1>2, <1>3, <1>4

\* Answering a DISCOVER with an address that is promised to no other client.
LEMMA SafeFinishOffer ==
    ASSUME IInv, NEW p \in Packets, NEW a \in Nat \ {0}, NEW base \in Nat,
           NEW sent \in BOOLEAN, FinishOffer(p, a, base, sent),
           pc \notin {"down", "load"},
           \A d \in Chaddr \ {p.chaddr}, s \in Slots :
               LiveGrant(d) /\ Keeps(s, d) /\ Sole(s) => leases[s].yiaddr # a
    PROVE  IInv'
<1> DEFINE c == p.chaddr
           f == find_lease_by_chaddr(leases, c)
           len == IF f # 0 /\ leases[f].expires = InfLease THEN InfLease ELSE OfferTime
           host == IF p.hostname = "" THEN "host" ELSE p.hostname
           ok == HasRoom(leases, c, a, now)
<1>1. /\ len \in Nat /\ host \in Hostnames /\ now \in Nat /\ Expiry(len, now) \in Nat
      /\ c \in Chaddr /\ c \in HwAddr \ {Blank} /\ leases \in [Slots -> Leases]
      /\ TypeOK /\ grant \in [Chaddr -> Grants]
  BY TableAssumption, ServerAssumption, PacketFields, ExpiryType DEF IInv, TypeOK, Hostnames
<1>2. /\ leases' = add_lease(leases, c, a, len, now, host)
      /\ reply' = IF ok /\ sent
                    THEN [type |-> "OFFER", chaddr |-> c, yiaddr |-> a,
                          time |-> OfferedTime(p, base, len)]
                    ELSE NoReply
      /\ grant' = IF ok /\ len = InfLease /\ a = grant[c].yiaddr THEN grant ELSE Drop(c)
      /\ pc' = "idle" /\ now' = now
  BY DEF FinishOffer
<1> HIDE DEF len, host, ok
<1>3. TypeOK'
  BY <1>1, TypeFinishOffer
<1>4. HeldAddressesDistinct' /\ HostsHaveAddresses' /\ ClockRuns'
  BY <1>1, <1>2, AddTable DEF IInv
<1>5. NothingPromised' /\ PingTarget'
  BY <1>2 DEF NothingPromised, PingTarget, Busy
<1>6. ASSUME ok
      PROVE  \E o \in Slots : leases'[o] = Entry(c, a, len, now, host) /\ Sole(o)'
  <2>1. PICK o \in Slots : /\ leases'[o] = Entry(c, a, len, now, host)
                           /\ \A r \in Slots \ {o} : leases'[r].yiaddr # a
    BY <1>1, <1>2, <1>6, AddLeaseSole DEF ok
  <2> QED BY <2>1 DEF Sole, Entry
<1>7. GrantKept'
  <2> SUFFICES ASSUME NEW d \in Chaddr, LiveGrant(d)'
               PROVE  \E s \in Slots : Keeps(s, d)' /\ Sole(s)'
    BY DEF GrantKept, Sole
  <2>1. CASE d = c
    <3>1. ok /\ len = InfLease /\ a = grant[c].yiaddr /\ grant' = grant
      BY <1>1, <1>2, <2>1 DEF LiveGrant, Drop, NoGrant
    <3>2. PICK o \in Slots : leases'[o] = Entry(c, a, len, now, host) /\ Sole(o)'
      BY <1>6, <3>1
    <3>3. Keeps(o, c)'
      BY <3>1, <3>2 DEF Keeps, Entry, Expiry
    <3> QED BY <2>1, <3>2, <3>3
  <2>2. CASE d # c
    <3>1. grant'[d] = grant[d]
      BY <1>1, <1>2, <2>2 DEF Drop
    <3>2. LiveGrant(d)
      BY <1>2, <3>1 DEF LiveGrant
    <3>3. PICK s \in Slots : Keeps(s, d) /\ Sole(s)
      BY <3>2 DEF IInv, GrantKept, Sole
    <3>4. leases[s].yiaddr # a
      BY <2>2, <3>2, <3>3
    <3> QED BY <1>1, <1>2, <2>2, <3>1, <3>2, <3>3, <3>4, AddKeepsPromise
  <2> QED BY <2>1, <2>2
<1>8. ReplyReserved'
  <2>1. CASE ok /\ sent
    <3>1. PICK o \in Slots : leases'[o] = Entry(c, a, len, now, host)
      BY <1>6, <2>1
    <3>2. ~lease_expired(leases'[o], now)
      BY <1>1, <3>1 DEF lease_expired, Entry, Expiry
    <3> QED BY <1>2, <2>1, <3>1, <3>2 DEF ReplyReserved, Entry
  <2>2. CASE ~(ok /\ sent)
    BY <1>2, <2>2 DEF ReplyReserved, NoReply
  <2> QED BY <2>1, <2>2
<1> QED BY <1>3, <1>4, <1>5, <1>7, <1>8 DEF IInv

\* A step that answers nobody and under which every promise keeps its slot.
LEMMA QuietReply == reply' = NoReply => ReplyReserved'
  BY DEF ReplyReserved, NoReply

\* Without promises there is nothing to keep.
LEMMA NoPromiseKept ==
    ASSUME \A c \in Chaddr : grant'[c] = NoGrant
    PROVE  GrantKept' /\ NothingPromised'
  BY DEF GrantKept, LiveGrant, NothingPromised, NoGrant

\* Reading the lease file: the table stays distinct, nothing is promised yet.
LEMMA SafeLoad ==
    ASSUME IInv, Load
    PROVE  IInv'
<1> DEFINE l == file[cursor]
<1>0. TypeOK /\ HeldAddressesDistinct /\ HostsHaveAddresses /\ ClockRuns
  BY DEF IInv
<1>1. pc = "load" /\ reply' = NoReply /\ UNCHANGED <<now, grant>>
  BY DEF Load, ReadLine, ReadShortLine, SkipLine, LoadDone, Quiet
<1>2. TypeOK'
  BY TypeLoad DEF IInv
<1>3. GrantKept' /\ NothingPromised'
  BY <1>1, NoPromiseKept DEF IInv, NothingPromised
<1>4. PingTarget'
  BY <1>1 DEF Load, ReadLine, ReadShortLine, SkipLine, LoadDone, EnterLoop, PingTarget, Busy
<1>5. ASSUME cursor \in Slots
      PROVE  l.chaddr \in HwAddr /\ l.yiaddr \in Nat /\ Expiry(TimeLeft(l), now) \in Nat
  <2>1. l \in Lines /\ now \in Nat
    BY <1>0, <1>5 DEF TypeOK
  <2> QED BY <2>1, TimeLeftType DEF Lines
<1>6. HeldAddressesDistinct' /\ HostsHaveAddresses' /\ ClockRuns'
  <2>1. ASSUME NEW h \in Hostnames, ReadLine(h)
        PROVE  HeldAddressesDistinct' /\ HostsHaveAddresses' /\ ClockRuns'
    <3>1. /\ cursor \in Slots /\ l.yiaddr # 0
          /\ leases' = add_lease(leases, l.chaddr, l.yiaddr, TimeLeft(l), now, h)
      BY <2>1 DEF ReadLine
    <3> HIDE DEF l
    <3> QED BY <1>0, <1>1, <1>5, <3>1, AddTable
  <2>2. ASSUME NEW b \in Junk \cup {Blank}, ReadShortLine(b)
        PROVE  HeldAddressesDistinct' /\ HostsHaveAddresses' /\ ClockRuns'
    <3> DEFINE first == IF InFileRange(l.yiaddr)
                        THEN add_lease(leases, l.chaddr, l.yiaddr, TimeLeft(l), now, "host")
                        ELSE leases
    <3>1. /\ cursor \in Slots /\ l.yiaddr # 0
          /\ \/ leases' = first
             \/ leases' = add_lease(first, b, End + 1, TimeLeft(l), now, "host")
      BY <2>2 DEF ReadShortLine
    <3>2. /\ "host" \in Hostnames /\ b \in HwAddr /\ End + 1 \in Nat \ {0}
          /\ leases \in [Slots -> Leases] /\ now \in Nat
          /\ l.chaddr \in HwAddr /\ l.yiaddr \in Nat \ {0} /\ Expiry(TimeLeft(l), now) \in Nat
      BY <1>0, <1>5, <3>1, TableAssumption DEF Hostnames, HwAddr, TypeOK
    <3> HIDE DEF l
    <3>3. CASE leases' = first
      <4>1. CASE InFileRange(l.yiaddr)
        BY <1>0, <1>1, <3>2, <3>3, <4>1, AddTable
      <4>2. CASE ~InFileRange(l.yiaddr)
        BY <1>0, <1>1, <3>3, <4>2
           DEF HeldAddressesDistinct, Distinct, HostsHaveAddresses, ClockRuns
      <4> QED BY <4>1, <4>2
    <3>4. CASE leases' = add_lease(first, b, End + 1, TimeLeft(l), now, "host")
      <4>1. first \in [Slots -> Leases]
        BY <3>2, AddLease
      <4>2. Distinct(first)
        BY <1>0, <3>2, AddLeaseDistinct DEF HeldAddressesDistinct
      <4>3. \A s \in Slots : first[s].chaddr # Blank => first[s].yiaddr # 0
        BY <1>0, <3>2, AddLeaseAddresses DEF HostsHaveAddresses
      <4> HIDE DEF first
      <4>4. HeldAddressesDistinct'
        <5>1. Distinct(add_lease(first, b, End + 1, TimeLeft(l), now, "host"))
          BY <3>2, <4>1, <4>2, AddLeaseDistinct
        <5> QED BY <3>4, <5>1 DEF HeldAddressesDistinct
      <4>5. HostsHaveAddresses'
        BY <3>2, <3>4, <4>1, <4>3, AddLeaseAddresses DEF HostsHaveAddresses
      <4>6. ClockRuns'
        <5>1. CASE InFileRange(l.yiaddr) /\ HasRoom(leases, l.chaddr, l.yiaddr, now)
          <6>1. PICK o \in Slots : lease_expired(Cleaned(leases, l.chaddr, l.yiaddr)[o], now)
            BY <3>2, <5>1, AddLease
          <6>2. Cleaned(leases, l.chaddr, l.yiaddr)[o].expires \in Nat
            BY <3>2, CleanedType DEF Leases
          <6>3. now > 0
            BY <3>2, <6>1, <6>2 DEF lease_expired
          <6> QED BY <1>1, <6>3 DEF ClockRuns
        <5>2. CASE InFileRange(l.yiaddr) /\ ~HasRoom(leases, l.chaddr, l.yiaddr, now)
          <6>1. leases' = first
            BY <2>2, <5>2 DEF ReadShortLine, first, l
          <6> QED BY <1>0, <1>1, <3>2, <5>2, <6>1, AddTable DEF first
        <5>3. CASE ~InFileRange(l.yiaddr)
          <6>1. leases' = add_lease(leases, b, End + 1, TimeLeft(l), now, "host")
            BY <3>4, <5>3 DEF first
          <6> QED BY <1>0, <1>1, <3>2, <6>1, AddTable
        <5> QED BY <5>1, <5>2, <5>3
      <4> QED BY <4>4, <4>5, <4>6
    <3> QED BY <3>1, <3>3, <3>4
  <2>3. ASSUME UNCHANGED leases
        PROVE  HeldAddressesDistinct' /\ HostsHaveAddresses' /\ ClockRuns'
    BY <1>0, <1>1, <2>3 DEF HeldAddressesDistinct, Distinct, HostsHaveAddresses, ClockRuns
  <2> QED BY <2>1, <2>2, <2>3 DEF Load, SkipLine, LoadDone
<1>7. ReplyReserved'
  BY <1>1, QuietReply
<1> QED BY <1>2, <1>3, <1>4, <1>6, <1>7 DEF IInv

\* The end of arpping's wait: the address asked for is still nobody's, and
\* after a conflict the search stops at another such address.
LEMMA SafePing ==
    ASSUME IInv, Ping
    PROVE  IInv'
<1>0. /\ TypeOK /\ pc \in Busy /\ cur \in Packets /\ cursor \in Nat \ {0}
      /\ Available(leases, cursor, TRUE, now) /\ pc \notin {"down", "load"}
  <2>1. TypeOK /\ PingTarget
    BY DEF IInv
  <2>2. pc \in Busy
    BY DEF Ping, ArpSilent, ArpUsed
  <2>3. cur \in Packets /\ cursor \in Nat /\ cursor \in Pool
    BY <2>1, <2>2 DEF TypeOK
  <2>4. cursor # 0
    BY <2>3, TableAssumption DEF Pool
  <2>5. pc \notin {"down", "load"}
    BY <2>2 DEF Busy
  <2> QED BY <2>1, <2>2, <2>3, <2>4, <2>5 DEF PingTarget
<1>1. \A d \in Chaddr, s \in Slots :
         LiveGrant(d) /\ Keeps(s, d) /\ Sole(s) => leases[s].yiaddr # cursor
  BY <1>0, AvailableNotPromised
<1>2. ASSUME NEW sent \in SendOutcomes, ArpSilent(sent)
      PROVE  IInv'
  <2>1. FinishOffer(cur, cursor, Lease, sent) /\ sent \in BOOLEAN /\ Lease \in Nat
    BY <1>2, ServerAssumption DEF ArpSilent
  <2> QED BY <1>0, <1>1, <2>1, SafeFinishOffer
<1>3. ASSUME NEW o \in ArpAnswers, ArpUsed(o)
      PROVE  IInv'
  <2>1. /\ leases' = add_lease(leases, o, cursor, ConflictTime, now, "host")
        /\ grant' = IF o \in Chaddr THEN Drop(o) ELSE grant
        /\ now' = now /\ reply' = NoReply
    BY <1>3 DEF ArpUsed
  <2>2. /\ o \in HwAddr /\ "host" \in Hostnames /\ Expiry(ConflictTime, now) \in Nat
        /\ grant \in [Chaddr -> Grants]
    BY <1>0, ServerAssumption, ExpiryType DEF TypeOK, Hostnames
  <2>3. TypeOK'
    BY <1>0, <1>3, TypePing DEF Ping
  <2>4. HeldAddressesDistinct' /\ HostsHaveAddresses' /\ ClockRuns'
    BY <1>0, <2>1, <2>2, AddTable DEF IInv
  <2>5. PingTarget' /\ NothingPromised'
    <3>1. \E from \in Nat, pass \in Busy : from >= Start /\ PingFrom(leases', from, pass, cur)
      <4>1. Start \in Nat /\ Start >= Start /\ cursor + 1 \in Nat /\ cursor + 1 >= Start
        BY <1>0, TableAssumption DEF TypeOK, Pool
      <4>2. \/ PingFrom(leases', Start, "find0", cur)
            \/ PingFrom(leases', cursor + 1, pc, cur)
        BY <1>3, <2>1 DEF ArpUsed
      <4>3. "find0" \in Busy /\ pc \in Busy
        BY <1>3 DEF ArpUsed, Busy
      <4> QED BY <4>1, <4>2, <4>3
    <3>2. PICK from \in Nat, pass \in Busy : from >= Start /\ PingFrom(leases', from, pass, cur)
      BY <3>1
    <3> DEFINE n == NextPing(leases', from, pass)
    <3>3. /\ n.pass \in {"find0", "find1", "idle"}
          /\ n.pass # "idle" => Available(leases', n.at, TRUE, now)
      <4>1. now \in Nat
        BY <1>0 DEF TypeOK
      <4> QED BY <3>2, <4>1, NextPingFits
    <3>4. pc' = n.pass /\ cursor' = n.at
      BY <3>2 DEF PingFrom
    <3> HIDE DEF n
    <3>5. pc' # "idle" => Available(leases', cursor', TRUE, now')
      BY <2>1, <3>3, <3>4, Zenon
    <3>6. pc' \in {"find0", "find1", "idle"}
      BY <3>3, <3>4
    <3> QED BY <3>5, <3>6 DEF PingTarget, NothingPromised, Busy
  <2>6. GrantKept'
    <3> SUFFICES ASSUME NEW d \in Chaddr, LiveGrant(d)'
                 PROVE  \E s \in Slots : Keeps(s, d)' /\ Sole(s)'
      BY DEF GrantKept, Sole
    <3>1. d # o /\ grant'[d] = grant[d]
      BY <2>1, <2>2 DEF LiveGrant, Drop, NoGrant
    <3>2. LiveGrant(d)
      BY <2>1, <3>1 DEF LiveGrant
    <3>3. PICK s \in Slots : Keeps(s, d) /\ Sole(s)
      BY <3>2 DEF IInv, GrantKept, Sole
    <3> QED BY <1>0, <1>1, <2>1, <2>2, <3>1, <3>2, <3>3, AddKeepsPromise
  <2>7. ReplyReserved'
    BY <2>1, QuietReply
  <2> QED BY <2>3, <2>4, <2>5, <2>6, <2>7 DEF IInv
<1> QED BY <1>2, <1>3 DEF Ping

\* A step that moves no address to another slot, and takes no host to one.
LEMMA SameAddresses ==
    ASSUME TypeOK, HeldAddressesDistinct, HostsHaveAddresses, ClockRuns,
           now' \in Nat, now' >= now,
           \A s \in Slots : /\ leases'[s].yiaddr = leases[s].yiaddr
                           /\ leases'[s].chaddr \in {leases[s].chaddr, Blank}
    PROVE  HeldAddressesDistinct' /\ HostsHaveAddresses' /\ ClockRuns'
<1>1. now \in Nat
  BY DEF TypeOK
<1> QED BY <1>1 DEF HeldAddressesDistinct, Distinct, HostsHaveAddresses, ClockRuns

\* A step that leaves the slot of every promise that still stands alone.
LEMMA PromisesStand ==
    ASSUME TypeOK, GrantKept, now' \in Nat, now' >= now,
           \A s \in Slots : leases'[s].yiaddr = leases[s].yiaddr,
           \A d \in Chaddr : LiveGrant(d)' => grant'[d] = grant[d],
           \A d \in Chaddr, s \in Slots :
               LiveGrant(d)' /\ LiveGrant(d) /\ Keeps(s, d) => leases'[s] = leases[s]
    PROVE  GrantKept'
<1> SUFFICES ASSUME NEW d \in Chaddr, LiveGrant(d)'
             PROVE  \E s \in Slots : Keeps(s, d)' /\ Sole(s)'
  BY DEF GrantKept, Sole
<1>1. now \in Nat /\ grant[d].end \in Nat /\ grant'[d] = grant[d]
  BY DEF TypeOK, Grants
<1>2. LiveGrant(d)
  BY <1>1 DEF LiveGrant
<1>3. PICK s \in Slots : Keeps(s, d) /\ Sole(s)
  BY <1>2 DEF GrantKept, Sole
<1>4. leases'[s] = leases[s]
  BY <1>2, <1>3
<1>5. Keeps(s, d)'
  BY <1>1, <1>3, <1>4 DEF Keeps
<1>6. Sole(s)'
  BY <1>3 DEF Sole
<1> QED BY <1>5, <1>6

\* Acknowledging a client its own slot's address.
LEMMA SafeACK ==
    ASSUME IInv, NEW p \in Packets, NEW f \in Slots, leases[f].chaddr = p.chaddr,
           NEW sent \in BOOLEAN, sendACK(p, leases[f].yiaddr, sent), Handled, pc = "idle"
    PROVE  /\ HeldAddressesDistinct' /\ HostsHaveAddresses' /\ ClockRuns'
           /\ GrantKept' /\ ReplyReserved'
<1> DEFINE c == p.chaddr
           a == leases[f].yiaddr
           len == AckTime(p)
<1>1. /\ TypeOK /\ c \in Chaddr /\ c \in HwAddr \ {Blank} /\ p.hostname \in Hostnames
      /\ leases \in [Slots -> Leases] /\ now \in Nat /\ grant \in [Chaddr -> Grants]
  BY PacketFields DEF IInv, TypeOK
<1>2. a \in Nat \ {0} /\ now > 0
  <2>1. leases[f] \in Leases
    BY <1>1
  <2>2. a \in Nat /\ a # 0
    BY <1>1, <2>1 DEF Leases, IInv, HostsHaveAddresses
  <2> QED BY <2>2 DEF IInv, ClockRuns
<1>3. len \in Nat /\ Expiry(len, now) \in Nat
  <2>1. len \in Nat
    <3>1. p.time \in Nat \cup {NoOption} /\ Lease \in Nat /\ MinLease \in Nat
      BY PacketFields, ServerAssumption
    <3> QED BY <3>1, TableAssumption DEF AckTime, NoOption
  <2> QED BY <1>1, <2>1, ExpiryType
<1>4. now' = now
  BY DEF Handled
<1>5. CASE sent
  <2>1. /\ reply' = [type |-> "ACK", chaddr |-> c, yiaddr |-> a, time |-> len]
        /\ leases' = add_lease(leases, c, a, len, now, p.hostname)
        /\ grant' = [grant EXCEPT ![c] =
                        [yiaddr |-> a, end |-> now + len, forever |-> len = InfLease]]
    BY <1>5 DEF sendACK
  <2> HIDE DEF a, len, c
  <2>2. HeldAddressesDistinct' /\ HostsHaveAddresses' /\ ClockRuns'
    BY <1>1, <1>2, <1>3, <1>4, <2>1, AddTable DEF IInv
  <2>3. HasRoom(leases, c, a, now)
    BY <1>1, <1>2, AddLeaseOwnRoom DEF c
  <2>4. PICK o \in Slots : /\ leases'[o] = Entry(c, a, len, now, p.hostname)
                          /\ \A r \in Slots \ {o} : leases'[r].yiaddr # a
    BY <1>1, <1>2, <1>3, <2>1, <2>3, AddLeaseSole
  <2>5. ReplyReserved'
    <3>1. ~lease_expired(leases'[o], now)
      BY <1>1, <1>3, <2>4 DEF lease_expired, Entry, Expiry
    <3> QED BY <1>4, <2>1, <2>4, <3>1 DEF ReplyReserved, Entry
  <2>6. GrantKept'
    <3> SUFFICES ASSUME NEW d \in Chaddr, LiveGrant(d)'
                 PROVE  \E s \in Slots : Keeps(s, d)' /\ Sole(s)'
      BY DEF GrantKept, Sole
    <3>1. CASE d = c
      <4>1. grant'[c] = [yiaddr |-> a, end |-> now + len, forever |-> len = InfLease]
        BY <1>1, <2>1
      <4>2. Keeps(o, c)'
        <5>1. /\ leases'[o].chaddr = c /\ leases'[o].yiaddr = a
              /\ leases'[o].expires = Expiry(len, now)
          BY <2>4 DEF Entry
        <5>2. /\ grant'[c].yiaddr = a /\ grant'[c].end = now + len
              /\ grant'[c].forever = (len = InfLease)
          BY <4>1
        <5>3. CASE len = InfLease
          BY <5>1, <5>2, <5>3 DEF Keeps, Expiry
        <5>4. CASE len # InfLease
          <6>1. leases'[o].expires >= grant'[c].end
            BY <1>1, <1>3, <5>1, <5>2, <5>4 DEF Expiry
          <6> QED BY <5>1, <5>2, <5>4, <6>1 DEF Keeps
        <5> QED BY <5>3, <5>4
      <4>3. Sole(o)'
        BY <2>4 DEF Sole, Entry
      <4> QED BY <3>1, <4>2, <4>3
    <3>2. CASE d # c
      <4>1. grant'[d] = grant[d]
        BY <1>1, <2>1, <3>2
      <4>2. LiveGrant(d)
        BY <1>4, <4>1 DEF LiveGrant
      <4>3. PICK s \in Slots : Keeps(s, d) /\ Sole(s)
        BY <4>2 DEF IInv, GrantKept, Sole
      <4>4. leases[s].yiaddr # a
        BY <3>2, <4>3 DEF Keeps, Sole, a, c
      <4> QED BY <1>1, <1>2, <1>3, <2>1, <3>2, <4>1, <4>2, <4>3, <4>4, AddKeepsPromise
    <3> QED BY <3>1, <3>2
  <2> QED BY <2>2, <2>5, <2>6
<1>6. CASE ~sent
  <2>1. UNCHANGED <<leases, grant>> /\ reply' = NoReply
    BY <1>6 DEF sendACK, Quiet
  <2>2. GrantKept'
    BY <1>1, <1>4, <2>1, PromisesStand DEF IInv
  <2> QED BY <1>1, <1>4, <2>1, <2>2, SameAddresses, QuietReply DEF IInv
<1> QED BY <1>5, <1>6

\* Each handler of the main loop keeps the invariant.
LEMMA SafeReceive ==
    ASSUME IInv, NEW p \in Packets, NEW sent \in SendOutcomes, Receive(p, sent)
    PROVE  IInv'
<1> DEFINE c == p.chaddr
           f == find_lease_by_chaddr(leases, c)
<1>1. /\ TypeOK /\ HeldAddressesDistinct /\ HostsHaveAddresses /\ ClockRuns /\ GrantKept
      /\ pc = "idle" /\ sent \in BOOLEAN /\ c \in Chaddr /\ now \in Nat /\ now >= now
      /\ leases \in [Slots -> Leases] /\ grant \in [Chaddr -> Grants]
  BY ServerAssumption, PacketFields DEF IInv, TypeOK, Receive
<1>2. f # 0 => f \in Slots /\ leases[f].chaddr = c
  BY FindByChaddr
<1>3. TypeOK'
  BY <1>1, TypeReceive
<1> HIDE DEF f
<1>4. ASSUME DiscoverKnown(p, sent)
      PROVE  IInv'
  <2>1. PICK base \in Nat : f # 0 /\ FinishOffer(p, leases[f].yiaddr, base, sent)
    <3>1. f # 0
      BY <1>4 DEF DiscoverKnown, f
    <3>2. leases[f].expires \in Nat
      BY <1>1, <1>2, <3>1 DEF Leases
    <3> DEFINE base == IF lease_expired(leases[f], now) THEN Lease
                       ELSE IF leases[f].expires = InfLease THEN InfLease
                       ELSE leases[f].expires - now
    <3>3. base \in Nat
      BY <1>1, <3>2, TableAssumption, ServerAssumption DEF lease_expired
    <3>4. FinishOffer(p, leases[f].yiaddr, base, sent)
      BY <1>4 DEF DiscoverKnown, f
    <3> QED BY <3>1, <3>3, <3>4
  <2>2. leases[f].yiaddr \in Nat \ {0}
    <3>1. leases[f] \in Leases /\ leases[f].chaddr # Blank
      BY <1>1, <1>2, <2>1, PacketFields
    <3> QED BY <1>1, <1>2, <2>1, <3>1 DEF Leases, HostsHaveAddresses
  <2>3. \A d \in Chaddr \ {p.chaddr}, s \in Slots :
           LiveGrant(d) /\ Keeps(s, d) /\ Sole(s) => leases[s].yiaddr # leases[f].yiaddr
    BY <1>2, <2>1 DEF Keeps, Sole
  <2> QED BY <1>1, <2>1, <2>2, <2>3, SafeFinishOffer
<1>5. ASSUME DiscoverRequested(p) \/ DiscoverNew(p)
      PROVE  IInv'
  <2>1. UNCHANGED <<now, leases, grant>> /\ reply' = NoReply
    BY <1>5 DEF DiscoverRequested, DiscoverNew, Quiet
  <2>2. HeldAddressesDistinct' /\ HostsHaveAddresses' /\ ClockRuns'
    BY <1>1, <2>1, SameAddresses
  <2>3. GrantKept'
    BY <1>1, <2>1, PromisesStand
  <2>4. PingTarget' /\ NothingPromised'
    <3>1. CASE DiscoverRequested(p)
      <4>1. pc' = "check" /\ cursor' = p.requested /\ Available(leases, p.requested, TRUE, now)
        BY <3>1 DEF DiscoverRequested, RequestedFits
      <4>2. Available(leases', cursor', TRUE, now')
        BY <2>1, <4>1, Zenon
      <4> QED BY <4>1, <4>2 DEF PingTarget, NothingPromised
    <3>2. CASE DiscoverNew(p)
      <4> DEFINE n == NextPing(leases, Start, "find0")
      <4>1. pc' = n.pass /\ cursor' = n.at
        BY <3>2 DEF DiscoverNew, PingFrom
      <4>2. /\ n.pass \in {"find0", "find1", "idle"}
            /\ n.pass # "idle" => Available(leases, n.at, TRUE, now)
        <5>1. Start \in Nat /\ Start >= Start
          BY TableAssumption
        <5> QED BY <1>1, <5>1, NextPingFits
      <4> HIDE DEF n
      <4>3. pc' # "idle" => Available(leases', cursor', TRUE, now')
        BY <2>1, <4>1, <4>2, Zenon
      <4>4. pc' \in {"find0", "find1", "idle"}
        BY <4>1, <4>2
      <4> QED BY <4>3, <4>4 DEF PingTarget, NothingPromised, Busy
    <3> QED BY <1>5, <3>1, <3>2
  <2> QED BY <1>3, <2>1, <2>2, <2>3, <2>4, QuietReply DEF IInv
<1>6. ASSUME Handled PROVE now' = now /\ pc' = "idle" /\ PingTarget' /\ NothingPromised'
  BY <1>1, <1>6 DEF Handled, PingTarget, NothingPromised, Busy
<1>7. ASSUME Handled, UNCHANGED <<leases, grant>>, ReplyReserved'
      PROVE  IInv'
  <2>1. HeldAddressesDistinct' /\ HostsHaveAddresses' /\ ClockRuns'
    BY <1>1, <1>6, <1>7, SameAddresses
  <2>2. GrantKept'
    BY <1>1, <1>6, <1>7, PromisesStand
  <2> QED BY <1>3, <1>6, <1>7, <2>1, <2>2 DEF IInv
<1>8. ASSUME sendNAK(p, sent) \/ Silent
      PROVE  UNCHANGED <<leases, grant>> /\ ReplyReserved'
  BY <1>8 DEF sendNAK, Silent, Quiet, ReplyReserved, NoReply
<1>9. ASSUME RequestKnown(p, sent)
      PROVE  IInv'
  <2>1. f # 0 /\ Handled
    BY <1>9 DEF RequestKnown, f
  <2>2. sendACK(p, leases[f].yiaddr, sent) \/ Silent \/ sendNAK(p, sent)
    BY <1>9 DEF RequestKnown, f
  <2>3. CASE sendACK(p, leases[f].yiaddr, sent)
    BY <1>1, <1>2, <1>3, <1>6, <2>1, <2>3, SafeACK DEF IInv
  <2>4. CASE Silent \/ sendNAK(p, sent)
    BY <1>7, <1>8, <2>1, <2>4
  <2> QED BY <2>2, <2>3, <2>4
<1>10. ASSUME RequestUnknown(p, sent)
       PROVE  IInv'
  <2> DEFINE r == find_lease_by_yiaddr(leases, p.requested)
  <2>1. Handled
    BY <1>10 DEF RequestUnknown
  <2>2. CASE sendNAK(p, sent)
    BY <1>7, <1>8, <2>1, <2>2
  <2>3. CASE /\ r # 0 /\ lease_expired(leases[r], now)
             /\ leases' = [leases EXCEPT ![r].chaddr = Blank]
             /\ Quiet /\ UNCHANGED grant
    <3>1. r \in Slots
      BY <2>3, FindByYiaddr
    <3> HIDE DEF r
    <3>2. HeldAddressesDistinct' /\ HostsHaveAddresses' /\ ClockRuns'
      BY <1>1, <1>6, <2>1, <2>3, <3>1, SameAddresses
    <3>3. \A d \in Chaddr, s \in Slots :
             LiveGrant(d) /\ Keeps(s, d) => leases'[s] = leases[s]
      BY <1>1, <2>3, KeptIsLive
    <3>4. \A s \in Slots : leases'[s].yiaddr = leases[s].yiaddr
      BY <1>1, <2>3
    <3>5. GrantKept'
      BY <1>1, <1>6, <2>1, <2>3, <3>3, <3>4, PromisesStand
    <3>6. ReplyReserved'
      BY <2>3, QuietReply DEF Quiet
    <3> QED BY <1>3, <1>6, <2>1, <3>2, <3>5, <3>6 DEF IInv
  <2> QED BY <1>10, <2>2, <2>3 DEF RequestUnknown
<1>11. ASSUME Decline(p) \/ Release(p)
       PROVE  IInv'
  <2>1. Handled /\ reply' = NoReply
    BY <1>11 DEF Decline, Release, Quiet
  <2>2. /\ grant' \in {grant, Drop(c)}
        /\ \/ leases' = leases
           \/ /\ f # 0 /\ grant' = Drop(c)
              /\ \/ leases' = [leases EXCEPT ![f].chaddr = Blank,
                                             ![f].expires = now + DeclineTime]
                 \/ leases' = [leases EXCEPT ![f].expires = now]
    BY <1>11 DEF Decline, Release, f
  <2>3. \A s \in Slots : /\ leases'[s].yiaddr = leases[s].yiaddr
                         /\ leases'[s].chaddr \in {leases[s].chaddr, Blank}
                         /\ leases'[s] # leases[s] => s = f /\ f # 0 /\ grant' = Drop(c)
    <3>1. CASE leases' = leases
      BY <3>1
    <3>2. CASE leases' = [leases EXCEPT ![f].chaddr = Blank, ![f].expires = now + DeclineTime]
      BY <1>1, <1>2, <2>2, <3>2
    <3>3. CASE leases' = [leases EXCEPT ![f].expires = now]
      BY <1>1, <1>2, <2>2, <3>3
    <3> QED BY <2>2, <3>1, <3>2, <3>3
  <2>4. HeldAddressesDistinct' /\ HostsHaveAddresses' /\ ClockRuns'
    BY <1>1, <1>6, <2>1, <2>3, SameAddresses
  <2>5. \A d \in Chaddr : LiveGrant(d)' => grant'[d] = grant[d]
    BY <1>1, <2>2 DEF LiveGrant, Drop, NoGrant
  <2>6. ASSUME NEW d \in Chaddr, NEW s \in Slots, LiveGrant(d)', Keeps(s, d)
        PROVE  leases'[s] = leases[s]
    <3> SUFFICES ASSUME leases'[s] # leases[s] PROVE FALSE
      OBVIOUS
    <3>1. leases[s].chaddr = c /\ grant' = Drop(c)
      BY <1>2, <2>3
    <3>2. d = c
      BY <2>6, <3>1 DEF Keeps
    <3> QED BY <1>1, <2>6, <3>1, <3>2 DEF LiveGrant, Drop, NoGrant
  <2>7. GrantKept'
    BY <1>1, <1>6, <2>1, <2>3, <2>5, <2>6, PromisesStand
  <2> QED BY <1>3, <1>6, <2>1, <2>4, <2>7, QuietReply DEF IInv
<1>12. ASSUME Inform(p, sent)
       PROVE  IInv'
  <2>1. Handled /\ UNCHANGED <<leases, grant>> /\ ReplyReserved'
    BY <1>12 DEF Inform, ReplyReserved, NoReply
  <2> QED BY <1>7, <2>1
<1> QED BY <1>4, <1>5, <1>9, <1>10, <1>11, <1>12 DEF Receive

\* Writing the lease file ages only entries that have expired.
LEMMA SafeWrite ==
    ASSUME IInv, AutoWrite
    PROVE  IInv'
<1>1. /\ TypeOK /\ HeldAddressesDistinct /\ HostsHaveAddresses /\ ClockRuns /\ GrantKept
      /\ leases \in [Slots -> Leases] /\ now \in Nat /\ now >= now
  BY DEF IInv, TypeOK
<1>2. /\ now' = now /\ pc = "idle" /\ pc' = "idle" /\ grant' = grant /\ reply' = NoReply
      /\ leases' = [s \in Slots |-> IF s \in Reported
                                    THEN [leases[s] EXCEPT !.expires = 0]
                                    ELSE leases[s]]
  BY DEF AutoWrite, write_leases
<1>3. \A s \in Slots : /\ leases'[s].yiaddr = leases[s].yiaddr
                       /\ leases'[s].chaddr \in {leases[s].chaddr, Blank}
                       /\ leases'[s] # leases[s] => lease_expired(leases[s], now)
  BY <1>1, <1>2 DEF Reported, Leases
<1>4. HeldAddressesDistinct' /\ HostsHaveAddresses' /\ ClockRuns'
  BY <1>1, <1>2, <1>3, SameAddresses
<1>5. \A d \in Chaddr, s \in Slots :
         LiveGrant(d) /\ Keeps(s, d) => leases'[s] = leases[s]
  BY <1>1, <1>3, KeptIsLive
<1>6. GrantKept'
  BY <1>1, <1>2, <1>3, <1>5, PromisesStand
<1>7. PingTarget' /\ NothingPromised'
  BY <1>2 DEF PingTarget, NothingPromised, Busy
<1>8. TypeOK'
  BY <1>1, TypeStep DEF Next
<1> QED BY <1>2, <1>4, <1>6, <1>7, <1>8, QuietReply DEF IInv

\* A process that has stopped has promised nothing and holds no lease.
LEMMA SafeStopped ==
    ASSUME NEW lines, Stopped(lines), TypeOK'
    PROVE  IInv'
<1>1. leases' = EmptyTable /\ pc' = "down" /\ reply' = NoReply
  BY DEF Stopped, Quiet
<1>2. \A s \in Slots : leases'[s].chaddr = Blank /\ leases'[s].yiaddr = 0
  BY <1>1 DEF EmptyTable, NoLease
<1>3. HeldAddressesDistinct' /\ HostsHaveAddresses' /\ ClockRuns'
  BY <1>2 DEF HeldAddressesDistinct, Distinct, HostsHaveAddresses, ClockRuns
<1>4. \A c \in Chaddr : grant'[c] = NoGrant
  BY DEF Stopped
<1>5. PingTarget'
  BY <1>1 DEF PingTarget, Busy
<1> QED BY <1>1, <1>3, <1>4, <1>5, NoPromiseKept, QuietReply DEF IInv

\* Time passes, or nothing does: what has expired stays so.
LEMMA SafeIdle ==
    ASSUME IInv, TypeOK', now' \in Nat, now' >= now,
           UNCHANGED <<pc, leases, cursor, grant>>, ReplyReserved'
    PROVE  IInv'
<1>1. /\ TypeOK /\ HeldAddressesDistinct /\ HostsHaveAddresses /\ ClockRuns /\ GrantKept
      /\ leases \in [Slots -> Leases] /\ now \in Nat
  BY DEF IInv, TypeOK
<1>2. HeldAddressesDistinct' /\ HostsHaveAddresses' /\ ClockRuns'
  BY <1>1, SameAddresses
<1>3. GrantKept'
  BY <1>1, PromisesStand
<1>4. NothingPromised'
  BY DEF IInv, NothingPromised
<1>5. PingTarget'
  <2> SUFFICES ASSUME pc' \in Busy PROVE Available(leases', cursor', TRUE, now')
    BY DEF PingTarget
  <2>1. Available(leases, cursor, TRUE, now)
    BY DEF IInv, PingTarget
  <2> DEFINE s == find_lease_by_yiaddr(leases, cursor)
  <2>2. s # 0 => s \in Slots /\ lease_expired(leases[s], now)
    BY <2>1, FindByYiaddr DEF Available
  <2> HIDE DEF s
  <2>3. s # 0 => lease_expired(leases[s], now')
    <3> SUFFICES ASSUME s # 0 PROVE lease_expired(leases[s], now')
      OBVIOUS
    <3>1. leases[s].expires \in Nat
      BY <1>1, <2>2 DEF Leases
    <3> QED BY <1>1, <2>2, <3>1 DEF lease_expired
  <2>4. Available(leases, cursor, TRUE, now')
    BY <2>3 DEF Available, s
  <2> QED BY <2>4, Zenon
<1> QED BY <1>2, <1>3, <1>4, <1>5 DEF IInv

\* Every step keeps the invariant.
LEMMA SafeStep == IInv /\ DownIsEmpty /\ [Next]_vars => IInv'
<1> SUFFICES ASSUME IInv, DownIsEmpty, [Next]_vars PROVE IInv'
  OBVIOUS
<1>1. TypeOK' /\ now \in Nat /\ now >= now /\ now + 1 \in Nat /\ now + 1 >= now
  BY TypeStep DEF IInv, TypeOK
<1>2. CASE Load
  BY <1>2, SafeLoad
<1>3. CASE Ping
  BY <1>3, SafePing
<1>4. CASE \E p \in Packets, sent \in SendOutcomes : Receive(p, sent)
  BY <1>4, SafeReceive
<1>5. CASE AutoWrite
  BY <1>5, SafeWrite
<1>6. CASE AutoWriteFails
  <2>1. UNCHANGED <<now, pc, leases, cursor, grant>> /\ reply' = NoReply
    BY <1>6 DEF AutoWriteFails, Quiet
  <2> QED BY <1>1, <2>1, SafeIdle, QuietReply
<1>7. CASE SigUsr1
  <2>1. CASE UNCHANGED <<now, pc, leases, cursor, grant>> /\ reply' = NoReply
    BY <1>1, <2>1, SafeIdle, QuietReply
  <2>2. CASE Stopped(file)
    BY <1>1, <2>2, SafeStopped
  <2> QED BY <1>7, <2>1, <2>2 DEF SigUsr1, Quiet
<1>8. CASE Kill
  <2>1. \E lines : Stopped(lines)
    BY <1>8 DEF Kill
  <2> QED BY <1>1, <2>1, SafeStopped
<1>9. CASE \E t \in {0, now} : Restart(t)
  <2>1. /\ pc = "down" /\ pc' = "load" /\ reply' = NoReply
        /\ UNCHANGED <<leases, grant>> /\ now' \in {0, now}
    BY <1>9 DEF Restart, Quiet
  <2>2. \A c \in Chaddr : grant'[c] = NoGrant
    BY <2>1 DEF IInv, NothingPromised
  <2>3. HeldAddressesDistinct' /\ HostsHaveAddresses'
    BY <2>1 DEF IInv, HeldAddressesDistinct, Distinct, HostsHaveAddresses
  <2>4. ClockRuns'
    BY <2>1 DEF ClockRuns, DownIsEmpty
  <2>5. PingTarget'
    BY <2>1 DEF PingTarget, Busy
  <2> QED BY <1>1, <2>1, <2>2, <2>3, <2>4, <2>5, NoPromiseKept, QuietReply DEF IInv
<1>10. CASE Tick
  <2>1. UNCHANGED <<pc, leases, cursor, grant>> /\ reply' = NoReply /\ now' = now + 1
    BY <1>10 DEF Tick, Quiet
  <2> QED BY <1>1, <2>1, SafeIdle, QuietReply
<1>11. CASE UNCHANGED vars
  <2>1. UNCHANGED <<now, pc, leases, cursor, grant, reply>>
    BY <1>11 DEF vars
  <2>2. ReplyReserved'
    BY <2>1 DEF IInv, ReplyReserved
  <2> QED BY <1>1, <2>1, <2>2, SafeIdle
<1> QED BY <1>2, <1>3, <1>4, <1>5, <1>6, <1>7, <1>8, <1>9, <1>10, <1>11 DEF Next

\* Only a step that stops the process leads to "down", and it empties the
\* table.
LEMMA DownStep == TypeOK /\ DownIsEmpty /\ [Next]_vars => DownIsEmpty'
<1> SUFFICES ASSUME TypeOK, DownIsEmpty, [Next]_vars, pc' = "down"
             PROVE  \A s \in Slots : leases'[s].yiaddr = 0
  BY DEF DownIsEmpty
<1>1. (\E lines : Stopped(lines)) \/ (pc = "down" /\ leases' = leases)
  <2>1. ~Load
    BY DEF Load, ReadLine, ReadShortLine, SkipLine, LoadDone, EnterLoop
  <2>2. ~Ping
    <3>1. TypeOK' /\ Busy = {"check", "find0", "find1"}
      BY TypeStep DEF Busy
    <3>2. \A tbl, from, pass : NextPing(tbl, from, pass).pass # "down"
      BY DEF NextPing
    <3>3. \A tbl, from, pass, q : ~PingFrom(tbl, from, pass, q)
      BY <3>2 DEF PingFrom
    <3>4. \A q, a, base, sent : ~FinishOffer(q, a, base, sent)
      BY DEF FinishOffer
    <3> QED BY <3>3, <3>4 DEF Ping, ArpSilent, ArpUsed
  <2>3. \A p \in Packets, sent \in SendOutcomes : ~Receive(p, sent)
    <3>1. \A tbl, from, pass : NextPing(tbl, from, pass).pass # "down"
      BY DEF NextPing
    <3>2. \A tbl, from, pass, q : ~PingFrom(tbl, from, pass, q)
      BY <3>1 DEF PingFrom
    <3>3. \A q, a, base, sent : ~FinishOffer(q, a, base, sent)
      BY DEF FinishOffer
    <3>4. pc = "idle" => ~Handled
      BY DEF Handled
    <3> QED BY <3>2, <3>3, <3>4 DEF Receive, DiscoverKnown, DiscoverRequested, DiscoverNew,
               RequestKnown, RequestUnknown, Decline, Release, Inform
  <2>4. ~AutoWrite /\ ~AutoWriteFails
    BY DEF AutoWrite, AutoWriteFails
  <2>5. ASSUME SigUsr1 \/ Kill PROVE \E lines : Stopped(lines)
    BY <2>5 DEF SigUsr1, Kill, Up
  <2>6. \A t : ~Restart(t)
    BY DEF Restart
  <2>7. ASSUME Tick \/ UNCHANGED vars PROVE pc = "down" /\ leases' = leases
    BY <2>7 DEF Tick, vars
  <2> QED BY <2>1, <2>2, <2>3, <2>4, <2>5, <2>6, <2>7 DEF Next
<1>2. CASE \E lines : Stopped(lines)
  <2>1. leases' = EmptyTable
    BY <1>2 DEF Stopped
  <2> QED BY <2>1 DEF EmptyTable, NoLease
<1>3. CASE pc = "down" /\ leases' = leases
  BY <1>3 DEF DownIsEmpty
<1> QED BY <1>1, <1>2, <1>3

\* The invariant holds when the server starts.
LEMMA SafeInit == Init => IInv /\ DownIsEmpty
<1> SUFFICES ASSUME Init PROVE IInv /\ DownIsEmpty
  OBVIOUS
<1>1. TypeOK
  BY TypeInit
<1>2. \A s \in Slots : leases[s].chaddr = Blank /\ leases[s].yiaddr = 0
  BY DEF Init, EmptyTable, NoLease
<1>3. HeldAddressesDistinct /\ HostsHaveAddresses /\ ClockRuns /\ DownIsEmpty
  BY <1>2 DEF HeldAddressesDistinct, Distinct, HostsHaveAddresses, ClockRuns, DownIsEmpty
<1>4. GrantKept /\ NothingPromised /\ PingTarget /\ ReplyReserved
  BY DEF Init, GrantKept, LiveGrant, NoGrant, NothingPromised, PingTarget, Busy,
         ReplyReserved, NoReply
<1> QED BY <1>1, <1>3, <1>4 DEF IInv

\* The invariant is inductive: it holds in every reachable state, for every
\* pool, table size, set of clients and packets, and whatever arpping, sendto,
\* the clock, signals and crashes do.
THEOREM Inductive == Spec => [](IInv /\ DownIsEmpty)
<1>1. IInv => TypeOK
  BY DEF IInv
<1> QED BY <1>1, SafeInit, SafeStep, DownStep, PTL DEF Spec

\* What an ACK promised a client stays in the server's table until it runs
\* out or the client gives it up: add_lease evicts, oldest_expired_lease
\* recycles and write_leases ages only what nobody was promised.
THEOREM GrantsAreHonoured == Spec => []GrantHonoured
<1>1. IInv => GrantHonoured
  BY DEF IInv, GrantKept, GrantHonoured
<1> QED BY <1>1, Inductive, PTL

\* No two slots of the table hold the same host or, for two hosts, the same
\* address.
THEOREM HeldDistinct == Spec => []HeldAddressesDistinct
<1>1. IInv => HeldAddressesDistinct
  BY DEF IInv
<1> QED BY <1>1, Inductive, PTL

\* No address is promised to two clients at the same time.
THEOREM NoAddressTwice == Spec => []NoDoubleGrant
<1>1. IInv => NoDoubleGrant
  <2> SUFFICES ASSUME IInv, NEW c \in Chaddr, NEW d \in Chaddr, c # d,
                      LiveGrant(c), LiveGrant(d), grant[c].yiaddr = grant[d].yiaddr
               PROVE  FALSE
    BY DEF NoDoubleGrant
  <2>1. PICK s \in Slots : Keeps(s, c) /\ Sole(s)
    BY DEF IInv, GrantKept, Sole
  <2>2. PICK r \in Slots : Keeps(r, d)
    BY DEF IInv, GrantKept
  <2> QED BY <2>1, <2>2 DEF Keeps, Sole
<1> QED BY <1>1, Inductive, PTL

\* An OFFER or ACK on its way names an address the table reserves for its
\* client.
THEOREM RepliesAreReserved == Spec => []ReplyReserved
<1>1. IInv => ReplyReserved
  BY DEF IInv
<1> QED BY <1>1, Inductive, PTL

\* No OFFER or ACK names an address promised to another client, although
\* sendOffer chooses before arpping waits and reserves after.
THEOREM OffersAreFree == Spec => []OfferNotGranted
<1>1. IInv => OfferNotGranted
  <2> SUFFICES ASSUME IInv, reply.type \in {"OFFER", "ACK"},
                      NEW d \in Chaddr \ {reply.chaddr}, LiveGrant(d),
                      grant[d].yiaddr = reply.yiaddr
               PROVE  FALSE
    BY DEF OfferNotGranted
  <2>1. PICK s \in Slots : Keeps(s, d) /\ Sole(s)
    BY DEF IInv, GrantKept, Sole
  <2>2. PICK r \in Slots : leases[r].chaddr = reply.chaddr /\ leases[r].yiaddr = reply.yiaddr
    BY DEF IInv, ReplyReserved
  <2> QED BY <2>1, <2>2 DEF Keeps, Sole
<1> QED BY <1>1, Inductive, PTL

\* A pass of find_address goes on from where it is, and the second one does not
\* lead back to the first.
LEMMA NextPingLater ==
    ASSUME NEW tbl, NEW from \in Nat, from >= Start, NEW pass
    PROVE  LET n == NextPing(tbl, from, pass)
           IN  /\ n.pass \in {"find0", "find1", "idle"}
               /\ n.pass = "find0" => pass = "find0" /\ n.at \in from .. End
               /\ n.pass = "find1" => /\ n.at \in Start .. End
                                      /\ pass # "find0" => n.at \in from .. End
<1> DEFINE free == IF pass = "find0" THEN NextCandidate(tbl, from, FALSE, now) ELSE 0
           start == IF pass = "find0" THEN Start ELSE from
           old == NextCandidate(tbl, start, TRUE, now)
<1>1. ASSUME NEW f \in Nat, f >= Start, NEW e
      PROVE  NextCandidate(tbl, f, e, now) \in (f .. End) \cup {0}
  <2> DEFINE S == {a \in f..End : /\ a % 256 \notin {0, 255}
                                  /\ Available(tbl, a, e, now)}
  <2>1. S \in SUBSET Nat /\ S \subseteq f .. End /\ 0 \notin S
    BY <1>1, TableAssumption
  <2>2. NextCandidate(tbl, f, e, now) = Least(S)
    BY DEF NextCandidate
  <2> HIDE DEF S
  <2>3. Least(S) \in S \cup {0}
    BY <2>1, LeastIsLeast
  <2> QED BY <2>1, <2>2, <2>3
<1>2. start \in Nat /\ start >= Start
  BY TableAssumption
<1>3. free # 0 => pass = "find0" /\ free \in from .. End
  BY <1>1
<1>4. old # 0 => old \in start .. End
  BY <1>1, <1>2
<1>5. NextPing(tbl, from, pass) = IF free # 0 THEN [pass |-> "find0", at |-> free]
                                  ELSE IF old # 0 THEN [pass |-> "find1", at |-> old]
                                  ELSE [pass |-> "idle", at |-> 0]
  BY DEF NextPing
<1>6. start .. End \subseteq Start .. End /\ (pass # "find0" => start = from)
  BY <1>2, TableAssumption
<1> HIDE DEF free, old, start
<1>7. CASE free # 0
  BY <1>3, <1>5, <1>7
<1>8. CASE free = 0 /\ old # 0
  BY <1>4, <1>5, <1>6, <1>8
<1>9. CASE free = 0 /\ old = 0
  BY <1>5, <1>9
<1> QED BY <1>7, <1>8, <1>9

\* Every conflict brings the search forward.
LEMMA ConflictAdvances ==
    ASSUME TypeOK, NEW o, ArpUsed(o)
    PROVE  PingsLeft' < PingsLeft
<1>1. /\ pc \in Busy /\ cursor \in Nat /\ cursor >= Start /\ cursor <= End
      /\ Start \in Nat /\ End \in Nat
  BY TableAssumption DEF TypeOK, ArpUsed, Pool
<1>2. CASE pc = "check"
  <2> DEFINE n == NextPing(leases', Start, "find0")
  <2>1. pc' = n.pass /\ cursor' = n.at
    BY <1>2 DEF ArpUsed, PingFrom
  <2>2. /\ n.pass \in {"find0", "find1", "idle"}
        /\ n.pass \in {"find0", "find1"} => n.at \in Start .. End
    BY <1>1, NextPingLater
  <2> HIDE DEF n
  <2> QED BY <1>1, <1>2, <2>1, <2>2 DEF PingsLeft, PoolSize
<1>3. CASE pc = "find0"
  <2> DEFINE n == NextPing(leases', cursor + 1, "find0")
  <2>1. pc' = n.pass /\ cursor' = n.at
    BY <1>3 DEF ArpUsed, PingFrom
  <2>2. /\ n.pass \in {"find0", "find1", "idle"}
        /\ n.pass = "find0" => n.at \in cursor + 1 .. End
        /\ n.pass = "find1" => n.at \in Start .. End
    BY <1>1, NextPingLater
  <2> HIDE DEF n
  <2> QED BY <1>1, <1>3, <2>1, <2>2 DEF PingsLeft, PoolSize
<1>4. CASE pc = "find1"
  <2> DEFINE n == NextPing(leases', cursor + 1, "find1")
  <2>1. pc' = n.pass /\ cursor' = n.at
    BY <1>4 DEF ArpUsed, PingFrom
  <2>2. /\ n.pass \in {"find1", "idle"}
        /\ n.pass = "find1" => n.at \in cursor + 1 .. End
    BY <1>1, NextPingLater
  <2> HIDE DEF n
  <2> QED BY <1>1, <1>4, <2>1, <2>2 DEF PingsLeft
<1> QED BY <1>1, <1>2, <1>3, <1>4 DEF Busy

\* A DISCOVER waits for arpping at most 2 * PoolSize + 1 times: for any pool and
\* table each answer that arpping gets brings find_address forward, although the
\* entry that check_ip makes of it changes the table under the search.
THEOREM SearchesAdvance == Spec => SearchAdvances
<1> DEFINE Advances == pc \in Busy =>
              PingsLeft' < PingsLeft \/ UNCHANGED <<pc, cursor, cur, leases>>
<1>1. ASSUME TypeOK, [Next]_vars PROVE [Advances]_vars
  <2> SUFFICES ASSUME pc \in Busy PROVE Advances
    OBVIOUS
  <2>1. PingsLeft > 0
    <3>1. cursor \in Nat /\ cursor <= End /\ Start \in Nat /\ End \in Nat /\ Start <= End
      BY <1>1, TableAssumption DEF TypeOK, Pool
    <3> QED BY <3>1 DEF Busy, PingsLeft, PoolSize
  <2>2. pc' \in {"idle", "down"} => PingsLeft' = 0
    BY DEF PingsLeft
  <2>3. CASE Ping
    <3>1. ASSUME NEW sent, ArpSilent(sent) PROVE PingsLeft' < PingsLeft
      BY <2>1, <2>2, <3>1 DEF ArpSilent, FinishOffer
    <3> QED BY <1>1, <2>3, <3>1, ConflictAdvances DEF Ping
  <2>4. CASE SigUsr1 \/ Kill
    BY <2>1, <2>2, <2>4 DEF SigUsr1, Kill, Stopped
  <2>5. CASE Tick \/ UNCHANGED vars
    BY <2>5 DEF Tick, vars
  <2>6. ~(Load \/ AutoWrite \/ AutoWriteFails)
    BY DEF Load, ReadLine, ReadShortLine, SkipLine, LoadDone, AutoWrite, AutoWriteFails, Busy
  <2>7. \A p, sent, t : ~Receive(p, sent) /\ ~Restart(t)
    BY DEF Receive, Restart, Busy
  <2> QED BY <1>1, <2>3, <2>4, <2>5, <2>6, <2>7 DEF Next
<1> QED BY <1>1, TypeCorrect, PTL DEF Spec, SearchAdvances
=============================================================================
