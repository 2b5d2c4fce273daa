------------------------- MODULE UdhcpdReloadProofs -------------------------
(***************************************************************************)
(* Proofs about the DHCP server Udhcpd that need more than IInv: that a    *)
(* declined address is left alone until it has rested, and that reloading  *)
(* the lease file loses no line.                                           *)
(*                                                                         *)
(* IInv says that no two hosts have the same address.  An entry without a  *)
(* host (a declined address) escapes it, and the first result needs that   *)
(* such an entry, too, is alone with its address: in the table, on the     *)
(* lines of the file, and in the table while it is rebuilt from the lines  *)
(* (ReserveInv).  The second needs that add_lease, which recycles the      *)
(* oldest expired slot, meets an empty one first although entries may      *)
(* expire while the file is read: the slots fill from the front, one per   *)
(* line at most, and only an empty one has expiry 0 (ReloadInv).           *)
(***************************************************************************)
EXTENDS UdhcpdProofs

\* The rest of a declined address, as a fact about one step.
Rested ==
    \A s \in Slots :
        /\ leases[s].chaddr = Blank /\ leases[s].yiaddr # 0
        /\ ~lease_expired(leases[s], now)
        /\ pc' # "down"
        => leases'[s] = leases[s]

Named(h) == h # ""

\* add_lease fills the slot oldest_expired_lease found.
LEMMA AddLeaseSlot ==
    ASSUME NEW tbl \in [Slots -> Leases], NEW c, NEW a, NEW len, NEW t \in Nat, NEW h,
           HasRoom(tbl, c, a, t)
    PROVE  LET o == oldest_expired_lease(Cleaned(tbl, c, a), t)
           IN  /\ o \in Slots
               /\ add_lease(tbl, c, a, len, t, h)[o] = Entry(c, a, len, t, h)
               /\ \A r \in Slots \ {o} :
                    add_lease(tbl, c, a, len, t, h)[r] = Cleaned(tbl, c, a)[r]
<1>1. Cleaned(tbl, c, a) \in [Slots -> Leases]
  BY CleanedType
<1> DEFINE o == oldest_expired_lease(Cleaned(tbl, c, a), t)
<1>2. o # 0
  BY DEF HasRoom
<1>3. o \in Slots
  BY <1>1, <1>2, OldestIsExpired
<1>4. add_lease(tbl, c, a, len, t, h) = [Cleaned(tbl, c, a) EXCEPT ![o] = Entry(c, a, len, t, h)]
  BY <1>2 DEF add_lease
<1> QED BY <1>1, <1>3, <1>4

\* An entry for a host takes the place of every other entry of its address;
\* one without a host may only be added where there is none.
LEMMA AddOneSlot ==
    ASSUME NEW tbl \in [Slots -> Leases], NEW c \in HwAddr, NEW a \in Nat \ {0},
           NEW len, NEW t \in Nat, NEW h \in Hostnames, Expiry(len, t) \in Nat,
           OneSlotEach(tbl), c = Blank => \A s \in Slots : tbl[s].yiaddr # a
    PROVE  OneSlotEach(add_lease(tbl, c, a, len, t, h))
<1> DEFINE clean == Cleaned(tbl, c, a)
           new == add_lease(tbl, c, a, len, t, h)
<1>1. OneSlotEach(clean)
  BY CleanedType DEF OneSlotEach
<1>2. \A s \in Slots : clean[s].yiaddr # a
  BY DEF Cleaned, clear_lease, zerohwaddr, NoLease
<1>3. Entry(c, a, len, t, h).yiaddr = a
  BY DEF Entry
<1>4. CASE ~HasRoom(tbl, c, a, t)
  BY <1>1, <1>4, AddLease
<1>5. CASE HasRoom(tbl, c, a, t)
  <2>1. PICK o \in Slots : /\ new[o] = Entry(c, a, len, t, h)
                           /\ \A r \in Slots \ {o} : new[r] = clean[r]
    BY <1>5, AddLease
  <2> HIDE DEF clean, new
  <2>2. OneSlotEach(new)
    BY <2>1, <1>1, <1>2, <1>3 DEF OneSlotEach
  <2> QED BY <2>2 DEF new
<1> QED BY <1>4, <1>5

\* add_lease leaves each slot as it was, emptied, or with the new entry.
LEMMA AddLeaseSlots ==
    ASSUME NEW tbl \in [Slots -> Leases], NEW c \in HwAddr, NEW a \in Nat,
           NEW len, NEW t \in Nat, NEW h \in Hostnames, Expiry(len, t) \in Nat
    PROVE  LET new == add_lease(tbl, c, a, len, t, h)
           IN  /\ new \in [Slots -> Leases]
               /\ \A s \in Slots : \/ new[s] = tbl[s]
                                  \/ new[s].yiaddr = 0
                                  \/ new[s] = Entry(c, a, len, t, h)
<1> DEFINE clean == Cleaned(tbl, c, a)
           new == add_lease(tbl, c, a, len, t, h)
<1>1. \A s \in Slots : new[s] = clean[s] \/ new[s] = Entry(c, a, len, t, h)
  BY AddLease
<1>2. \A s \in Slots : clean[s] = tbl[s] \/ clean[s].yiaddr = 0
  BY CleanedType
<1>3. new \in [Slots -> Leases]
  BY AddLease
<1> HIDE DEF clean, new
<1>4. \A s \in Slots : new[s] = tbl[s] \/ new[s].yiaddr = 0 \/ new[s] = Entry(c, a, len, t, h)
  BY <1>1, <1>2
<1> QED BY <1>3, <1>4 DEF new

\* Entries keep a host name when one that has it is added.
LEMMA AddNamed ==
    ASSUME NEW tbl \in [Slots -> Leases], NEW c \in HwAddr, NEW a \in Nat,
           NEW len, NEW t \in Nat, NEW h \in Hostnames, Expiry(len, t) \in Nat,
           AllNamed(tbl), Named(h)
    PROVE  AllNamed(add_lease(tbl, c, a, len, t, h))
<1> DEFINE new == add_lease(tbl, c, a, len, t, h)
<1>1. Entry(c, a, len, t, h).hostname = h
  BY DEF Entry
<1>2. \A s \in Slots : new[s] = tbl[s] \/ new[s].yiaddr = 0 \/ new[s] = Entry(c, a, len, t, h)
  BY AddLeaseSlots
<1> HIDE DEF new
<1>3. AllNamed(new)
  BY <1>1, <1>2 DEF AllNamed, Named
<1> QED BY <1>3 DEF new

\* A declined address that still rests is left alone when another is added.
LEMMA AddSparesRested ==
    ASSUME NEW tbl \in [Slots -> Leases], NEW c \in HwAddr, NEW a \in Nat,
           NEW len, NEW t \in Nat, NEW h \in Hostnames, Expiry(len, t) \in Nat
    PROVE  /\ add_lease(tbl, c, a, len, t, h) \in [Slots -> Leases]
           /\ \A s \in Slots :
                tbl[s].chaddr = Blank /\ tbl[s].yiaddr # a /\ ~lease_expired(tbl[s], t)
                    => add_lease(tbl, c, a, len, t, h)[s] = tbl[s]
<1>0. add_lease(tbl, c, a, len, t, h) \in [Slots -> Leases]
  BY AddLease
<1> SUFFICES ASSUME NEW s \in Slots, tbl[s].chaddr = Blank, tbl[s].yiaddr # a,
                    ~lease_expired(tbl[s], t)
             PROVE  add_lease(tbl, c, a, len, t, h)[s] = tbl[s]
  BY <1>0
<1> DEFINE clean == Cleaned(tbl, c, a)
<1>1. clean[s] = tbl[s]
  BY DEF Cleaned, clear_lease, zerohwaddr
<1>2. CASE ~HasRoom(tbl, c, a, t)
  BY <1>1, <1>2, AddLease
<1>3. CASE HasRoom(tbl, c, a, t)
  BY <1>1, <1>3, AddLease
<1> QED BY <1>2, <1>3

-----------------------------------------------------------------------------
(***************************************************************************)
(* Declined addresses                                                      *)
(***************************************************************************)

\* Adding an entry for a host, under an address that does not rest.
LEMMA ReserveAdd ==
    ASSUME TypeOK, OneSlotEach(leases), AllNamed(leases),
           NEW c \in HwAddr \ {Blank}, NEW a \in Nat \ {0}, NEW len,
           NEW h \in Hostnames, Named(h), Expiry(len, now) \in Nat,
           leases' = add_lease(leases, c, a, len, now, h),
           \A s \in Slots :
               leases[s].chaddr = Blank /\ ~lease_expired(leases[s], now)
                   => leases[s].yiaddr # a
    PROVE  OneSlotEach(leases') /\ AllNamed(leases') /\ Rested
<1>1. leases \in [Slots -> Leases] /\ now \in Nat
  BY DEF TypeOK
<1>2. OneSlotEach(leases')
  BY <1>1, AddOneSlot
<1>3. AllNamed(leases')
  BY <1>1, AddNamed
<1>4. \A s \in Slots :
         leases[s].chaddr = Blank /\ leases[s].yiaddr # a /\ ~lease_expired(leases[s], now)
             => leases'[s] = leases[s]
  BY <1>1, AddSparesRested
<1>5. Rested
  BY <1>4 DEF Rested
<1> QED BY <1>2, <1>3, <1>5

\* The address arpping asks for does not rest.
LEMMA AvailableNotRested ==
    ASSUME OneSlotEach(leases), NEW a, a # 0, Available(leases, a, TRUE, now),
           NEW s \in Slots, ~lease_expired(leases[s], now)
    PROVE  leases[s].yiaddr # a
<1> SUFFICES ASSUME leases[s].yiaddr = a PROVE FALSE
  OBVIOUS
<1> DEFINE r == find_lease_by_yiaddr(leases, a)
<1>1. r # 0 /\ r \in Slots /\ leases[r].yiaddr = a
  BY FindByYiaddr
<1>2. lease_expired(leases[r], now)
  BY <1>1 DEF Available
<1>3. r = s
  BY <1>1 DEF OneSlotEach
<1> QED BY <1>2, <1>3

\* Nor does the address of a host.
LEMMA HeldNotRested ==
    ASSUME OneSlotEach(leases), NEW f \in Slots, leases[f].chaddr # Blank,
           leases[f].yiaddr # 0, NEW s \in Slots, leases[s].chaddr = Blank
    PROVE  leases[s].yiaddr # leases[f].yiaddr
  BY DEF OneSlotEach

\* A step that adds nothing: addresses and names stay, and what rests stays
\* as it is.
LEMMA ReserveSame ==
    ASSUME OneSlotEach(leases), AllNamed(leases),
           \A s \in Slots : /\ leases'[s].yiaddr = leases[s].yiaddr
                            /\ leases'[s].hostname = leases[s].hostname
                            /\ \/ leases'[s] = leases[s]
                               \/ leases[s].chaddr # Blank
                               \/ lease_expired(leases[s], now)
    PROVE  OneSlotEach(leases') /\ AllNamed(leases') /\ Rested
  BY DEF OneSlotEach, AllNamed, Rested

\* The tail of sendOffer, for an address that does not rest.
LEMMA ReserveFinishOffer ==
    ASSUME WholeLines, TypeOK, OneSlotEach(leases), AllNamed(leases),
           NEW p \in Packets, NEW a \in Nat \ {0}, NEW base, NEW sent,
           FinishOffer(p, a, base, sent),
           \A s \in Slots :
               leases[s].chaddr = Blank /\ ~lease_expired(leases[s], now)
                   => leases[s].yiaddr # a
    PROVE  OneSlotEach(leases') /\ AllNamed(leases') /\ Rested
<1> DEFINE c == p.chaddr
           f == find_lease_by_chaddr(leases, c)
           len == IF f # 0 /\ leases[f].expires = InfLease THEN InfLease ELSE OfferTime
           host == IF p.hostname = "" THEN "host" ELSE p.hostname
<1>1. /\ len \in Nat /\ host \in Hostnames /\ Named(host) /\ Expiry(len, now) \in Nat
      /\ c \in HwAddr \ {Blank}
  BY TableAssumption, ServerAssumption, PacketFields, ExpiryType DEF TypeOK, Hostnames, Named
<1>2. leases' = add_lease(leases, c, a, len, now, host)
  BY DEF FinishOffer
<1> HIDE DEF len, host, c
<1> QED BY <1>1, <1>2, ReserveAdd

\* What answers a ping or a packet leaves the file alone, and is not reading
\* it.
LEMMA ServingKeepsFile ==
    ASSUME TypeOK, Ping \/ \E p \in Packets, sent \in SendOutcomes : Receive(p, sent)
    PROVE  UNCHANGED <<file, now>> /\ pc' # "load" /\ pc' # "down" /\ pc # "load"
<1>1. \A tbl, from, pass : NextPing(tbl, from, pass).pass \in {"find0", "find1", "idle"}
  BY DEF NextPing
<1>2. ASSUME NEW tbl, NEW from, NEW pass, NEW q, PingFrom(tbl, from, pass, q)
      PROVE  pc' # "load" /\ pc' # "down"
  BY <1>1, <1>2 DEF PingFrom
<1>3. ASSUME NEW q, NEW a, NEW base, NEW sent, FinishOffer(q, a, base, sent)
      PROVE  pc' = "idle" /\ UNCHANGED <<file, now>>
  BY <1>3 DEF FinishOffer
<1>4. ASSUME Handled PROVE UNCHANGED <<file, now, pc>>
  BY <1>4 DEF Handled
<1>5. CASE Ping
  <2>1. pc \in Busy
    BY <1>5 DEF Ping, ArpSilent, ArpUsed
  <2> QED BY <1>2, <1>3, <1>5, <2>1 DEF Ping, ArpSilent, ArpUsed, Busy
<1>6. ASSUME NEW p \in Packets, NEW sent \in SendOutcomes, Receive(p, sent)
      PROVE  UNCHANGED <<file, now>> /\ pc' # "load" /\ pc' # "down" /\ pc # "load"
  <2>1. pc = "idle"
    BY <1>6 DEF Receive
  <2>2. CASE DiscoverKnown(p, sent)
    BY <1>3, <2>1, <2>2 DEF DiscoverKnown
  <2>3. CASE DiscoverRequested(p) \/ DiscoverNew(p)
    BY <1>2, <2>1, <2>3 DEF DiscoverRequested, DiscoverNew
  <2>4. CASE Handled
    BY <1>4, <2>1, <2>4
  <2> QED BY <1>6, <2>2, <2>3, <2>4
          DEF Receive, RequestKnown, RequestUnknown, Decline, Release, Inform
<1> QED BY <1>5, <1>6

\* The three facts of the table, and the rest of declined addresses, as they
\* are needed together.
TableKept == OneSlotEach(leases') /\ AllNamed(leases') /\ Rested

\* The end of arpping's wait: the address it asked for did not rest, whether
\* it is offered or entered as used.
LEMMA ReservePing ==
    ASSUME WholeLines, IInv, ReserveInv, Ping
    PROVE  TableKept
<1>1. TypeOK /\ OneSlotEach(leases) /\ AllNamed(leases) /\ pc \in Busy
  BY DEF IInv, ReserveInv, Ping, ArpSilent, ArpUsed
<1>2. cursor \in Nat \ {0} /\ cur \in Packets
  BY <1>1, TableAssumption DEF TypeOK, Pool
<1>3. \A s \in Slots :
         leases[s].chaddr = Blank /\ ~lease_expired(leases[s], now)
             => leases[s].yiaddr # cursor
  <2>1. Available(leases, cursor, TRUE, now) /\ cursor # 0
    BY <1>1, <1>2 DEF IInv, PingTarget
  <2> QED BY <1>1, <2>1, AvailableNotRested
<1>4. ASSUME NEW sent \in SendOutcomes, ArpSilent(sent) PROVE TableKept
  <2>1. FinishOffer(cur, cursor, Lease, sent)
    BY <1>4 DEF ArpSilent
  <2> QED BY <1>1, <1>2, <1>3, <2>1, ReserveFinishOffer DEF TableKept
<1>5. ASSUME NEW o \in ArpAnswers, ArpUsed(o) PROVE TableKept
  <2>1. leases' = add_lease(leases, o, cursor, ConflictTime, now, "host")
    BY <1>5 DEF ArpUsed
  <2>2. o \in HwAddr \ {Blank}
    BY ServerAssumption DEF WholeLines
  <2>3. "host" \in Hostnames /\ Named("host")
    BY DEF Hostnames, Named
  <2>4. Expiry(ConflictTime, now) \in Nat
    BY <1>1, ServerAssumption, ExpiryType DEF TypeOK
  <2> QED BY <1>1, <1>2, <1>3, <2>1, <2>2, <2>3, <2>4, ReserveAdd DEF TableKept
<1> QED BY <1>4, <1>5 DEF Ping

\* A packet: what is added has the address of a host the table knows, and
\* what is changed belongs to a host or has expired.
LEMMA ReserveReceive ==
    ASSUME WholeLines, IInv, ReserveInv,
           NEW p \in Packets, NEW sent \in SendOutcomes, Receive(p, sent)
    PROVE  TableKept
<1> DEFINE c == p.chaddr
           f == find_lease_by_chaddr(leases, c)
<1>1. /\ TypeOK /\ OneSlotEach(leases) /\ AllNamed(leases)
      /\ leases \in [Slots -> Leases] /\ now \in Nat /\ c \in HwAddr \ {Blank}
      /\ p.hostname \in Hostnames /\ Named(p.hostname)
  BY PacketFields DEF IInv, ReserveInv, TypeOK, WholeLines, Named
<1>2. f # 0 => /\ f \in Slots /\ leases[f].chaddr = c
               /\ leases[f].yiaddr \in Nat \ {0}
               /\ \A s \in Slots : leases[s].chaddr = Blank
                                     => leases[s].yiaddr # leases[f].yiaddr
  <2> SUFFICES ASSUME f # 0
               PROVE  /\ f \in Slots /\ leases[f].chaddr = c
                      /\ leases[f].yiaddr \in Nat \ {0}
                      /\ \A s \in Slots : leases[s].chaddr = Blank
                                            => leases[s].yiaddr # leases[f].yiaddr
    OBVIOUS
  <2>1. f \in Slots /\ leases[f].chaddr = c /\ c # Blank
    BY <1>1, FindByChaddr
  <2> HIDE DEF f
  <2>2. leases[f].yiaddr \in Nat \ {0}
    BY <1>1, <2>1 DEF IInv, HostsHaveAddresses, Leases
  <2> QED BY <1>1, <2>1, <2>2, HeldNotRested
<1> HIDE DEF f, c
<1>3. ASSUME UNCHANGED leases PROVE TableKept
  BY <1>1, <1>3, ReserveSame DEF TableKept
<1>4. ASSUME DiscoverKnown(p, sent) PROVE TableKept
  <2>1. f # 0 /\ \E base : FinishOffer(p, leases[f].yiaddr, base, sent)
    BY <1>4 DEF DiscoverKnown, f, c
  <2> QED BY <1>1, <1>2, <2>1, ReserveFinishOffer DEF TableKept
<1>5. ASSUME DiscoverRequested(p) \/ DiscoverNew(p) PROVE TableKept
  BY <1>3, <1>5 DEF DiscoverRequested, DiscoverNew
<1>6. ASSUME RequestKnown(p, sent) PROVE TableKept
  <2>1. f # 0 /\ (sendACK(p, leases[f].yiaddr, sent) \/ Silent \/ sendNAK(p, sent))
    BY <1>6 DEF RequestKnown, f, c
  <2>2. CASE leases' = add_lease(leases, c, leases[f].yiaddr, AckTime(p), now, p.hostname)
    <3>1. Expiry(AckTime(p), now) \in Nat
      <4>1. AckTime(p) \in Nat
        BY PacketFields, TableAssumption, ServerAssumption DEF AckTime, NoOption
      <4> QED BY <1>1, <4>1, ExpiryType
    <3> QED BY <1>1, <1>2, <2>1, <2>2, <3>1, ReserveAdd DEF TableKept
  <2>3. CASE UNCHANGED leases
    BY <1>3, <2>3
  <2> QED BY <2>1, <2>2, <2>3 DEF sendACK, Silent, sendNAK, c
<1>7. ASSUME RequestUnknown(p, sent) PROVE TableKept
  <2> DEFINE r == find_lease_by_yiaddr(leases, p.requested)
  <2>1. CASE r # 0 /\ lease_expired(leases[r], now)
             /\ leases' = [leases EXCEPT ![r].chaddr = Blank]
    <3>1. r \in Slots
      BY <2>1, FindByYiaddr
    <3> HIDE DEF r
    <3>2. \A s \in Slots : /\ leases'[s].yiaddr = leases[s].yiaddr
                           /\ leases'[s].hostname = leases[s].hostname
                           /\ leases'[s] = leases[s] \/ lease_expired(leases[s], now)
      BY <1>1, <2>1, <3>1
    <3> QED BY <1>1, <3>2, ReserveSame DEF TableKept
  <2>2. CASE UNCHANGED leases
    BY <1>3, <2>2
  <2> QED BY <1>7, <2>1, <2>2 DEF RequestUnknown, sendNAK
<1>8. ASSUME Decline(p) \/ Release(p) PROVE TableKept
  <2>1. \/ UNCHANGED leases
        \/ f # 0 /\ leases' = [leases EXCEPT ![f].chaddr = Blank,
                                             ![f].expires = now + DeclineTime]
        \/ f # 0 /\ leases' = [leases EXCEPT ![f].expires = now]
    BY <1>8 DEF Decline, Release, f, c
  <2>2. \A s \in Slots : /\ leases'[s].yiaddr = leases[s].yiaddr
                         /\ leases'[s].hostname = leases[s].hostname
                         /\ leases'[s] = leases[s] \/ leases[s].chaddr # Blank
    <3>1. CASE UNCHANGED leases
      BY <3>1
    <3>2. CASE f # 0 /\ leases' = [leases EXCEPT ![f].chaddr = Blank,
                                                 ![f].expires = now + DeclineTime]
      BY <1>1, <1>2, <3>2
    <3>3. CASE f # 0 /\ leases' = [leases EXCEPT ![f].expires = now]
      BY <1>1, <1>2, <3>3
    <3> QED BY <2>1, <3>1, <3>2, <3>3
  <2> QED BY <1>1, <2>2, ReserveSame DEF TableKept
<1>9. ASSUME Inform(p, sent) PROVE TableKept
  BY <1>3, <1>9 DEF Inform
<1> QED BY <1>4, <1>5, <1>6, <1>7, <1>8, <1>9 DEF Receive

\* A line of the file: no line read before has its address, so that nothing
\* is evicted and nothing doubled.
LEMMA LineIsNew ==
    ASSUME ReserveInv, pc = "load", cursor \in Slots, file[cursor].yiaddr # 0
    PROVE  \A s \in Slots : leases[s].yiaddr # file[cursor].yiaddr
<1> SUFFICES ASSUME NEW s \in Slots, leases[s].yiaddr = file[cursor].yiaddr PROVE FALSE
  OBVIOUS
<1>1. PICK i \in Slots : i < cursor /\ file[i].yiaddr = leases[s].yiaddr
  BY DEF ReserveInv, LoadedFromFile
<1>2. i # cursor
  BY <1>1, TableAssumption DEF Slots
<1> QED BY <1>1, <1>2 DEF ReserveInv, OneSlotEach

\* With names on every line, a line is read as it was written.
LEMMA NoShortLine ==
    ASSUME ReserveInv, NEW b
    PROVE  ~ReadShortLine(b)
  BY DEF ReserveInv, AllNamed, ReadShortLine

\* Reading one line.
LEMMA ReserveReadLine ==
    ASSUME WholeLines, IInv, ReserveInv, NEW h \in Hostnames, ReadLine(h)
    PROVE  TableKept /\ LoadedFromFile'
<1> DEFINE l == file[cursor]
<1>1. /\ TypeOK /\ OneSlotEach(leases) /\ AllNamed(leases)
      /\ leases \in [Slots -> Leases] /\ now \in Nat
  BY DEF IInv, ReserveInv, TypeOK
<1>2. /\ pc = "load" /\ cursor \in Slots /\ l.yiaddr # 0
      /\ leases' = add_lease(leases, l.chaddr, l.yiaddr, TimeLeft(l), now, h)
      /\ pc' = "idle" \/ cursor' = cursor + 1
      /\ file' = file
  BY DEF ReadLine, EnterLoop
<1>3. Named(h)
  <2>1. l.hostname # ""
    BY <1>2 DEF ReserveInv, AllNamed
  <2> QED BY <2>1 DEF ReadLine, Named
<1>4. l \in Lines /\ l.chaddr \in HwAddr /\ l.yiaddr \in Nat \ {0}
  BY <1>1, <1>2 DEF TypeOK, Lines
<1>5. Expiry(TimeLeft(l), now) \in Nat
  BY <1>1, <1>4, TimeLeftType
<1>6. \A s \in Slots : leases[s].yiaddr # l.yiaddr
  BY <1>2, LineIsNew
<1> HIDE DEF l
<1>7. OneSlotEach(leases')
  BY <1>1, <1>2, <1>4, <1>5, <1>6, AddOneSlot
<1>8. AllNamed(leases')
  BY <1>1, <1>2, <1>3, <1>4, <1>5, AddNamed
<1>9. Rested
  <2>1. \A s \in Slots :
           leases[s].chaddr = Blank /\ leases[s].yiaddr # l.yiaddr
               /\ ~lease_expired(leases[s], now)
                   => leases'[s] = leases[s]
    BY <1>1, <1>2, <1>4, <1>5, AddSparesRested
  <2> QED BY <1>6, <2>1 DEF Rested
<1>10. LoadedFromFile'
  <2> SUFFICES ASSUME pc' = "load", NEW s \in Slots, leases'[s].yiaddr # 0
               PROVE  \E i \in Slots : /\ i < cursor'
                                       /\ file'[i].yiaddr = leases'[s].yiaddr
                                       /\ file'[i].chaddr = leases'[s].chaddr
    BY DEF LoadedFromFile
  <2>1. cursor' = cursor + 1 /\ cursor \in Nat /\ \A i \in Slots : i \in Nat
    BY <1>2 DEF Slots
  <2> DEFINE e == Entry(l.chaddr, l.yiaddr, TimeLeft(l), now, h)
  <2>2. leases'[s] = leases[s] \/ leases'[s] = e
    BY <1>1, <1>2, <1>4, <1>5, AddLeaseSlots
  <2>3. e.yiaddr = l.yiaddr /\ e.chaddr = l.chaddr
    BY DEF Entry
  <2> HIDE DEF e
  <2>4. CASE leases'[s] = leases[s]
    <3>1. PICK i \in Slots : /\ i < cursor /\ file[i].yiaddr = leases[s].yiaddr
                             /\ file[i].chaddr = leases[s].chaddr
      BY <1>2, <2>4 DEF ReserveInv, LoadedFromFile
    <3> QED BY <1>2, <2>1, <2>4, <3>1
  <2>5. CASE leases'[s] = e
    <3>1. cursor < cursor' /\ file'[cursor].yiaddr = e.yiaddr /\ file'[cursor].chaddr = e.chaddr
      BY <1>2, <2>1, <2>3 DEF l
    <3> QED BY <1>2, <2>5, <3>1
  <2> QED BY <2>2, <2>4, <2>5
<1> QED BY <1>7, <1>8, <1>9, <1>10 DEF TableKept

\* What write_leases puts on a line is what the slot says.
LEMMA ImageOf ==
    ASSUME NEW s \in Slots
    PROVE  /\ FileImage(leases)[s].yiaddr = leases[s].yiaddr
           /\ leases[s].yiaddr = 0 => FileImage(leases)[s] = NoLine
           /\ leases[s].yiaddr # 0 => /\ FileImage(leases)[s].hostname = leases[s].hostname
                                      /\ FileImage(leases)[s].chaddr = Mac(leases[s].chaddr)
  BY DEF FileImage, LineOf, NoLine

\* A file written from the table, whole or as far as a crash let it, has no
\* address twice and a name on each line.
LEMMA ReserveFile ==
    ASSUME OneSlotEach(leases), AllNamed(leases), NEW lines,
           \A s \in Slots : lines[s] = FileImage(leases)[s] \/ lines[s] = NoLine
    PROVE  OneSlotEach(lines) /\ AllNamed(lines)
<1>1. \A s \in Slots : /\ lines[s].yiaddr \in {leases[s].yiaddr, 0}
                       /\ lines[s].yiaddr # 0 => lines[s].hostname = leases[s].hostname
  <2> SUFFICES ASSUME NEW s \in Slots
               PROVE  /\ lines[s].yiaddr \in {leases[s].yiaddr, 0}
                      /\ lines[s].yiaddr # 0 => lines[s].hostname = leases[s].hostname
    OBVIOUS
  <2>1. NoLine.yiaddr = 0
    BY DEF NoLine
  <2> QED BY <2>1, ImageOf
<1> QED BY <1>1 DEF OneSlotEach, AllNamed

\* A due write: the file gets the addresses of the table, and only expired
\* entries age.
LEMMA ReserveWrite ==
    ASSUME IInv, ReserveInv, AutoWrite
    PROVE  TableKept /\ OneSlotEach(file') /\ AllNamed(file') /\ LoadedFromFile'
<1>1. /\ leases \in [Slots -> Leases] /\ OneSlotEach(leases) /\ AllNamed(leases)
  BY DEF IInv, TypeOK, ReserveInv
<1>2. /\ file' = FileImage(leases) /\ pc' # "load"
      /\ leases' = [s \in Slots |-> IF s \in Reported
                                    THEN [leases[s] EXCEPT !.expires = 0]
                                    ELSE leases[s]]
  BY DEF AutoWrite, write_leases
<1>3. \A s \in Slots : /\ leases'[s].yiaddr = leases[s].yiaddr
                       /\ leases'[s].hostname = leases[s].hostname
                       /\ leases'[s] = leases[s] \/ lease_expired(leases[s], now)
  BY <1>1, <1>2 DEF Reported, Leases
<1>4. TableKept
  BY <1>1, <1>3, ReserveSame DEF TableKept
<1>5. OneSlotEach(file') /\ AllNamed(file')
  BY <1>1, <1>2, ReserveFile
<1> QED BY <1>2, <1>4, <1>5 DEF LoadedFromFile

\* The empty table of a process that has stopped.
LEMMA ReserveStopped ==
    ASSUME NEW lines, Stopped(lines), OneSlotEach(lines), AllNamed(lines)
    PROVE  ReserveInv' /\ Rested
<1>1. leases' = EmptyTable /\ pc' = "down" /\ file' = lines
  BY DEF Stopped
<1>2. \A s \in Slots : leases'[s].yiaddr = 0
  BY <1>1 DEF EmptyTable, NoLease
<1>3. OneSlotEach(leases') /\ AllNamed(leases')
  BY <1>2 DEF OneSlotEach, AllNamed
<1>4. OneSlotEach(file') /\ AllNamed(file')
  BY <1>1
<1>5. LoadedFromFile' /\ Rested
  BY <1>1 DEF LoadedFromFile, Rested
<1> QED BY <1>3, <1>4, <1>5 DEF ReserveInv

\* Every step keeps the invariant, and lets what rests rest.
LEMMA ReserveStep ==
    ASSUME WholeLines
    PROVE  IInv /\ DownIsEmpty /\ ReserveInv /\ [Next]_vars => ReserveInv' /\ Rested
<1> SUFFICES ASSUME IInv, DownIsEmpty, ReserveInv, [Next]_vars PROVE ReserveInv' /\ Rested
  OBVIOUS
<1>0. /\ TypeOK /\ OneSlotEach(leases) /\ AllNamed(leases)
      /\ OneSlotEach(file) /\ AllNamed(file) /\ LoadedFromFile
  BY DEF IInv, ReserveInv
<1>1. ASSUME TableKept, UNCHANGED file, LoadedFromFile'
      PROVE  ReserveInv' /\ Rested
  <2>1. OneSlotEach(file') /\ AllNamed(file')
    BY <1>0, <1>1
  <2> QED BY <1>1, <2>1 DEF TableKept, ReserveInv
<1>2. ASSUME UNCHANGED <<leases, file>>, LoadedFromFile'
      PROVE  ReserveInv' /\ Rested
  <2>1. TableKept
    BY <1>0, <1>2, ReserveSame DEF TableKept
  <2> QED BY <1>1, <1>2, <2>1
<1>3. CASE Load
  <2>1. ASSUME NEW h \in Hostnames, ReadLine(h) PROVE ReserveInv' /\ Rested
    <3>1. TableKept /\ LoadedFromFile'
      BY <2>1, ReserveReadLine
    <3>2. UNCHANGED file
      BY <2>1 DEF ReadLine
    <3> QED BY <1>1, <3>1, <3>2
  <2>2. \A b : ~ReadShortLine(b)
    BY NoShortLine
  <2>3. CASE SkipLine
    <3>1. UNCHANGED <<leases, file, pc>> /\ cursor' = cursor + 1 /\ cursor \in Nat
      BY <1>0, <2>3 DEF SkipLine, TypeOK
    <3>2. LoadedFromFile'
      BY <1>0, <3>1 DEF LoadedFromFile, Slots
    <3> QED BY <1>2, <3>1, <3>2
  <2>4. CASE LoadDone
    BY <1>2, <2>4 DEF LoadDone, EnterLoop, LoadedFromFile
  <2> QED BY <1>3, <2>1, <2>2, <2>3, <2>4 DEF Load
<1>4. CASE Ping
  <2>1. TableKept
    BY <1>4, ReservePing
  <2>2. UNCHANGED file /\ pc' # "load"
    BY <1>0, <1>4, ServingKeepsFile
  <2> QED BY <1>1, <2>1, <2>2 DEF LoadedFromFile
<1>5. CASE \E p \in Packets, sent \in SendOutcomes : Receive(p, sent)
  <2>1. TableKept
    BY <1>5, ReserveReceive
  <2>2. UNCHANGED file /\ pc' # "load"
    BY <1>0, <1>5, ServingKeepsFile
  <2> QED BY <1>1, <2>1, <2>2 DEF LoadedFromFile
<1>6. CASE AutoWrite
  BY <1>6, ReserveWrite DEF TableKept, ReserveInv
<1>7. CASE UNCHANGED <<pc, leases, cursor, file>>
  <2>1. LoadedFromFile'
    BY <1>0, <1>7 DEF LoadedFromFile
  <2> QED BY <1>2, <1>7, <2>1
<1>8. CASE SigUsr1
  <2>1. CASE Stopped(file)
    BY <1>0, <2>1, ReserveStopped
  <2> QED BY <1>7, <1>8, <2>1 DEF SigUsr1
<1>9. CASE Kill
  <2>1. CASE Stopped(file)
    BY <1>0, <2>1, ReserveStopped
  <2>2. ASSUME NEW k \in 0..MaxLeases, NEW torn \in TornLines \cup {NoLine},
               Stopped(CutFile(k, torn))
        PROVE  ReserveInv' /\ Rested
    <3> DEFINE lines == CutFile(k, torn)
    <3>0. torn = NoLine
      BY DEF WholeLines
    <3>1. \A s \in Slots : lines[s] = FileImage(leases)[s] \/ lines[s] = NoLine
      BY <3>0 DEF CutFile
    <3>2. Stopped(lines)
      BY <2>2
    <3> HIDE DEF lines
    <3>3. OneSlotEach(lines) /\ AllNamed(lines)
      BY <1>0, <3>1, ReserveFile
    <3> QED BY <3>2, <3>3, ReserveStopped
  <2> QED BY <1>9, <2>1, <2>2 DEF Kill
<1>10. CASE \E t \in {0, now} : Restart(t)
  <2>1. pc = "down" /\ UNCHANGED <<leases, file>>
    BY <1>10 DEF Restart
  <2>2. LoadedFromFile'
    BY <2>1 DEF LoadedFromFile, DownIsEmpty
  <2> QED BY <1>2, <2>1, <2>2
<1> QED BY <1>3, <1>4, <1>5, <1>6, <1>7, <1>8, <1>9, <1>10
        DEF Next, AutoWriteFails, Tick, vars

\* The invariant holds when the server starts.
LEMMA ReserveInit == Init => ReserveInv
<1> SUFFICES ASSUME Init PROVE ReserveInv
  OBVIOUS
<1>1. \A s \in Slots : leases[s].yiaddr = 0 /\ file[s].yiaddr = 0
  BY DEF Init, EmptyTable, NoLease, NoLine
<1> QED BY <1>1 DEF ReserveInv, OneSlotEach, AllNamed, LoadedFromFile

\* When clients name themselves, no address is in two slots of the table or
\* on two lines of the file, over any number of restarts.
THEOREM ReserveInductive ==
    ASSUME WholeLines
    PROVE  Spec => []ReserveInv
  BY ReserveInit, ReserveStep, Inductive, PTL DEF Spec

\* A declined address rests for decline_time: whatever packets, pings,
\* evictions, writes and reloads come, its entry is not touched before it has
\* expired, unless the process ends.
THEOREM DeclinedAddressesRest ==
    ASSUME WholeLines
    PROVE  Spec => DeclinedStaysReserved
<1>1. IInv /\ DownIsEmpty /\ ReserveInv /\ [Next]_vars => [Rested]_vars
  BY ReserveStep
<1> QED BY <1>1, ReserveInductive, Inductive, PTL DEF Spec, DeclinedStaysReserved, Rested

-----------------------------------------------------------------------------
(***************************************************************************)
(* Reloading the lease file                                                *)
(***************************************************************************)

\* A pool inside one network of 256 addresses passes the check of
\* read_leases, which compares addresses in network order.
LEMMA SubnetIsReadable ==
    ASSUME Start \div 256 = End \div 256
    PROVE  \A a \in Pool : InFileRange(a)
<1> SUFFICES ASSUME NEW a \in Pool PROVE InFileRange(a)
  OBVIOUS
<1>1. Start \in Nat /\ End \in Nat /\ a \in Nat /\ Start <= a /\ a <= End
  BY TableAssumption DEF Pool
<1>2. a \div 256 = Start \div 256
  BY <1>1
<1>3. Start % 256 <= a % 256
  BY <1>1, <1>2
<1>4. a % 256 <= End % 256
  BY <1>1, <1>2
<1> DEFINE s == Start % 256
           m == a % 256
           e == End % 256
           d == Start \div 256
<1>5. s \in Nat /\ m \in Nat /\ e \in Nat /\ d \in Nat /\ s <= m /\ m <= e
  BY <1>1, <1>3, <1>4
<1>6. /\ NetworkOrder(Start) = s * 65536 + d /\ NetworkOrder(a) = m * 65536 + d
      /\ NetworkOrder(End) = e * 65536 + d
  BY <1>2 DEF NetworkOrder
<1> HIDE DEF s, m, e, d
<1> QED BY <1>5, <1>6 DEF InFileRange

\* Every entry of the table has an expiry other than 0.
Positive(tbl) == \A s \in Slots : tbl[s].yiaddr # 0 => tbl[s].expires > 0

\* add_lease needs an expired slot, so it enters nothing at time 0.
LEMMA AddPositive ==
    ASSUME NEW tbl \in [Slots -> Leases], NEW c \in HwAddr, NEW a \in Nat,
           NEW len, NEW t \in Nat, NEW h \in Hostnames, Expiry(len, t) \in Nat,
           t > 0 => Expiry(len, t) > 0, Positive(tbl)
    PROVE  Positive(add_lease(tbl, c, a, len, t, h))
<1> DEFINE clean == Cleaned(tbl, c, a)
           new == add_lease(tbl, c, a, len, t, h)
           e == Entry(c, a, len, t, h)
<1>0. clean \in [Slots -> Leases]
  BY CleanedType
<1>1. Positive(clean)
  BY CleanedType DEF Positive
<1>2. CASE ~HasRoom(tbl, c, a, t)
  BY <1>1, <1>2, AddLease
<1>3. CASE HasRoom(tbl, c, a, t)
  <2>1. PICK o \in Slots : /\ lease_expired(clean[o], t) /\ new[o] = e
                           /\ \A r \in Slots \ {o} : new[r] = clean[r]
    BY <1>3, AddLease
  <2>2. t > 0
    <3>1. clean[o].expires \in Nat
      BY <1>0 DEF Leases
    <3> QED BY <2>1, <3>1 DEF lease_expired
  <2>3. e.expires > 0
    BY <2>2 DEF Entry
  <2> HIDE DEF clean, new, e
  <2>4. Positive(new)
    BY <1>1, <2>1, <2>3 DEF Positive
  <2> QED BY <2>4 DEF new
<1> QED BY <1>2, <1>3

\* A number of seconds from now is not the expiry 0, once the clock runs.
LEMMA ExpiryPositive ==
    \A len, t \in Nat : Expiry(len, t) \in Nat /\ (t > 0 => Expiry(len, t) > 0)
  BY TableAssumption DEF Expiry

\* The tail of sendOffer enters an expiry.
LEMMA PositiveFinishOffer ==
    ASSUME TypeOK, Positive(leases), NEW p \in Packets, NEW a \in Nat, NEW base, NEW sent,
           FinishOffer(p, a, base, sent)
    PROVE  Positive(leases')
<1> DEFINE f == find_lease_by_chaddr(leases, p.chaddr)
           len == IF f # 0 /\ leases[f].expires = InfLease THEN InfLease ELSE OfferTime
           host == IF p.hostname = "" THEN "host" ELSE p.hostname
<1>1. /\ len \in Nat /\ host \in Hostnames /\ p.chaddr \in HwAddr
      /\ leases \in [Slots -> Leases] /\ now \in Nat
  BY TableAssumption, ServerAssumption, PacketFields DEF TypeOK, Hostnames
<1>2. leases' = add_lease(leases, p.chaddr, a, len, now, host)
  BY DEF FinishOffer
<1> HIDE DEF len, host
<1>3. Expiry(len, now) \in Nat /\ (now > 0 => Expiry(len, now) > 0)
  BY <1>1, ExpiryPositive
<1> QED BY <1>1, <1>2, <1>3, AddPositive

\* What answers a ping or a packet keeps expiries other than 0.
LEMMA PositiveServing ==
    ASSUME IInv, Positive(leases),
           Ping \/ \E p \in Packets, sent \in SendOutcomes : Receive(p, sent)
    PROVE  Positive(leases')
<1>1. /\ TypeOK /\ leases \in [Slots -> Leases] /\ now \in Nat
  BY DEF IInv, TypeOK
<1>2. ASSUME NEW sent \in SendOutcomes, ArpSilent(sent) PROVE Positive(leases')
  <2>1. cur \in Packets /\ cursor \in Nat /\ FinishOffer(cur, cursor, Lease, sent)
    BY <1>1, <1>2 DEF ArpSilent, TypeOK
  <2> QED BY <1>1, <2>1, PositiveFinishOffer
<1>3. ASSUME NEW o \in ArpAnswers, ArpUsed(o) PROVE Positive(leases')
  <2>1. /\ leases' = add_lease(leases, o, cursor, ConflictTime, now, "host")
        /\ o \in HwAddr /\ cursor \in Nat /\ "host" \in Hostnames
    BY <1>1, <1>3, ServerAssumption DEF ArpUsed, TypeOK, Hostnames
  <2>2. /\ Expiry(ConflictTime, now) \in Nat
        /\ now > 0 => Expiry(ConflictTime, now) > 0
    BY <1>1, ServerAssumption, ExpiryPositive
  <2> QED BY <1>1, <2>1, <2>2, AddPositive
<1>4. ASSUME NEW p \in Packets, NEW sent \in SendOutcomes, Receive(p, sent)
      PROVE  Positive(leases')
  <2> DEFINE f == find_lease_by_chaddr(leases, p.chaddr)
  <2>1. p.chaddr \in HwAddr \ {Blank} /\ p.hostname \in Hostnames
    BY PacketFields
  <2>2. f # 0 => f \in Slots /\ leases[f].yiaddr \in Nat /\ now > 0
    <3> SUFFICES ASSUME f # 0 PROVE f \in Slots /\ leases[f].yiaddr \in Nat /\ now > 0
      OBVIOUS
    <3>1. f \in Slots /\ leases[f].chaddr # Blank
      BY <2>1, FindByChaddr
    <3> HIDE DEF f
    <3> QED BY <1>1, <3>1 DEF IInv, HostsHaveAddresses, ClockRuns, Leases
  <2> HIDE DEF f
  <2>3. ASSUME \A s \in Slots : /\ leases'[s].yiaddr = leases[s].yiaddr
                                /\ \/ leases'[s].expires = leases[s].expires
                                   \/ leases'[s].expires > 0
        PROVE  Positive(leases')
    BY <2>3 DEF Positive
  <2>4. CASE DiscoverKnown(p, sent)
    <3>1. f # 0 /\ \E base : FinishOffer(p, leases[f].yiaddr, base, sent)
      BY <2>4 DEF DiscoverKnown, f
    <3> QED BY <1>1, <2>2, <3>1, PositiveFinishOffer
  <2>5. CASE RequestKnown(p, sent)
    <3>1. /\ f # 0
          /\ \/ UNCHANGED leases
             \/ leases' = add_lease(leases, p.chaddr, leases[f].yiaddr, AckTime(p), now,
                                    p.hostname)
      BY <2>5 DEF RequestKnown, sendACK, sendNAK, Silent, f
    <3>2. AckTime(p) \in Nat
      BY PacketFields, TableAssumption, ServerAssumption DEF AckTime, NoOption
    <3>3. Expiry(AckTime(p), now) \in Nat /\ (now > 0 => Expiry(AckTime(p), now) > 0)
      BY <1>1, <3>2, ExpiryPositive
    <3>4. CASE UNCHANGED leases
      BY <2>3, <3>4
    <3>5. CASE leases' = add_lease(leases, p.chaddr, leases[f].yiaddr, AckTime(p), now,
                                   p.hostname)
      BY <1>1, <2>1, <2>2, <3>1, <3>3, <3>5, AddPositive
    <3> QED BY <3>1, <3>4, <3>5
  <2>6. CASE RequestUnknown(p, sent)
    <3> DEFINE r == find_lease_by_yiaddr(leases, p.requested)
    <3>1. CASE r # 0 /\ leases' = [leases EXCEPT ![r].chaddr = Blank]
      <4>1. r \in Slots
        BY <3>1, FindByYiaddr
      <4> HIDE DEF r
      <4> QED BY <1>1, <2>3, <3>1, <4>1
    <3>2. CASE UNCHANGED leases
      BY <2>3, <3>2
    <3> QED BY <2>6, <3>1, <3>2 DEF RequestUnknown, sendNAK
  <2>7. CASE Decline(p)
    <3>1. \/ UNCHANGED leases
          \/ f # 0 /\ leases' = [leases EXCEPT ![f].chaddr = Blank,
                                               ![f].expires = now + DeclineTime]
      BY <2>7 DEF Decline, f
    <3>2. DeclineTime \in Nat
      BY ServerAssumption
    <3>3. CASE UNCHANGED leases
      BY <2>3, <3>3
    <3>4. CASE f # 0 /\ leases' = [leases EXCEPT ![f].chaddr = Blank,
                                                 ![f].expires = now + DeclineTime]
      <4>1. now + DeclineTime > 0
        BY <1>1, <2>2, <3>2, <3>4
      <4> QED BY <1>1, <2>2, <2>3, <3>4, <4>1
    <3> QED BY <3>1, <3>3, <3>4
  <2>8. CASE Release(p)
    <3>1. \/ UNCHANGED leases
          \/ f # 0 /\ leases' = [leases EXCEPT ![f].expires = now]
      BY <2>8 DEF Release, f
    <3>2. CASE UNCHANGED leases
      BY <2>3, <3>2
    <3>3. CASE f # 0 /\ leases' = [leases EXCEPT ![f].expires = now]
      BY <1>1, <2>2, <2>3, <3>3
    <3> QED BY <3>1, <3>2, <3>3
  <2>9. CASE DiscoverRequested(p) \/ DiscoverNew(p) \/ Inform(p, sent)
    BY <2>3, <2>9 DEF DiscoverRequested, DiscoverNew, Inform
  <2> QED BY <1>4, <2>4, <2>5, <2>6, <2>7, <2>8, <2>9 DEF Receive
<1> QED BY <1>2, <1>3, <1>4 DEF Ping

\* No entry read so far is of the host or has the address of the next line:
\* add_lease evicts nothing.
LEMMA NothingEvicted ==
    ASSUME IInv, ReserveInv, FileHostsDistinct, pc = "load", cursor \in Slots,
           file[cursor].yiaddr # 0
    PROVE  Cleaned(leases, file[cursor].chaddr, file[cursor].yiaddr) = leases
<1> DEFINE l == file[cursor]
<1>1. leases \in [Slots -> Leases]
  BY DEF IInv, TypeOK
<1>2. \A s \in Slots : leases[s].yiaddr # l.yiaddr
  BY LineIsNew
<1>3. \A s \in Slots : l.chaddr # Blank => leases[s].chaddr # l.chaddr
  <2> SUFFICES ASSUME NEW s \in Slots, l.chaddr # Blank, leases[s].chaddr = l.chaddr
               PROVE  FALSE
    OBVIOUS
  <2>1. leases[s].yiaddr # 0
    BY DEF IInv, HostsHaveAddresses
  <2>2. PICK i \in Slots : i < cursor /\ file[i].chaddr = leases[s].chaddr
    BY <2>1 DEF ReserveInv, LoadedFromFile
  <2>3. i # cursor
    BY <2>2, TableAssumption DEF Slots
  <2> QED BY <2>2, <2>3 DEF FileHostsDistinct
<1> HIDE DEF l
<1>4. [s \in Slots |-> leases[s]] = leases
  BY <1>1
<1>5. Cleaned(leases, l.chaddr, l.yiaddr) = leases
  BY <1>2, <1>3, <1>4 DEF Cleaned, clear_lease, zerohwaddr
<1> QED BY <1>5 DEF l

\* What is read expires at a time other than 0.
LEMMA LinePositive ==
    ASSUME TypeOK, ExpiriesSet, cursor \in Slots, file[cursor].yiaddr # 0
    PROVE  now > 0 => Expiry(TimeLeft(file[cursor]), now) > 0
<1> DEFINE l == file[cursor]
<1>1. l.time \in Nat /\ now \in Nat
  BY DEF TypeOK, Lines
<1>2. CASE Remaining
  BY <1>1, <1>2, ExpiryPositive DEF TimeLeft
<1>3. CASE ~Remaining
  <2>1. l.time > 0
    BY <1>3 DEF ExpiriesSet
  <2> QED BY <1>1, <1>3, <2>1, TableAssumption DEF TimeLeft, Expiry
<1> QED BY <1>2, <1>3

\* Reading one line fills an empty slot, no further back than the line.
LEMMA ReloadReadLine ==
    ASSUME WholeLines, FileFaithful, IInv, ReserveInv, ReloadInv,
           NEW h \in Hostnames, ReadLine(h)
    PROVE  ExpiriesSet' /\ FilledInOrder' /\ LinesLoaded'
<1> DEFINE l == file[cursor]
           e == Entry(l.chaddr, l.yiaddr, TimeLeft(l), now, h)
<1>1. /\ TypeOK /\ leases \in [Slots -> Leases] /\ now \in Nat /\ cursor \in Nat
      /\ FileHostsDistinct /\ ExpiriesSet /\ FilledInOrder /\ LinesLoaded
  BY DEF IInv, TypeOK, ReloadInv
<1>2. /\ pc = "load" /\ cursor \in Slots /\ l.yiaddr # 0
      /\ leases' = add_lease(leases, l.chaddr, l.yiaddr, TimeLeft(l), now, h)
      /\ \/ /\ HasRoom(leases, l.chaddr, l.yiaddr, now)
            /\ cursor' = cursor + 1 /\ pc' = "load"
         \/ pc' = "idle"
      /\ file' = file
  BY DEF ReadLine, EnterLoop
<1>3. l \in Lines /\ l.chaddr \in HwAddr /\ l.yiaddr \in Nat
  BY <1>1, <1>2 DEF TypeOK, Lines
<1>4. Expiry(TimeLeft(l), now) \in Nat /\ (now > 0 => Expiry(TimeLeft(l), now) > 0)
  BY <1>1, <1>2, <1>3, TimeLeftType, LinePositive
<1>5. Cleaned(leases, l.chaddr, l.yiaddr) = leases
  BY <1>1, <1>2, NothingEvicted
<1>6. e.chaddr = l.chaddr /\ e.yiaddr = l.yiaddr
  BY DEF Entry
<1> HIDE DEF l
<1>7. ExpiriesSet'
  <2>1. Positive(leases)
    BY <1>1, <1>2 DEF ExpiriesSet, Positive
  <2>2. Positive(leases')
    BY <1>1, <1>2, <1>3, <1>4, <2>1, AddPositive
  <2> QED BY <1>1, <1>2, <2>2 DEF ExpiriesSet, Positive
<1>8. CASE pc' = "idle"
  BY <1>7, <1>8 DEF FilledInOrder, LinesLoaded
<1>9. CASE /\ HasRoom(leases, l.chaddr, l.yiaddr, now)
           /\ cursor' = cursor + 1 /\ pc' = "load"
  <2> DEFINE o == oldest_expired_lease(leases, now)
  <2>1. /\ o \in Slots /\ leases'[o] = e
        /\ \A r \in Slots \ {o} : leases'[r] = leases[r]
    <3> DEFINE clean == Cleaned(leases, l.chaddr, l.yiaddr)
               q == oldest_expired_lease(clean, now)
    <3>1. /\ q \in Slots /\ leases'[q] = e
          /\ \A r \in Slots \ {q} : leases'[r] = clean[r]
      BY <1>1, <1>2, <1>9, AddLeaseSlot
    <3>2. clean = leases /\ q = o
      BY <1>5
    <3> HIDE DEF clean, q, o, e
    <3> QED BY <1>2, <3>1, <3>2
  <2>2. o # 0
    BY <2>1, TableAssumption DEF Slots
  <2>3. /\ lease_expired(leases[o], now)
        /\ \A r \in Slots : lease_expired(leases[r], now) =>
              \/ leases[o].expires < leases[r].expires
              \/ leases[o].expires = leases[r].expires /\ o <= r
    BY <1>1, <2>2, OldestIsExpired
  <2> HIDE DEF o, e
  <2>4. leases[o].expires \in Nat /\ o \in Nat
    BY <1>1, <2>1 DEF Leases, Slots
  <2>5. now > 0
    BY <1>1, <2>3, <2>4 DEF lease_expired
  <2>6. leases[cursor] = NoLease
    BY <1>1, <1>2 DEF FilledInOrder
  <2>7. leases[cursor].expires = 0 /\ lease_expired(leases[cursor], now)
    <3>1. NoLease.expires = 0 /\ InfLease # 0
      BY TableAssumption DEF NoLease
    <3> QED BY <1>1, <2>5, <2>6, <3>1 DEF lease_expired
  <2>8. leases[o].expires = 0 /\ o <= cursor
    BY <1>1, <1>2, <2>3, <2>4, <2>7
  <2>9. leases[o].yiaddr = 0
    <3>1. leases[o].yiaddr # 0 => leases[o].expires > 0
      BY <1>1, <1>2, <2>1 DEF ExpiriesSet
    <3> QED BY <2>8, <3>1
  <2>10. FilledInOrder'
    <3>1. \A s \in Slots : s \in Nat
      BY DEF Slots
    <3>2. \A s \in Slots : s >= cursor + 1 => s # o /\ s >= cursor
      BY <1>1, <2>4, <2>8, <3>1
    <3>3. \A s \in Slots : s >= cursor + 1 => leases'[s] = NoLease
      BY <1>1, <1>2, <2>1, <3>2 DEF FilledInOrder
    <3>4. cursor' > 0
      BY <1>1, <1>9
    <3> QED BY <1>9, <3>3, <3>4 DEF FilledInOrder
  <2>11. LinesLoaded'
    <3> SUFFICES ASSUME NEW i \in Slots, i < cursor + 1, file[i].yiaddr # 0,
                        InFileRange(file[i].yiaddr)
                 PROVE  \E s \in Slots : /\ leases'[s].chaddr = file[i].chaddr
                                         /\ leases'[s].yiaddr = file[i].yiaddr
      BY <1>2, <1>9 DEF LinesLoaded
    <3>1. i < cursor \/ i = cursor
      BY <1>1 DEF Slots
    <3>2. CASE i = cursor
      <4>1. leases'[o] = e
        BY <1>1, <2>1
      <4> QED BY <1>6, <2>1, <3>2, <4>1 DEF l
    <3>3. CASE i < cursor
      <4>1. PICK s \in Slots : /\ leases[s].chaddr = file[i].chaddr
                               /\ leases[s].yiaddr = file[i].yiaddr
        BY <1>1, <1>2, <3>3 DEF LinesLoaded
      <4>2. s # o
        BY <2>9, <4>1
      <4>3. leases'[s] = leases[s]
        BY <1>1, <2>1, <4>2
      <4> QED BY <4>1, <4>3
    <3> QED BY <3>1, <3>2, <3>3
  <2> QED BY <1>7, <2>10, <2>11
<1> QED BY <1>2, <1>8, <1>9

\* A file written from the table has no host twice and, with absolute times,
\* no time 0.
LEMMA ReloadFile ==
    ASSUME FileFaithful, IInv, ExpiriesSet, NEW lines,
           \A s \in Slots : lines[s] = FileImage(leases)[s] \/ lines[s] = NoLine
    PROVE  /\ \A i, j \in Slots :
                i # j /\ lines[i].chaddr # Blank => lines[i].chaddr # lines[j].chaddr
           /\ ~Remaining => \A i \in Slots : lines[i].yiaddr # 0 => lines[i].time > 0
<1>1. leases \in [Slots -> Leases] /\ \A s \in Slots : leases[s].chaddr \in HwAddr
  BY DEF IInv, TypeOK, Leases
<1>2. Mac(Blank) = Blank
  BY TableAssumption DEF Mac
<1>3. \A s \in Slots : lines[s].chaddr # Blank =>
         lines[s].chaddr = Mac(leases[s].chaddr) /\ leases[s].chaddr \in Chaddr \cup Junk
  <2> SUFFICES ASSUME NEW s \in Slots, lines[s].chaddr # Blank
               PROVE  /\ lines[s].chaddr = Mac(leases[s].chaddr)
                      /\ leases[s].chaddr \in Chaddr \cup Junk
    OBVIOUS
  <2>1. NoLine.chaddr = Blank
    BY DEF NoLine
  <2>2. lines[s].chaddr = Mac(leases[s].chaddr)
    BY <2>1, ImageOf
  <2>3. leases[s].chaddr # Blank
    BY <1>2, <2>2
  <2> QED BY <1>1, <2>2, <2>3 DEF HwAddr
<1>4. ASSUME NEW i \in Slots, NEW j \in Slots, i # j, lines[i].chaddr # Blank,
             lines[i].chaddr = lines[j].chaddr
      PROVE  FALSE
  <2>1. leases[i].chaddr = leases[j].chaddr
    BY <1>3, <1>4 DEF FileFaithful
  <2>2. leases[i].chaddr # Blank /\ leases[j].chaddr # Blank
    BY <1>3, <1>4, TableAssumption
  <2> QED BY <1>4, <2>1, <2>2 DEF IInv, HeldAddressesDistinct, Distinct
<1>5. ASSUME ~Remaining, NEW i \in Slots, lines[i].yiaddr # 0 PROVE lines[i].time > 0
  <2>1. lines[i] = FileImage(leases)[i] /\ leases[i].yiaddr # 0
    <3>1. NoLine.yiaddr = 0
      BY DEF NoLine
    <3> QED BY <1>5, <3>1, ImageOf
  <2>2. lines[i].time = leases[i].expires
    BY <1>5, <2>1 DEF FileImage, LineOf
  <2> QED BY <1>5, <2>1, <2>2 DEF ExpiriesSet
<1> QED BY <1>4, <1>5

\* A process that has stopped.
LEMMA ReloadStopped ==
    ASSUME NEW lines, Stopped(lines),
           \A i, j \in Slots :
               i # j /\ lines[i].chaddr # Blank => lines[i].chaddr # lines[j].chaddr,
           ~Remaining => \A i \in Slots : lines[i].yiaddr # 0 => lines[i].time > 0
    PROVE  ReloadInv'
<1>1. leases' = EmptyTable /\ pc' = "down" /\ file' = lines
  BY DEF Stopped
<1>2. \A s \in Slots : leases'[s].yiaddr = 0
  BY <1>1 DEF EmptyTable, NoLease
<1>3. FileHostsDistinct'
  BY <1>1 DEF FileHostsDistinct
<1>4. ExpiriesSet'
  BY <1>1, <1>2 DEF ExpiriesSet
<1>5. FilledInOrder' /\ LinesLoaded'
  BY <1>1 DEF FilledInOrder, LinesLoaded
<1> QED BY <1>3, <1>4, <1>5 DEF ReloadInv

\* Every step keeps the invariant.
LEMMA ReloadStep ==
    ASSUME WholeLines, FileFaithful
    PROVE  IInv /\ DownIsEmpty /\ ReserveInv /\ ReloadInv /\ [Next]_vars => ReloadInv'
<1> SUFFICES ASSUME IInv, DownIsEmpty, ReserveInv, ReloadInv, [Next]_vars PROVE ReloadInv'
  OBVIOUS
<1>0. /\ TypeOK /\ FileHostsDistinct /\ ExpiriesSet /\ FilledInOrder /\ LinesLoaded
      /\ leases \in [Slots -> Leases] /\ cursor \in Nat
  BY DEF IInv, ReloadInv, TypeOK
<1>1. ASSUME UNCHANGED file PROVE FileHostsDistinct'
  BY <1>0, <1>1 DEF FileHostsDistinct
<1>2. CASE Load
  <2>0. UNCHANGED file /\ pc = "load"
    BY <1>2 DEF Load, ReadLine, ReadShortLine, SkipLine, LoadDone
  <2>1. ASSUME NEW h \in Hostnames, ReadLine(h) PROVE ReloadInv'
    BY <1>1, <2>0, <2>1, ReloadReadLine DEF ReloadInv
  <2>2. \A b : ~ReadShortLine(b)
    BY NoShortLine
  <2>3. CASE SkipLine
    <3>1. /\ UNCHANGED <<leases, file, pc>> /\ cursor' = cursor + 1 /\ cursor \in Slots
          /\ file[cursor].yiaddr = 0 \/ ~InFileRange(file[cursor].yiaddr)
      BY <2>3 DEF SkipLine
    <3>2. \A s \in Slots : s \in Nat
      BY DEF Slots
    <3>3. ExpiriesSet'
      BY <1>0, <3>1 DEF ExpiriesSet
    <3>4. FilledInOrder'
      BY <1>0, <2>0, <3>1, <3>2 DEF FilledInOrder
    <3>5. LinesLoaded'
      <4>1. \A i \in Slots : i < cursor + 1 => i < cursor \/ i = cursor
        BY <1>0, <3>2
      <4> QED BY <1>0, <2>0, <3>1, <4>1 DEF LinesLoaded
    <3> QED BY <1>1, <3>1, <3>3, <3>4, <3>5 DEF ReloadInv
  <2>4. CASE LoadDone
    <3>1. UNCHANGED leases /\ pc' = "idle"
      BY <2>4 DEF LoadDone, EnterLoop
    <3>2. ExpiriesSet' /\ FilledInOrder' /\ LinesLoaded'
      BY <1>0, <2>0, <3>1 DEF ExpiriesSet, FilledInOrder, LinesLoaded
    <3> QED BY <1>1, <2>0, <3>2 DEF ReloadInv
  <2> QED BY <1>2, <2>1, <2>2, <2>3, <2>4 DEF Load
<1>3. CASE Ping \/ \E p \in Packets, sent \in SendOutcomes : Receive(p, sent)
  <2>1. UNCHANGED file /\ pc' # "load" /\ pc' # "down"
    BY <1>0, <1>3, ServingKeepsFile
  <2>2. FilledInOrder' /\ LinesLoaded'
    BY <2>1 DEF FilledInOrder, LinesLoaded
  <2>3. ExpiriesSet'
    <3>1. ~Remaining => Positive(leases')
      BY <1>0, <1>3, PositiveServing DEF ExpiriesSet, Positive
    <3> QED BY <1>0, <2>1, <3>1 DEF ExpiriesSet, Positive
  <2> QED BY <1>1, <2>1, <2>2, <2>3 DEF ReloadInv
<1>4. CASE AutoWrite
  <2>1. /\ file' = FileImage(leases) /\ pc' # "load" /\ pc' # "down"
        /\ leases' = [s \in Slots |-> IF s \in Reported
                                      THEN [leases[s] EXCEPT !.expires = 0]
                                      ELSE leases[s]]
    BY <1>4 DEF AutoWrite, write_leases
  <2>2. FileHostsDistinct' /\ (~Remaining => \A i \in Slots : file'[i].yiaddr # 0
                                                               => file'[i].time > 0)
    BY <1>0, <2>1, ReloadFile DEF FileHostsDistinct
  <2>3. ~Remaining => leases' = leases
    BY <1>0, <2>1 DEF Reported
  <2>4. ExpiriesSet'
    BY <1>0, <2>1, <2>2, <2>3 DEF ExpiriesSet
  <2> QED BY <2>1, <2>2, <2>4 DEF ReloadInv, FilledInOrder, LinesLoaded
<1>5. CASE UNCHANGED <<pc, leases, cursor, file>>
  <2>1. ExpiriesSet' /\ FilledInOrder' /\ LinesLoaded'
    BY <1>0, <1>5 DEF ExpiriesSet, FilledInOrder, LinesLoaded
  <2> QED BY <1>1, <1>5, <2>1 DEF ReloadInv
<1>6. ASSUME Stopped(file) PROVE ReloadInv'
  BY <1>0, <1>6, ReloadStopped DEF FileHostsDistinct, ExpiriesSet
<1>7. CASE SigUsr1
  BY <1>5, <1>6, <1>7 DEF SigUsr1
<1>8. CASE Kill
  <2>1. ASSUME NEW k \in 0..MaxLeases, NEW torn \in TornLines \cup {NoLine},
               Stopped(CutFile(k, torn))
        PROVE  ReloadInv'
    <3> DEFINE lines == CutFile(k, torn)
    <3>0. torn = NoLine
      BY DEF WholeLines
    <3>1. \A s \in Slots : lines[s] = FileImage(leases)[s] \/ lines[s] = NoLine
      BY <3>0 DEF CutFile
    <3>2. Stopped(lines)
      BY <2>1
    <3> HIDE DEF lines
    <3>3. /\ \A i, j \in Slots :
                i # j /\ lines[i].chaddr # Blank => lines[i].chaddr # lines[j].chaddr
          /\ ~Remaining => \A i \in Slots : lines[i].yiaddr # 0 => lines[i].time > 0
      BY <1>0, <3>1, ReloadFile
    <3> QED BY <3>2, <3>3, ReloadStopped
  <2> QED BY <1>6, <1>8, <2>1 DEF Kill
<1>9. CASE \E t \in {0, now} : Restart(t)
  <2>1. /\ pc = "down" /\ pc' = "load" /\ cursor' = 1
        /\ UNCHANGED <<leases, file>> /\ leases = EmptyTable
    BY <1>0, <1>9 DEF Restart, FilledInOrder
  <2>2. \A s \in Slots : s \in Nat /\ ~(s < 1) /\ leases[s] = NoLease /\ leases[s].yiaddr = 0
    <3>1. \A s \in Slots : leases[s] = NoLease
      BY <2>1 DEF EmptyTable
    <3>2. \A s \in Slots : s \in Nat /\ ~(s < 1)
      BY DEF Slots
    <3>3. NoLease.yiaddr = 0
      BY DEF NoLease
    <3> QED BY <3>1, <3>2, <3>3
  <2>3. ExpiriesSet' /\ FilledInOrder' /\ LinesLoaded'
    BY <1>0, <2>1, <2>2 DEF ExpiriesSet, FilledInOrder, LinesLoaded
  <2> QED BY <1>1, <2>1, <2>3 DEF ReloadInv
<1> QED BY <1>2, <1>3, <1>4, <1>5, <1>7, <1>8, <1>9
        DEF Next, AutoWriteFails, Tick, vars

\* The invariant holds when the server starts.
LEMMA ReloadInit == Init => ReloadInv
<1> SUFFICES ASSUME Init PROVE ReloadInv
  OBVIOUS
<1>1. \A s \in Slots : /\ leases[s] = NoLease /\ leases[s].yiaddr = 0
                       /\ file[s].yiaddr = 0 /\ file[s].chaddr = Blank
  BY DEF Init, EmptyTable, NoLease, NoLine
<1>2. pc = "load" /\ cursor > 0
  BY DEF Init
<1> QED BY <1>1, <1>2 DEF ReloadInv, FileHostsDistinct, ExpiriesSet, FilledInOrder, LinesLoaded

\* Reloading loses no line of the pool, for every table size, after a reboot
\* or a crash in the middle of a write, and although what has been loaded may
\* expire while the rest is read: read_leases never finds the table full, since
\* the slot of the line it reads is still empty, and reaches the last line.
THEOREM ReloadLosesNothing ==
    ASSUME WholeLines, FileFaithful
    PROVE  Spec => ReloadComplete
<1> DEFINE Complete ==
      \A i \in Slots : file[i].yiaddr \in Pool =>
          \E s \in Slots : /\ leases'[s].chaddr = file[i].chaddr
                           /\ leases'[s].yiaddr = file[i].yiaddr
<1>1. ASSUME IInv, ReserveInv, ReloadInv, [Next]_vars
      PROVE  [(pc = "load" /\ pc' = "idle" /\ now > 0) => Complete]_vars
  <2> SUFFICES ASSUME pc = "load", pc' = "idle", now > 0, Next PROVE Complete
    BY <1>1
  <2>1. TypeOK /\ leases \in [Slots -> Leases] /\ now \in Nat /\ cursor \in Nat
    BY <1>1 DEF IInv, TypeOK
  <2>2. CASE Load
    <3>1. \A h \in Hostnames : ~ReadLine(h)
      <4> SUFFICES ASSUME NEW h \in Hostnames, ReadLine(h) PROVE FALSE
        OBVIOUS
      <4>1. /\ cursor \in Slots
            /\ ~HasRoom(leases, file[cursor].chaddr, file[cursor].yiaddr, now)
        BY DEF ReadLine
      <4>2. leases[cursor] = NoLease
        BY <1>1, <2>1, <4>1 DEF ReloadInv, FilledInOrder
      <4>3. file[cursor].chaddr \in HwAddr /\ file[cursor].yiaddr \in Nat
        BY <2>1, <4>1 DEF TypeOK, Lines
      <4>4. Cleaned(leases, file[cursor].chaddr, file[cursor].yiaddr)[cursor] = NoLease
        BY <2>1, <4>1, <4>2 DEF Cleaned, clear_lease
      <4>5. lease_expired(NoLease, now)
        BY <2>1, TableAssumption DEF lease_expired, NoLease
      <4>6. Cleaned(leases, file[cursor].chaddr, file[cursor].yiaddr) \in [Slots -> Leases]
        BY <2>1, CleanedType
      <4> QED BY <2>1, <4>1, <4>4, <4>5, <4>6, OldestIsExpired DEF HasRoom
    <3>2. \A b : ~ReadShortLine(b)
      BY <1>1, NoShortLine
    <3>3. ~SkipLine
      BY DEF SkipLine
    <3>4. CASE LoadDone
      <4>1. UNCHANGED leases /\ cursor \notin Slots
        BY <3>4 DEF LoadDone
      <4>2. cursor > 0
        BY <1>1 DEF ReloadInv, FilledInOrder
      <4>3. \A i \in Slots : i < cursor
        BY <2>1, <4>1, <4>2, TableAssumption DEF Slots
      <4>4. \A i \in Slots : file[i].yiaddr \in Pool =>
                               InFileRange(file[i].yiaddr) /\ file[i].yiaddr # 0
        BY TableAssumption DEF FileFaithful, Pool
      <4> QED BY <1>1, <4>1, <4>3, <4>4 DEF ReloadInv, LinesLoaded
    <3> QED BY <2>2, <3>1, <3>2, <3>3, <3>4 DEF Load
  <2>3. ~Ping /\ \A p \in Packets, sent \in SendOutcomes : ~Receive(p, sent)
    BY DEF Ping, ArpSilent, ArpUsed, Busy, Receive
  <2>4. ~AutoWrite /\ ~AutoWriteFails /\ ~SigUsr1 /\ ~Kill /\ ~Tick
    BY DEF AutoWrite, AutoWriteFails, SigUsr1, Kill, Stopped, Tick
  <2>5. \A t : ~Restart(t)
    BY DEF Restart
  <2> QED BY <2>2, <2>3, <2>4, <2>5 DEF Next
<1> QED BY <1>1, ReloadInit, ReloadStep, ReserveInductive, Inductive, PTL
        DEF Spec, ReloadComplete
=============================================================================
