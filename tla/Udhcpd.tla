------------------------------- MODULE Udhcpd -------------------------------
(***************************************************************************)
(* The DHCP server udhcpd on one interface (src/udhcp/dhcpd.c,             *)
(* serverpacket.c, files.c, arpping.c) over the lease table of             *)
(* UdhcpLeases.                                                            *)
(*                                                                         *)
(* The server is one thread that takes a packet and answers it.  Its only  *)
(* blocking point inside a handler is arpping, which waits up to two       *)
(* seconds for a host to claim the address about to be offered: a DISCOVER *)
(* from an unknown client is therefore one step per ping, with the clock   *)
(* free to move in between, and every other handler is one step.  The      *)
(* lease file is read line by line at start-up and written as a whole.     *)
(*                                                                         *)
(* grant is a history variable: what each client was told in its last ACK, *)
(* until the client itself gives it up.                                    *)
(***************************************************************************)
EXTENDS UdhcpLeases, Sequences

CONSTANTS
    Packets,       \* the packets clients may send
    ArpAnswers,    \* what check_ip may store as the owner of a used address
    SendOutcomes,  \* whether send_packet may succeed (TRUE), fail (FALSE)
    Lease, OfferTime, MinLease, ConflictTime, DeclineTime,
                   \* server_config.lease, offer_time, min_lease, ...
    AutoTime,      \* server_config.auto_time, 0: never write by itself
    Remaining,     \* server_config.remaining
    JunkMac,       \* the six bytes a Junk chaddr is printed as
    TornLines,     \* what the last line may read as when a crash cut it short
    MaxTime,       \* bound on the clock
    MaxSignals,    \* bound on the SIGUSR1s received
    MaxRestarts    \* bound on the times the server is started again

NoOption == -1

PacketType ==
    [type : {"DISCOVER", "REQUEST", "DECLINE", "RELEASE", "INFORM"},
     chaddr : Chaddr,
     requested : Nat,                     \* DHCP_REQUESTED_IP, 0: absent
     sid : {"none", "ours", "other"},     \* DHCP_SERVER_ID
     ciaddr : Nat,
     time : Nat \cup {NoOption},          \* DHCP_LEASE_TIME
     hostname : Hostnames]                \* DHCP_HOST_NAME, "": absent

ASSUME ServerAssumption ==
    /\ Packets \subseteq PacketType
    /\ ArpAnswers \subseteq HwAddr
    /\ SendOutcomes \subseteq BOOLEAN
    /\ {Lease, OfferTime, MinLease, ConflictTime, DeclineTime, AutoTime} \subseteq Nat
    /\ Remaining \in BOOLEAN
    /\ JunkMac \in [Junk -> Chaddr \cup Junk]
    /\ {MaxTime, MaxSignals, MaxRestarts} \subseteq Nat

VARIABLES
    now,          \* time(0)
    pc,           \* what the process is doing
    leases,       \* server_config.leases
    timeout_end,  \* when the lease file is due
    cur,          \* the DISCOVER being answered while arpping waits
    cursor,       \* the address arpping asks for, or the line being read
    file,         \* the lease file, line s written from slot s
    delta,        \* the line the last step left in the delta file
    reply,        \* the packet the last step sent
    grant,        \* history: the last ACK of each client, until given up
    usr1,         \* history: SIGUSR1s received
    restarts      \* history: times the server was started again

vars == <<now, pc, leases, timeout_end, cur, cursor, file, delta, reply,
          grant, usr1, restarts>>

(***************************************************************************)
(* Values                                                                  *)
(***************************************************************************)
NoPacket == [type |-> "none"]

NoReply == [type |-> "none"]

Lines == [chaddr : HwAddr, yiaddr : Nat, time : Nat, hostname : Hostnames]

ASSUME TornAssumption == TornLines \subseteq Lines

NoLine == [chaddr |-> Blank, yiaddr |-> 0, time |-> 0, hostname |-> ""]

Deltas == [op : {"ADD", "DEL"}, chaddr : HwAddr, yiaddr : Nat]

NoDelta == [op |-> "none"]

Grants == [yiaddr : Nat, end : Nat, forever : BOOLEAN]

NoGrant == [yiaddr |-> 0, end |-> 0, forever |-> FALSE]

Replies ==
    [type : {"OFFER", "ACK"}, chaddr : Chaddr, yiaddr : Nat, time : Nat]
        \cup [type : {"NAK", "INFORM_ACK"}, chaddr : Chaddr]

Quiet == reply' = NoReply /\ delta' = NoDelta

Busy == {"check", "find0", "find1"}

Up == pc # "down"

\* The six bytes of a hardware address, all that the lease file keeps.
Mac(c) == IF c \in Junk THEN JunkMac[c] ELSE c

\* write_to_delta opens its file for writing: the last line is all there is.
write_to_delta(op, c, a) == [op |-> op, chaddr |-> c, yiaddr |-> a]

Init ==
    /\ now = 0
    /\ pc = "load"
    /\ leases = EmptyTable
    /\ timeout_end = 0
    /\ cur = NoPacket
    /\ cursor = 1
    /\ file = [s \in Slots |-> NoLine]
    /\ delta = NoDelta
    /\ reply = NoReply
    /\ grant = [c \in Chaddr |-> NoGrant]
    /\ usr1 = 0
    /\ restarts = 0

(***************************************************************************)
(* Start-up: read_leases, one line per step, then the main loop.           *)
(***************************************************************************)

\* inet_aton leaves an address in network order and the range check compares
\* it so; on the little-endian target the low octet counts most.
NetworkOrder(a) == (a % 256) * 65536 + a \div 256

\* Variant: the last address of the pool is left out.
InFileRange_half(a) == /\ NetworkOrder(Start) <= NetworkOrder(a)
                       /\ NetworkOrder(a) < NetworkOrder(End)

InFileRange(a) == /\ NetworkOrder(Start) <= NetworkOrder(a)
                  /\ NetworkOrder(a) <= NetworkOrder(End)

\* Seconds to give the entry read from line l.  With absolute times the
\* subtraction may wrap, and add_lease's addition undoes it.
TimeLeft(l) == IF Remaining THEN l.time ELSE l.time - now

LinesAfter(i) == {j \in Slots : j > i /\ file[j].yiaddr # 0}

EnterLoop ==
    /\ pc' = "idle"
    /\ cursor' = 0
    /\ timeout_end' = now + AutoTime

\* A line of four fields, or the last line (whose missing hostname leaves the
\* buffer of the previous iteration, or of nobody, in place).
ReadLine(h) ==
    LET l == file[cursor]
        ok == HasRoom(leases, l.chaddr, l.yiaddr, now)
    IN  /\ pc = "load" /\ cursor \in Slots
        /\ l.yiaddr # 0 /\ InFileRange(l.yiaddr)
        /\ \/ l.hostname = h /\ h # ""
           \/ l.hostname = "" /\ LinesAfter(cursor) = {}
        /\ leases' = add_lease(leases, l.chaddr, l.yiaddr, TimeLeft(l), now, h)
        /\ delta' = IF ok THEN write_to_delta("ADD", l.chaddr, l.yiaddr) ELSE NoDelta
        /\ IF ok THEN cursor' = cursor + 1 /\ UNCHANGED <<pc, timeout_end>>
                 ELSE EnterLoop                     \* "Too many leases"
        /\ reply' = NoReply
        /\ UNCHANGED <<now, cur, file, grant, usr1, restarts>>

\* A line without a hostname that is not the last: fscanf takes the hardware
\* address of the next line for the hostname.  The address and the time left
\* of that line are then read as a hardware address and an address: if the
\* time happens to pass the range check, an entry for an address outside the
\* pool is added for a host b that does not exist (b = Blank: it does not
\* pass).  From there on the fields stay out of step and the rest of the file
\* is lost (a hardware address that begins with a letter, where "%u" fails,
\* could bring them back into step two lines later: not modelled).
ReadShortLine(b) ==
    LET l == file[cursor]
        in == InFileRange(l.yiaddr)
        first == IF in THEN add_lease(leases, l.chaddr, l.yiaddr, TimeLeft(l), now, "host")
                       ELSE leases
        ok == in => HasRoom(leases, l.chaddr, l.yiaddr, now)
        second == ok /\ b # Blank /\ HasRoom(first, b, End + 1, now)
    IN  /\ pc = "load" /\ cursor \in Slots
        /\ l.yiaddr # 0
        /\ l.hostname = "" /\ LinesAfter(cursor) # {}
        /\ IF ok /\ (b = Blank \/ second)
           THEN cursor' = MaxLeases + 1 /\ UNCHANGED <<pc, timeout_end>>
           ELSE EnterLoop
        /\ leases' = IF ok /\ b # Blank
                     THEN add_lease(first, b, End + 1, TimeLeft(l), now, "host")
                     ELSE first
        /\ delta' = IF second THEN write_to_delta("ADD", b, End + 1)
                    ELSE IF ok /\ in THEN write_to_delta("ADD", l.chaddr, l.yiaddr)
                    ELSE NoDelta
        /\ reply' = NoReply
        /\ UNCHANGED <<now, cur, file, grant, usr1, restarts>>

\* No line, or a line for an address outside the range that does not put the
\* fields out of step.
SkipLine ==
    LET l == file[cursor]
    IN  /\ pc = "load" /\ cursor \in Slots
        /\ \/ l.yiaddr = 0
           \/ /\ ~InFileRange(l.yiaddr)
              /\ l.hostname # "" \/ LinesAfter(cursor) = {}
        /\ cursor' = cursor + 1
        /\ Quiet
        /\ UNCHANGED <<now, pc, leases, timeout_end, cur, file, grant, usr1, restarts>>

LoadDone ==
    /\ pc = "load" /\ cursor \notin Slots
    /\ EnterLoop
    /\ Quiet
    /\ UNCHANGED <<now, leases, cur, file, grant, usr1, restarts>>

(***************************************************************************)
(* DISCOVER                                                                *)
(***************************************************************************)

\* The time an OFFER names: what the handler starts from (base), what the
\* client asks for, and the corrections.  len is what the slot was given.
OfferedTime(p, base, len) ==
    LET asked == IF p.time = NoOption THEN base
                 ELSE IF p.time > Lease THEN Lease ELSE p.time
    IN  IF len = InfLease THEN InfLease
        ELSE IF asked < MinLease THEN Lease ELSE asked

Drop(c) == [grant EXCEPT ![c] = NoGrant]

\* The tail of sendOffer, once address a is chosen: reserve it for
\* offer_time (an entry that never expires stays so), then send.  A client
\* that discovers again has its running lease cut down to offer_time.
FinishOffer(p, a, base, sent) ==
    LET s == find_lease_by_chaddr(leases, p.chaddr)
        len == IF s # 0 /\ leases[s].expires = InfLease THEN InfLease ELSE OfferTime
        ok == HasRoom(leases, p.chaddr, a, now)
        host == IF p.hostname = "" THEN "host" ELSE p.hostname  \* "unknown"
    IN  /\ leases' = add_lease(leases, p.chaddr, a, len, now, host)
        /\ delta' = IF ok THEN write_to_delta("ADD", p.chaddr, a) ELSE NoDelta
        /\ reply' = IF ok /\ sent
                    THEN [type |-> "OFFER", chaddr |-> p.chaddr, yiaddr |-> a,
                          time |-> OfferedTime(p, base, len)]
                    ELSE NoReply
        /\ grant' = IF ok /\ len = InfLease /\ a = grant[p.chaddr].yiaddr
                    THEN grant ELSE Drop(p.chaddr)
        /\ pc' = "idle"
        /\ cur' = NoPacket
        /\ cursor' = 0
        /\ UNCHANGED <<now, timeout_end, file, usr1, restarts>>

\* Variant: every search starts at the beginning of the pool again.
NextPing_again(tbl, from, pass) ==
    LET free == NextCandidate(tbl, Start, FALSE, now)
        old == NextCandidate(tbl, Start, TRUE, now)
    IN  IF free # 0 THEN [pass |-> "find0", at |-> free]
        ELSE IF old # 0 THEN [pass |-> "find1", at |-> old]
        ELSE [pass |-> "idle", at |-> 0]

\* Variant: the second pass begins again after each conflict.
NextPing_same(tbl, from, pass) ==
    LET free == IF pass = "find0" THEN NextCandidate(tbl, from, FALSE, now) ELSE 0
        old == NextCandidate(tbl, Start, TRUE, now)
    IN  IF free # 0 THEN [pass |-> "find0", at |-> free]
        ELSE IF old # 0 THEN [pass |-> "find1", at |-> old]
        ELSE [pass |-> "idle", at |-> 0]

\* Where find_address(0), and after it find_address(1), stops next to ping:
\* from address "from" on in the current pass.
NextPing(tbl, from, pass) ==
    LET free == IF pass = "find0" THEN NextCandidate(tbl, from, FALSE, now) ELSE 0
        old == NextCandidate(tbl, IF pass = "find0" THEN Start ELSE from, TRUE, now)
    IN  IF free # 0 THEN [pass |-> "find0", at |-> free]
        ELSE IF old # 0 THEN [pass |-> "find1", at |-> old]
        ELSE [pass |-> "idle", at |-> 0]      \* "no IP addresses to give"

\* Variant: an abandoned DISCOVER is not forgotten.
PingFrom_keep(tbl, from, pass, p) ==
    LET n == NextPing(tbl, from, pass)
    IN  pc' = n.pass /\ cursor' = n.at /\ cur' = p

PingFrom(tbl, from, pass, p) ==
    LET n == NextPing(tbl, from, pass)
    IN  /\ pc' = n.pass
        /\ cursor' = n.at
        /\ cur' = IF n.pass = "idle" THEN NoPacket ELSE p

DiscoverKnown(p, sent) ==
    LET s == find_lease_by_chaddr(leases, p.chaddr)
        l == leases[s]
        base == IF lease_expired(l, now) THEN Lease
                ELSE IF l.expires = InfLease THEN InfLease ELSE l.expires - now
    IN  /\ s # 0
        /\ FinishOffer(p, l.yiaddr, base, sent)

\* Variant: nobody looks who has the address.
RequestedFits_unlooked(p) == p.requested \in Pool

\* The requested address is checked against the range, not against the
\* .0 and .255 that find_address leaves out.
RequestedFits(p) ==
    /\ p.requested \in Pool
    /\ Available(leases, p.requested, TRUE, now)

DiscoverRequested(p) ==
    /\ find_lease_by_chaddr(leases, p.chaddr) = 0
    /\ RequestedFits(p)
    /\ pc' = "check" /\ cursor' = p.requested /\ cur' = p
    /\ Quiet
    /\ UNCHANGED <<now, leases, timeout_end, file, grant, usr1, restarts>>

DiscoverNew(p) ==
    /\ find_lease_by_chaddr(leases, p.chaddr) = 0
    /\ ~RequestedFits(p)
    /\ PingFrom(leases, Start, "find0", p)
    /\ Quiet
    /\ UNCHANGED <<now, leases, timeout_end, file, grant, usr1, restarts>>

\* arpping heard nobody (or could not open its socket): offer the address.
ArpSilent(sent) ==
    /\ pc \in Busy
    /\ FinishOffer(cur, cursor, Lease, sent)

\* check_ip: somebody has the address, or arpping failed on the way and left
\* the owner's address uninitialized.  It is entered for conflict_time under
\* the owner's hardware address o, and the search goes on.
ArpUsed(o) ==
    LET tbl == add_lease(leases, o, cursor, ConflictTime, now, "host")
    IN  /\ pc \in Busy
        /\ leases' = tbl
        /\ delta' = IF HasRoom(leases, o, cursor, now)
                    THEN write_to_delta("ADD", o, cursor) ELSE NoDelta
        /\ grant' = IF o \in Chaddr THEN Drop(o) ELSE grant
        /\ IF pc = "check" THEN PingFrom(tbl, Start, "find0", cur)
                           ELSE PingFrom(tbl, cursor + 1, pc, cur)
        /\ reply' = NoReply
        /\ UNCHANGED <<now, timeout_end, file, usr1, restarts>>

(***************************************************************************)
(* REQUEST                                                                 *)
(***************************************************************************)
Handled == UNCHANGED <<now, pc, timeout_end, cur, cursor, file, usr1, restarts>>

AckTime(p) ==
    LET s == find_lease_by_chaddr(leases, p.chaddr)
    IN  IF s # 0 /\ leases[s].expires = InfLease THEN InfLease
        ELSE IF p.time = NoOption \/ p.time > Lease \/ p.time < MinLease THEN Lease
        ELSE p.time

\* The ACK leaves first and is recorded after; one that cannot be sent is
\* not recorded.
sendACK(p, a, sent) ==
    LET len == AckTime(p)
    IN  IF sent
        THEN /\ reply' = [type |-> "ACK", chaddr |-> p.chaddr, yiaddr |-> a, time |-> len]
             /\ leases' = add_lease(leases, p.chaddr, a, len, now, p.hostname)
             /\ delta' = IF HasRoom(leases, p.chaddr, a, now)
                         THEN write_to_delta("ADD", p.chaddr, a) ELSE NoDelta
             /\ grant' = [grant EXCEPT ![p.chaddr] =
                            [yiaddr |-> a, end |-> now + len, forever |-> len = InfLease]]
        ELSE Quiet /\ UNCHANGED <<leases, grant>>

sendNAK(p, sent) ==
    /\ reply' = IF sent THEN [type |-> "NAK", chaddr |-> p.chaddr] ELSE NoReply
    /\ delta' = NoDelta
    /\ UNCHANGED <<leases, grant>>

Silent == Quiet /\ UNCHANGED <<leases, grant>>

\* A client the table knows.  SELECTING: another server chosen, or another
\* address, is answered by silence.  INIT-REBOOT and RENEWING or REBINDING:
\* the address must be the one in the table.
RequestKnown(p, sent) ==
    LET s == find_lease_by_chaddr(leases, p.chaddr)
        a == leases[s].yiaddr
    IN  /\ s # 0
        /\ IF p.sid # "none"
           THEN IF p.sid = "ours" /\ p.requested # 0 /\ p.requested = a
                THEN sendACK(p, a, sent) ELSE Silent
           ELSE IF a = (IF p.requested # 0 THEN p.requested ELSE p.ciaddr)
                THEN sendACK(p, a, sent) ELSE sendNAK(p, sent)
        /\ Handled

\* A client the table does not know gets a NAK, except that one that asks
\* again for an address whose entry has expired only makes the server forget
\* who had it.
RequestUnknown(p, sent) ==
    LET r == find_lease_by_yiaddr(leases, p.requested)
    IN  /\ find_lease_by_chaddr(leases, p.chaddr) = 0
        /\ IF /\ p.sid = "none" /\ p.requested # 0
              /\ r # 0 /\ lease_expired(leases[r], now)
           THEN /\ leases' = [leases EXCEPT ![r].chaddr = Blank]
                /\ Quiet
                /\ UNCHANGED <<grant>>
           ELSE sendNAK(p, sent)
        /\ Handled

(***************************************************************************)
(* DECLINE, RELEASE, INFORM                                                *)
(***************************************************************************)
Decline(p) ==
    LET s == find_lease_by_chaddr(leases, p.chaddr)
    IN  /\ leases' = IF s = 0 THEN leases
                     ELSE [leases EXCEPT ![s].chaddr = Blank,
                                         ![s].expires = now + DeclineTime]
        /\ grant' = Drop(p.chaddr)
        /\ Quiet
        /\ Handled

Release(p) ==
    LET s == find_lease_by_chaddr(leases, p.chaddr)
        finite == s # 0 /\ leases[s].expires # InfLease
    IN  /\ leases' = IF finite THEN [leases EXCEPT ![s].expires = now] ELSE leases
        /\ delta' = IF finite THEN write_to_delta("DEL", p.chaddr, leases[s].yiaddr)
                    ELSE NoDelta
        /\ grant' = IF finite THEN Drop(p.chaddr) ELSE grant
        /\ reply' = NoReply
        /\ Handled

Inform(p, sent) ==
    /\ reply' = IF sent THEN [type |-> "INFORM_ACK", chaddr |-> p.chaddr] ELSE NoReply
    /\ delta' = NoDelta
    /\ UNCHANGED <<leases, grant>>
    /\ Handled

\* One turn of the main loop with a packet: select returns it before the
\* lease file is due.
Receive(p, sent) ==
    /\ pc = "idle"
    /\ AutoTime = 0 \/ now < timeout_end
    /\ \/ p.type = "DISCOVER" /\ \/ DiscoverKnown(p, sent)
                                 \/ DiscoverRequested(p)
                                 \/ DiscoverNew(p)
       \/ p.type = "REQUEST" /\ (RequestKnown(p, sent) \/ RequestUnknown(p, sent))
       \/ p.type = "DECLINE" /\ Decline(p)
       \/ p.type = "RELEASE" /\ Release(p)
       \/ p.type = "INFORM" /\ Inform(p, sent)

(***************************************************************************)
(* The lease file                                                          *)
(***************************************************************************)
LineOf(l) ==
    IF l.yiaddr = 0 THEN NoLine
    ELSE [chaddr |-> Mac(l.chaddr),
          yiaddr |-> l.yiaddr,
          time |-> IF ~Remaining \/ l.expires = InfLease THEN l.expires
                   ELSE IF lease_expired(l, now) THEN 0 ELSE l.expires - now,
          hostname |-> l.hostname]

FileImage(tbl) == [s \in Slots |-> LineOf(tbl[s])]

\* Variant: every entry is aged, not only the expired ones.
Reported_all == {s \in Slots : Remaining /\ leases[s].yiaddr # 0}

\* Writing remaining times also ages the table: an expired entry is reported
\* to the delta file (one line is all it keeps) and its expiry becomes 0.
Reported == {s \in Slots : /\ Remaining /\ leases[s].yiaddr # 0
                           /\ lease_expired(leases[s], now)}

write_leases ==
    LET news == {s \in Reported : leases[s].expires # 0}
        last == CHOOSE s \in news : \A r \in news : r <= s
    IN  /\ file' = FileImage(leases)
        /\ leases' = [s \in Slots |-> IF s \in Reported
                                      THEN [leases[s] EXCEPT !.expires = 0]
                                      ELSE leases[s]]
        /\ delta' = IF news = {} THEN NoDelta
                    ELSE write_to_delta("DEL", leases[last].chaddr, leases[last].yiaddr)

\* select times out, or the deadline passed while a packet was served.
AutoWrite ==
    /\ pc = "idle" /\ AutoTime > 0 /\ now >= timeout_end
    /\ write_leases
    /\ timeout_end' = now + AutoTime
    /\ reply' = NoReply
    /\ UNCHANGED <<now, pc, cur, cursor, grant, usr1, restarts>>

\* fopen fails.
AutoWriteFails ==
    /\ pc = "idle" /\ AutoTime > 0 /\ now >= timeout_end
    /\ timeout_end' = now + AutoTime
    /\ Quiet
    /\ UNCHANGED <<now, pc, leases, cur, cursor, file, grant, usr1, restarts>>

(***************************************************************************)
(* Signals, failures and time                                              *)
(***************************************************************************)
Stopped(lines) ==
    /\ pc' = "down"
    /\ leases' = EmptyTable
    /\ cur' = NoPacket /\ cursor' = 0 /\ timeout_end' = 0
    /\ file' = lines
    /\ grant' = [c \in Chaddr |-> NoGrant]
    /\ Quiet

\* SIGUSR1 calls write_leases with the signal's number for the interface
\* number, past the end of server_config: there is no file name there, and
\* either fopen fails or the process is killed.
SigUsr1 ==
    /\ Up /\ usr1 < MaxSignals
    /\ usr1' = usr1 + 1
    /\ \/ UNCHANGED <<pc, leases, cur, cursor, timeout_end, file, grant>> /\ Quiet
       \/ restarts < MaxRestarts /\ Stopped(file)
    /\ UNCHANGED <<now, restarts>>

\* A file that write_leases left after k lines: stdio writes whole buffers, so
\* that the next line may be cut short anywhere.  The fields it lacks are read
\* as those of the line before, since nobody looks how many fscanf found.
CutFile(k, torn) ==
    [s \in Slots |-> IF s <= k THEN FileImage(leases)[s]
                     ELSE IF s = k + 1 THEN torn ELSE NoLine]

\* SIGTERM or a crash, possibly in the middle of write_leases.
Kill ==
    /\ Up
    /\ restarts < MaxRestarts
    /\ \/ Stopped(file)
       \/ /\ pc = "idle" /\ AutoTime > 0 /\ now >= timeout_end
          /\ \E k \in 0..MaxLeases, torn \in TornLines \cup {NoLine} :
                Stopped(CutFile(k, torn))
    /\ UNCHANGED <<now, usr1, restarts>>

\* The server is started again, after a reboot (t = 0: no clock runs without
\* power) or on the running system (t = now).
Restart(t) ==
    /\ pc = "down" /\ restarts < MaxRestarts
    /\ restarts' = restarts + 1
    /\ now' = t
    /\ pc' = "load" /\ cursor' = 1
    /\ Quiet
    /\ UNCHANGED <<leases, timeout_end, cur, file, grant, usr1>>

\* While the process waits in select the clock cannot pass its deadline.
Tick ==
    /\ now < MaxTime
    /\ pc = "idle" /\ AutoTime > 0 => now < timeout_end
    /\ now' = now + 1
    /\ Quiet
    /\ UNCHANGED <<pc, leases, timeout_end, cur, cursor, file, grant, usr1, restarts>>

Load == \/ \E h \in Hostnames : ReadLine(h)
        \/ \E b \in Junk \cup {Blank} : ReadShortLine(b)
        \/ SkipLine
        \/ LoadDone

Ping == \/ \E sent \in SendOutcomes : ArpSilent(sent)
        \/ \E o \in ArpAnswers : ArpUsed(o)

Next ==
    \/ Load
    \/ Ping
    \/ \E p \in Packets, sent \in SendOutcomes : Receive(p, sent)
    \/ AutoWrite
    \/ AutoWriteFails
    \/ SigUsr1
    \/ Kill
    \/ \E t \in {0, now} : Restart(t)
    \/ Tick

Spec == Init /\ [][Next]_vars

\* The process takes its next step: loading goes on, a ping is answered or
\* times out, a due write happens.  Nothing is asked of clients or time.
FairSpec == Spec /\ WF_vars(Load) /\ WF_vars(Ping) /\ WF_vars(AutoWrite \/ AutoWriteFails)

(***************************************************************************)
(* Properties                                                              *)
(***************************************************************************)

\* Type invariant: every variable holds a value of its C type as the handlers
\* leave it; a packet is under way exactly while arpping waits, and arpping
\* asks for an address of the pool.
TypeOK ==
    /\ now \in Nat
    /\ pc \in Busy \cup {"down", "load", "idle"}
    /\ leases \in [Slots -> Leases]
    /\ timeout_end \in Nat
    /\ cur \in Packets \cup {NoPacket}
    /\ pc \in Busy <=> cur # NoPacket
    /\ cursor \in Nat
    /\ pc \in Busy => cursor \in Pool
    /\ file \in [Slots -> Lines]
    /\ delta \in Deltas \cup {NoDelta}
    /\ reply \in Replies \cup {NoReply}
    /\ grant \in [Chaddr -> Grants]
    /\ usr1 \in Nat
    /\ restarts \in Nat

Distinct(tbl) ==
    \A s, r \in Slots :
        s # r /\ tbl[s].chaddr # Blank /\ tbl[r].chaddr # Blank
            => /\ tbl[s].chaddr # tbl[r].chaddr
               /\ tbl[s].yiaddr # tbl[r].yiaddr

\* No host is in two slots and no address is held by two hosts, whatever
\* add_lease, DECLINE, reloading and ARP conflicts do to the table: the
\* searches of leases.c return the first match and rely on it being the only
\* one.
HeldAddressesDistinct == Distinct(leases)

\* Client c was told in an ACK that it has its address until now at least,
\* and has not discovered anew, declined, released or answered for another
\* address of the pool since.
LiveGrant(c) ==
    /\ grant[c].yiaddr # 0
    /\ grant[c].forever \/ now <= grant[c].end

\* The slot that keeps the server's word to c.
Keeps(s, c) ==
    /\ leases[s].chaddr = c
    /\ leases[s].yiaddr = grant[c].yiaddr
    /\ \/ leases[s].expires = InfLease
       \/ ~grant[c].forever /\ leases[s].expires >= grant[c].end

\* What an ACK promised stays in the table until it runs out: no packet of
\* another client, no ping, no eviction from a full table and no writing of
\* the lease file makes the server forget, shorten or hand on a lease in use
\* (add_lease, oldest_expired_lease, find_address, write_leases).
GrantHonoured == \A c \in Chaddr : LiveGrant(c) => \E s \in Slots : Keeps(s, c)

\* No address is promised to two clients at the same time.
NoDoubleGrant ==
    \A c, d \in Chaddr :
        c # d /\ LiveGrant(c) /\ LiveGrant(d) => grant[c].yiaddr # grant[d].yiaddr

\* The server offers or acknowledges no address that is promised to another
\* client, even though sendOffer picks the address before arpping's wait and
\* reserves it after.
OfferNotGranted ==
    reply.type \in {"OFFER", "ACK"} =>
        \A d \in Chaddr \ {reply.chaddr} :
            LiveGrant(d) => grant[d].yiaddr # reply.yiaddr

\* An OFFER or ACK names an address that is in the table for that client
\* when the packet leaves, for an OFFER with a reservation that has not
\* expired (add_lease after the choice of the address in sendOffer).
ReplyReserved ==
    reply.type \in {"OFFER", "ACK"} =>
        \E s \in Slots : /\ leases[s].chaddr = reply.chaddr
                         /\ leases[s].yiaddr = reply.yiaddr
                         /\ ~lease_expired(leases[s], now)

\* An address a client declined stays out of use for decline_time: its entry
\* leaves the table only with the process, or after it has expired.
DeclinedStaysReserved ==
    [][\A s \in Slots :
          /\ leases[s].chaddr = Blank /\ leases[s].yiaddr # 0
          /\ ~lease_expired(leases[s], now)
          /\ pc' # "down"
          => leases'[s] = leases[s]]_vars

\* Reloading loses nothing: when the server goes from reading its file to
\* serving, because the file is at its end or because add_lease found no slot
\* ("Too many leases"), every line whose address is in the pool has its entry
\* in the table.  add_lease must not recycle what it has just loaded, nor run
\* out of slots on a file that the same table wrote.  In second 0 of the clock
\* no slot counts as expired, not even an empty one, and the first line ends
\* the reading: hence now > 0.
ReloadComplete ==
    [][(pc = "load" /\ pc' = "idle" /\ now > 0) =>
          \A i \in Slots : file[i].yiaddr \in Pool =>
              \E s \in Slots : /\ leases'[s].chaddr = file[i].chaddr
                               /\ leases'[s].yiaddr = file[i].yiaddr]_vars

\* Every DISCOVER is answered or abandoned: the two passes of find_address
\* end although each conflict they meet changes the table they search.
ServiceEnds == pc \in Busy ~> pc \in {"idle", "down"}

\* How many times, at most, the DISCOVER under way will still wait for arpping:
\* for the address it asked for and for every address of the pool in each pass.
PoolSize == End - Start + 1
PingsLeft ==
    IF pc = "check" THEN 2 * PoolSize + 1
    ELSE IF pc = "find0" THEN PoolSize + (End - cursor) + 1
    ELSE IF pc = "find1" THEN (End - cursor) + 1
    ELSE 0

\* A DISCOVER waits for arpping at most 2 * PoolSize + 1 times, whoever answers:
\* each answer brings the search of find_address forward, although the conflict
\* that it enters may free an address that the search has passed.
SearchAdvances ==
    [][(pc \in Busy) =>
          PingsLeft' < PingsLeft \/ UNCHANGED <<pc, cursor, cur, leases>>]_vars

(***************************************************************************)
(* The inductive invariant behind the safety properties                    *)
(***************************************************************************)

\* A slot with a host in it has an address.
HostsHaveAddresses ==
    \A s \in Slots : leases[s].chaddr # Blank => leases[s].yiaddr # 0

\* Nothing can be entered at time 0, when not even an empty slot counts as
\* expired.
ClockRuns == (\E s \in Slots : leases[s].yiaddr # 0) => now > 0

\* A process that does not run holds no lease.
DownIsEmpty == pc = "down" => \A s \in Slots : leases[s].yiaddr = 0

\* Until the process has read its file it has promised nothing.
NothingPromised ==
    pc \in {"down", "load"} => \A c \in Chaddr : grant[c] = NoGrant

\* The address arpping asks for was and is nobody's.
PingTarget ==
    pc \in Busy => Available(leases, cursor, TRUE, now)

\* The slot that keeps a promise is the only one with its address, so that
\* find_lease_by_yiaddr finds it.
GrantKept ==
    \A c \in Chaddr : LiveGrant(c) =>
        \E s \in Slots : /\ Keeps(s, c)
                         /\ \A r \in Slots \ {s} : leases[r].yiaddr # leases[s].yiaddr

IInv ==
    /\ TypeOK
    /\ HeldAddressesDistinct
    /\ HostsHaveAddresses
    /\ ClockRuns
    /\ NothingPromised
    /\ PingTarget
    /\ GrantKept
    /\ ReplyReserved

(***************************************************************************)
(* The inductive invariants behind the rest of declined addresses and the  *)
(* reloading of the lease file, and the conditions they hold under         *)
(***************************************************************************)

\* No line of the file is short, since every client names itself and the file
\* fits one stdio buffer, so that no crash cuts a line; and no failure of
\* arpping leaves zeros for the owner of an address: such an owner is entered
\* beside an expired entry of the same address, not in its place.
WholeLines ==
    /\ \A p \in Packets : p.hostname # ""
    /\ TornLines = {}
    /\ Blank \notin ArpAnswers

\* The pool passes the check of read_leases, and the six bytes in the file
\* tell hosts apart.
FileFaithful ==
    /\ \A a \in Pool : InFileRange(a)
    /\ \A c, d \in Chaddr \cup Junk : Mac(c) = Mac(d) => c = d

\* No address is in two slots of the table, or on two lines of the file,
\* whoever has it.
OneSlotEach(tbl) ==
    \A s, r \in Slots : s # r /\ tbl[s].yiaddr # 0 => tbl[s].yiaddr # tbl[r].yiaddr

AllNamed(tbl) == \A s \in Slots : tbl[s].yiaddr # 0 => tbl[s].hostname # ""

\* While the file is read the table holds what the lines read so far say.
LoadedFromFile ==
    pc = "load" =>
        \A s \in Slots : leases[s].yiaddr # 0 =>
            \E i \in Slots : /\ i < cursor
                             /\ file[i].yiaddr = leases[s].yiaddr
                             /\ file[i].chaddr = leases[s].chaddr

ReserveInv ==
    /\ OneSlotEach(leases) /\ OneSlotEach(file)
    /\ AllNamed(leases) /\ AllNamed(file)
    /\ LoadedFromFile

\* No host is on two lines of the file.
FileHostsDistinct ==
    \A i, j \in Slots : i # j /\ file[i].chaddr # Blank => file[i].chaddr # file[j].chaddr

\* Of what an entry or a line says, only "expired, when remaining times were
\* last written" is 0: while the file is read a slot with expiry 0 is empty.
ExpiriesSet ==
    /\ pc = "load" \/ ~Remaining =>
         \A s \in Slots : leases[s].yiaddr # 0 => leases[s].expires > 0
    /\ ~Remaining => \A i \in Slots : file[i].yiaddr # 0 => file[i].time > 0

\* The slots fill from the front, never ahead of the lines.
FilledInOrder ==
    /\ pc = "load" => cursor > 0 /\ \A s \in Slots : s >= cursor => leases[s] = NoLease
    /\ pc = "down" => leases = EmptyTable

\* Every line read so far whose address passes the check has its entry.
LinesLoaded ==
    pc = "load" =>
        \A i \in Slots :
            i < cursor /\ file[i].yiaddr # 0 /\ InFileRange(file[i].yiaddr) =>
                \E s \in Slots : /\ leases[s].chaddr = file[i].chaddr
                                 /\ leases[s].yiaddr = file[i].yiaddr

ReloadInv == FileHostsDistinct /\ ExpiriesSet /\ FilledInOrder /\ LinesLoaded
=============================================================================
