---------------------------- MODULE UdhcpLeases ----------------------------
(***************************************************************************)
(* The lease table of udhcpd (src/udhcp/leases.c): one slot per lease the  *)
(* server may hold, and the searches and updates every handler of the      *)
(* server is built from.  Each operator takes the table and the value of   *)
(* time(0) it runs at, and returns a slot, an address or the new table.    *)
(*                                                                         *)
(* A slot is struct dhcpOfferedAddr.  Addresses are numbers in host order, *)
(* 0 is "no address"; only the low octet and the order of addresses        *)
(* matter.  Hardware addresses are model values: Blank is sixteen zero     *)
(* bytes, Chaddr the addresses of DHCP clients, Junk the sixteen-byte      *)
(* strings that check_ip reads out of its six-byte buffer and that equal   *)
(* no client's chaddr.                                                     *)
(***************************************************************************)
EXTENDS Integers

CONSTANTS
    Chaddr,       \* hardware addresses of the clients
    Junk,         \* chaddr values made by reading past check_ip's buffer
    Blank,        \* the all-zero hardware address
    MaxLeases,    \* server_config.max_leases
    Start, End,   \* first and last address of the pool, host order
    InfLease      \* inflease_time: a lease time, and an expiry, meaning "for ever"

ASSUME TableAssumption ==
    /\ MaxLeases \in Nat \ {0}
    /\ Start \in Nat \ {0}
    /\ End \in Nat
    /\ InfLease \in Nat \ {0}
    /\ Blank \notin Chaddr \cup Junk
    /\ Chaddr \cap Junk = {}

HwAddr == Chaddr \cup Junk \cup {Blank}

Slots == 1..MaxLeases

Pool == Start..End

\* Hostnames are told apart only by whether they are empty: an empty one
\* leaves the last field of a lease-file line out.
Hostnames == {"", "host"}

Leases == [chaddr : HwAddr, yiaddr : Nat, expires : Nat, hostname : Hostnames]

\* A slot after memset(..., 0, ...).
NoLease == [chaddr |-> Blank, yiaddr |-> 0, expires |-> 0, hostname |-> ""]

EmptyTable == [s \in Slots |-> NoLease]

zerohwaddr(c) == c = Blank

\* Variant: an entry is gone in its last second.
lease_expired_early(l, t) == l.expires # InfLease /\ l.expires <= t

\* A slot whose expiry is InfLease never expires, and one that expires at t
\* is still good for the whole of second t.
lease_expired(l, t) == l.expires # InfLease /\ l.expires < t

\* Variant: another host's entry for the address survives.
clear_lease_host(tbl, c, a) ==
    [s \in Slots |-> IF ~zerohwaddr(c) /\ tbl[s].chaddr = c THEN NoLease ELSE tbl[s]]

clear_lease(tbl, c, a) ==
    [s \in Slots |-> IF \/ ~zerohwaddr(c) /\ tbl[s].chaddr = c
                        \/ a # 0 /\ tbl[s].yiaddr = a
                     THEN NoLease
                     ELSE tbl[s]]

\* Variant: the oldest entry, expired or not.
oldest_lease(tbl, t) ==
    CHOOSE s \in Slots : \A r \in Slots :
        \/ tbl[s].expires < tbl[r].expires
        \/ tbl[s].expires = tbl[r].expires /\ s <= r

\* The first of the slots with the smallest expiry, 0 when none has expired.
oldest_expired_lease(tbl, t) ==
    LET expired == {s \in Slots : lease_expired(tbl[s], t)}
    IN  IF expired = {} THEN 0
        ELSE CHOOSE s \in expired : \A r \in expired :
                \/ tbl[s].expires < tbl[r].expires
                \/ tbl[s].expires = tbl[r].expires /\ s <= r

\* The table add_lease searches for a slot: an entry for a real hardware
\* address first evicts every entry of that host and of that address.
Cleaned(tbl, c, a) == IF zerohwaddr(c) THEN tbl ELSE clear_lease(tbl, c, a)

\* Variant: a NULL from add_lease goes unnoticed.
HasRoom_unchecked(tbl, c, a, t) == TRUE

\* add_lease returns NULL exactly when this is false.
HasRoom(tbl, c, a, t) == oldest_expired_lease(Cleaned(tbl, c, a), t) # 0

Expiry(len, t) == IF len # InfLease THEN t + len ELSE InfLease

Entry(c, a, len, t, h) ==
    [chaddr |-> c, yiaddr |-> a, expires |-> Expiry(len, t), hostname |-> h]

\* Without room the evictions remain, and nothing is added.
add_lease(tbl, c, a, len, t, h) ==
    LET clean == Cleaned(tbl, c, a)
        s == oldest_expired_lease(clean, t)
    IN  IF s = 0 THEN clean
        ELSE [clean EXCEPT ![s] = Entry(c, a, len, t, h)]

Least(S) == IF S = {} THEN 0 ELSE CHOOSE s \in S : \A r \in S : s <= r

find_lease_by_chaddr(tbl, c) == Least({s \in Slots : tbl[s].chaddr = c})

find_lease_by_yiaddr(tbl, a) == Least({s \in Slots : tbl[s].yiaddr = a})

\* Variant: any entry may be reused on the second pass.
Available_any(tbl, a, expiredToo, t) ==
    find_lease_by_yiaddr(tbl, a) # 0 => expiredToo

\* No entry for a, or (when expired entries may be reused) an expired one.
Available(tbl, a, expiredToo, t) ==
    LET s == find_lease_by_yiaddr(tbl, a)
    IN  s # 0 => expiredToo /\ lease_expired(tbl[s], t)

\* The next address at or after "from" that find_address would put to
\* check_ip, 0 when its loop runs off the end of the pool.
NextCandidate(tbl, from, expiredToo, t) ==
    Least({a \in from..End : /\ a % 256 \notin {0, 255}
                                 /\ Available(tbl, a, expiredToo, t)})
=============================================================================
