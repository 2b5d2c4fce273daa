------------------------------ MODULE MCUdhcpc ------------------------------
(* Instances of the DHCP client Udhcpc for TLC. *)
EXTENDS Udhcpc

CONSTANTS LeaseTimes   \* the lease times the server may name

Packet(x, type, sid, l) == [xid |-> x, type |-> type, yiaddr |-> 5, sid |-> sid, lease |-> l]

\* Offers with and without a server id, ACKs for each lease time and for
\* none, NAKs and packets without a type, for every transaction.
AllPackets ==
    UNION {{Packet(x, "OFFER", 7, NoOption), Packet(x, "OFFER", 0, NoOption),
            Packet(x, "NAK", 7, NoOption), Packet(x, "none", 0, NoOption)}
           \cup {Packet(x, "ACK", 7, l) : l \in LeaseTimes \cup {NoOption}} : x \in Xids}
=============================================================================
