------------------------------ MODULE MCUdhcpd ------------------------------
(***************************************************************************)
(* Instances of Udhcpd for TLC: two clients, a pool whose first address    *)
(* ends in .0 (256) and whose usable addresses are 257 and 258, and lease  *)
(* times of a few seconds.                                                 *)
(***************************************************************************)
EXTENDS Udhcpd

CONSTANTS c1, c2, j1

Requests == {0, 256}

Packet(t, c, r, i, a, l, h) ==
    [type |-> t, chaddr |-> c, requested |-> r, sid |-> i, ciaddr |-> a,
     time |-> l, hostname |-> h]

\* Packets of clients that send hostname h: DISCOVERs, the three kinds of
\* REQUEST, DECLINE, RELEASE and INFORM.
PacketsOf(h) ==
    {Packet("DISCOVER", c, r, "none", 0, NoOption, h) : c \in Chaddr, r \in Requests}
    \cup {Packet("REQUEST", c, r, "ours", 0, NoOption, h) : c \in Chaddr, r \in 256..258}
    \cup {Packet("REQUEST", c1, 257, "other", 0, NoOption, h)}
    \cup {Packet("REQUEST", c, 257, "none", 0, 1, h) : c \in Chaddr}
    \cup {Packet("REQUEST", c, 0, "none", 258, NoOption, h) : c \in Chaddr}
    \cup {Packet(t, c, 0, "none", 0, NoOption, h) : t \in {"DECLINE", "RELEASE"}, c \in Chaddr}
    \cup {Packet("INFORM", c1, 0, "none", 257, NoOption, h)}

\* Enough to fill and empty the table: for the runs whose state also holds
\* the lease file of an earlier life of the server.
FewPacketsOf(h) ==
    {Packet("DISCOVER", c, 0, "none", 0, NoOption, h) : c \in Chaddr}
    \cup {Packet("REQUEST", c, r, "ours", 0, NoOption, h) : c \in Chaddr, r \in {257, 258}}
    \cup {Packet("DECLINE", c1, 0, "none", 0, NoOption, h)}

\* Enough to fill three lines of the file with an offer, a lease, a declined
\* address or one in conflict.
FilePacketsOf(h) ==
    {Packet("DISCOVER", c1, 256, "none", 0, NoOption, h),
     Packet("DISCOVER", c2, 0, "none", 0, NoOption, h),
     Packet("REQUEST", c1, 256, "ours", 0, NoOption, h),
     Packet("DECLINE", c1, 0, "none", 0, NoOption, h)}

MCChaddr == {c1, c2}
MCJunk == {j1}
NamedPackets == PacketsOf("host")
UnnamedPackets == PacketsOf("")
FileNamedPackets == FilePacketsOf("host")
FewUnnamedPackets == FewPacketsOf("")
ArpHosts == {c2, j1}
ArpStranger == {j1}
ArpHostsAndErrors == {c2, j1, Blank}
NoTornLine == {}
TornLine == {[chaddr |-> j1, yiaddr |-> 257, time |-> 1, hostname |-> "host"]}
JunkIsStranger == [j \in MCJunk |-> j]
JunkIsClient == [j \in MCJunk |-> c1]
=============================================================================
