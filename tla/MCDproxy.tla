------------------------------ MODULE MCDproxy ------------------------------
(***************************************************************************)
(* Instances of Dproxy for TLC: a name of the hosts file that the name     *)
(* servers know under another address, a name with a hyphen, and an        *)
(* address whose text begins that of another.                              *)
(***************************************************************************)
EXTENDS Dproxy

MCZone == {<<"gateway", "10.0.0.2">>, <<"my-pc", "10.0.0.1">>}
MCHosts == <<<<"gateway", "10.0.0.10">>>>
MCPrefixes == {<<"10.0.0.1", "10.0.0.10">>}
MCAlnum == [t \in Text |-> IF t = "my-pc" THEN "my" ELSE t]

\* The first three questions share an id.
MCQueries ==
    {[id |-> 1, type |-> "A", name |-> "my-pc"],
     [id |-> 1, type |-> "PTR", name |-> "10.0.0.2"],
     [id |-> 1, type |-> "MX", name |-> "my-pc"],
     [id |-> 2, type |-> "AAA", name |-> "my-pc"],
     [id |-> 2, type |-> "PTR", name |-> "10.0.0.1"]}

\* The stack holds an old response.
MCGarbage ==
    {[id |-> 1, qr |-> TRUE, rcode |-> "ok", aa |-> FALSE, type |-> "A",
      cname |-> "my-pc", ip |-> V6, cache |-> TRUE, short |-> FALSE,
      src |-> Server, time_pending |-> 0]}
=============================================================================
