------------------------------- MODULE Dproxy -------------------------------
(***************************************************************************)
(* The DNS proxy (src/dproxy-nexgen).  One thread serves one socket: a     *)
(* datagram is a query of a client, which is answered from the cache file  *)
(* or relayed, or the answer to one, which is sent back to the client      *)
(* found in the list of outstanding requests by the id of the message.  A  *)
(* second without a datagram makes the requests older, tries the next name *)
(* server, and now and then purges the cache file.                         *)
(*                                                                         *)
(* m is the one message buffer of dns_main_loop: what a datagram does not  *)
(* set stays from the datagram before, and one that is too short sets      *)
(* nothing but the sender.  A SIGHUP ends the select, and the proxy waits  *)
(* for a datagram without a timeout.                                       *)
(***************************************************************************)
EXTENDS Naturals, Sequences, Searches

CONSTANTS
    Clients, Server,      \* where datagrams come from
    Ids,                  \* ids of messages
    Names, Ips,           \* what is asked for
    V6,                   \* the first bytes of an IPv6 address, printed as IPv4
    Zone,                 \* the pairs <<name, ip>> the name servers know
    Hosts,                \* the hosts file: a sequence of pairs <<name, ip>>
    Prefixes,             \* <<a, b>>: the text of address a begins that of b
    Alnum,                \* Alnum[n]: n up to its first hyphen
    Queries,              \* what clients ask: records with id, type and name
    Garbage,              \* the uninitialized m
    DNS_TIMEOUT, DNS_SERVER_TIMEOUT, MAX_NAME_SERVER,
    PurgeTime,            \* config.purge_time
    PurgeTicks,           \* config.purge_time / 60
    Faults,               \* what may fail: the "link", the "malloc" of a request
    MaxPackets, MaxTime,  \* bounds: datagrams, the clock,
    MaxKills, MaxHups,    \* restarts, SIGHUPs,
    MaxFailures,          \* calls of fopen and rename that fail
    Empty,                \* the empty string
    Digits,               \* a time, read where an address is expected
    None                  \* no answer in a message, no time in a line

Text == Names \union Ips \union {V6, Empty, Digits}

Types == {"A", "AAA", "PTR", "MX"}
Rcodes == {"ok", "format", "failed", "name"}

\* dns_request_t.  qr: the message is a response; aa: an authoritative one;
\* short: original_buf holds no question, being too short or with qdcount 0.
Request == [id : Ids, qr : BOOLEAN, rcode : Rcodes, aa : BOOLEAN, type : Types,
            cname : Text, ip : Text, cache : BOOLEAN, short : BOOLEAN,
            src : Clients \union {Server}, time_pending : Nat]

ASSUME DproxyAssumption ==
    /\ Server \notin Clients
    /\ Zone \subseteq Names \X Ips
    /\ Hosts \in Seq(Names \X Ips)
    /\ Alnum \in [Text -> Text]
    /\ Queries \subseteq [id : Ids, type : Types, name : Names \union Ips]
    /\ Garbage \subseteq Request /\ Garbage # {}
    /\ V6 \notin Ips
    /\ {Empty, Digits, None} \intersect (Names \union Ips \union {V6}) = {}
    /\ Empty # Digits /\ Empty # None /\ Digits # None
    /\ DNS_TIMEOUT \in Nat /\ DNS_SERVER_TIMEOUT \in Nat \ {0}
    /\ MAX_NAME_SERVER \in Nat \ {0}
    /\ PurgeTime \in Nat /\ PurgeTicks \in Nat
    /\ MaxPackets \in Nat /\ MaxTime \in Nat
    /\ MaxKills \in Nat /\ MaxHups \in Nat /\ MaxFailures \in Nat
    /\ None \notin Nat

\* dproxy.h: 2 * 5 < 240.  All servers have been tried long before a request
\* times out.
ASSUME TimeoutAssumption == DNS_SERVER_TIMEOUT * MAX_NAME_SERVER < DNS_TIMEOUT

VARIABLES
    list,       \* dns_request_list; no property depends on its order
    m,          \* the buffer of dns_main_loop
    cache,      \* the lines of the cache file
    file,       \* the cache file begins with the "hosts", is "bare" of them, or
                \* "missing"
    missed,     \* history: a name was looked up while there was no cache file
    old,        \* cache_purge: the lines of the old file it has still to read
    pc,         \* "idle" (in select), "read" (in recvfrom) or "purge"
    purge_time, \* dns_main_loop: quiet seconds to the next purge
    clock,      \* time(NULL)
    relayed,    \* the queries that have reached a name server
    out,        \* the datagrams sent in the last step
    freedRead,  \* a request was read after it was freed
    packets, kills, hups, failures

vars == <<list, m, cache, file, missed, old, pc, purge_time, clock, relayed, out,
          freedRead, packets, kills, hups, failures>>

Line == [name : Text, ip : Text, time : Nat \union {None}]

-----------------------------------------------------------------------------
(* The cache file (cache.c). *)

HostLines == [i \in DOMAIN Hosts |->
                [name |-> Hosts[i][1], ip |-> Hosts[i][2], time |-> 0]]

\* "%s %s %ld\n" as it is read again: fields are separated by any number of
\* blanks, so that an empty one moves those after it.
Written(name, ip, time) ==
    IF name = Empty \/ ip = Empty
    THEN [name |-> IF name = Empty THEN ip ELSE name, ip |-> Digits, time |-> None]
    ELSE [name |-> name, ip |-> ip, time |-> time]

cache_byname(c, name) == First({i \in DOMAIN c : c[i].name = name})

\* The address asked for need only begin the one in the line.
SameAddress(ip, text) == ip = text \/ <<ip, text>> \in Prefixes

cache_lookup_ip(c, ip) ==
    IF ip = Empty THEN 0 ELSE First({i \in DOMAIN c : SameAddress(ip, c[i].ip)})

\* Variant: the new line comes first.
cache_name_append_first(c, name, ip) == <<Written(name, ip, clock)>> \o c

\* The file is opened for appending only, so that the search for the name in it
\* reads nothing and a name is written again.
cache_name_append(c, name, ip) == Append(c, Written(name, ip, clock))

\* A call of fopen or rename fails.
FileFails ==
    /\ failures < MaxFailures
    /\ failures' = failures + 1

\* cache_purge gives up if the file, with the lines c, cannot be renamed or, once
\* it is, the new one cannot be opened; it goes on without the hosts or without
\* the old file if it cannot open these.
PurgeFails(c) ==
    \/ /\ cache' = c /\ file' = IF c = cache THEN file ELSE "bare"
       /\ old' = <<>> /\ pc' = "idle"
    \/ /\ cache' = <<>> /\ file' = "missing"
       /\ old' = <<>> /\ pc' = "idle"
    \/ /\ cache' = <<>> /\ file' = "bare"
       /\ old' \in {c, <<>>} /\ pc' = "purge"
    \/ /\ cache' = HostLines /\ file' = "hosts"
       /\ old' = <<>> /\ pc' = "purge"

\* cache_purge starts: the file is renamed, and the new one begins with the hosts.
StartPurge(c) ==
    \/ /\ cache' = HostLines /\ file' = "hosts"
       /\ old' = c /\ pc' = "purge"
       /\ UNCHANGED failures
    \/ FileFails /\ PurgeFails(c)

Kept(line) == line.time # None /\ clock - line.time < PurgeTime

-----------------------------------------------------------------------------
(* Messages. *)

Question(r) == [id |-> r.id, type |-> r.type,
                name |-> IF r.type = "PTR" THEN r.ip ELSE r.cname]

\* dns_write_packet: the buffer of r is given to sendto, whose result nobody
\* looks at; it settles the question of.
Packet(to, r, of) ==
    [to |-> to, rcode |-> r.rcode, qr |-> r.qr, short |-> r.short,
     question |-> Question(r), of |-> of]

\* What name servers understand of the requests R that are relayed to them.
Understood(R) == {Question(r) : r \in {q \in R : ~q.qr /\ ~q.short}}

\* Variant: nobody looks whether there is an answer.
dns_decode_request_any(p, src) ==
    LET host == p.type \in {"A", "AAA"}
    IN  [id |-> p.id, qr |-> p.qr, rcode |-> p.rcode, aa |-> p.aa, type |-> p.type,
         cname |-> IF host THEN p.name ELSE p.ans,
         ip |-> IF host THEN p.ans ELSE p.name,
         cache |-> TRUE, short |-> FALSE, src |-> src, time_pending |-> 0]

dns_decode_request(p, src) ==
    LET host == p.type \in {"A", "AAA"}
        answered == p.ans # None /\ p.type # "MX"
    IN  [id |-> p.id, qr |-> p.qr, rcode |-> p.rcode, aa |-> p.aa, type |-> p.type,
         cname |-> IF host THEN p.name
                   ELSE IF answered THEN p.ans ELSE m.cname,
         ip |-> IF host /\ answered THEN p.ans
                ELSE IF p.type = "PTR" THEN p.name ELSE m.ip,
         cache |-> answered, short |-> FALSE, src |-> src, time_pending |-> 0]

dns_construct_error_reply(r) == [r EXCEPT !.qr = TRUE, !.rcode = "failed"]
dns_construct_reply(r) == [r EXCEPT !.qr = TRUE]

-----------------------------------------------------------------------------
(* A datagram. *)

\* Variant: a response in the list is no outstanding request.
dns_list_find_by_id_queries(id) == {r \in list : r.id = id /\ ~r.qr}

dns_list_find_by_id(id) == {r \in list : r.id = id}

\* The request after the search in the cache, which clears what it looks for;
\* without a file cache_lookup_name leaves the address as it was.
Looked(r) ==
    LET i == cache_byname(cache, r.cname)
        j == cache_lookup_ip(cache, r.ip)
    IN  IF r.type = "A" /\ file # "missing"
        THEN [r EXCEPT !.ip = IF i = 0 THEN Empty ELSE cache[i].ip]
        ELSE IF r.type = "PTR" /\ r.ip # Empty
        THEN [r EXCEPT !.cname = IF j = 0 THEN Empty ELSE Alnum[cache[j].name]]
        ELSE r

Hit(r) ==
    \/ r.type = "A" /\ cache_byname(cache, r.cname) # 0
    \/ r.type = "PTR" /\ cache_lookup_ip(cache, r.ip) # 0

\* is_connected may find no link, and the malloc of dns_list_add may fail.
dns_handle_new_query(r) ==
    LET s == Looked(r)
    IN  /\ \/ /\ r.type = "MX"
              /\ m' = s
              /\ out' = {}
              /\ UNCHANGED <<list, relayed>>
           \/ /\ r.type # "MX" /\ Hit(r)
              /\ m' = dns_construct_reply(s)
              /\ out' = {Packet(r.src, m', Question(r))}
              /\ UNCHANGED <<list, relayed>>
           \/ /\ r.type # "MX" /\ ~Hit(r)
              /\ m' = s
              /\ \/ list' = list \union {s}
                 \/ "malloc" \in Faults /\ UNCHANGED list
              /\ relayed' = relayed \union Understood({s})
              /\ out' = {Packet(Server, s, Question(s))}
           \/ /\ r.type # "MX" /\ ~Hit(r) /\ "link" \in Faults
              /\ m' = dns_construct_error_reply(s)
              /\ out' = {Packet(r.src, m', Question(r))}
              /\ UNCHANGED <<list, relayed>>
        /\ missed' = (missed \/ (r.type = "A" /\ file = "missing"))
        /\ UNCHANGED <<cache, file, failures>>

\* Variant: name and address of every good response are kept.
Cached_always(r) == r.rcode = "ok" /\ r.type # "AAA"

\* Which responses are sent on, and which of them are kept.
Forwarded(r) == r.rcode \in {"ok", "format"} \/ (r.rcode = "name" /\ r.aa)
Cached(r) == r.rcode = "ok" /\ r.type # "AAA" /\ r.cache

\* A response is written to the cache file, if it can be opened.
Save(r) ==
    \/ /\ Cached(r)
       /\ cache' = cache_name_append(cache, r.cname, r.ip)
       /\ file' = IF file = "missing" THEN "bare" ELSE file
       /\ UNCHANGED failures
    \/ /\ Cached(r) /\ FileFails
       /\ UNCHANGED <<cache, file>>
    \/ /\ ~Cached(r)
       /\ UNCHANGED <<cache, file, failures>>

\* Variant: the request is removed whether or not the response was sent on.
HandleResponse_removed(r, ptr) ==
    /\ m' = r
    /\ Save(r)
    /\ out' = IF Forwarded(r) THEN {Packet(ptr.src, r, Question(ptr))} ELSE {}
    /\ list' = list \ {ptr}
    /\ UNCHANGED <<relayed, missed>>

HandleResponse(r, ptr) ==
    /\ m' = r
    /\ Save(r)
    /\ IF Forwarded(r)
       THEN /\ out' = {Packet(ptr.src, r, Question(ptr))}
            /\ list' = list \ {ptr}
       ELSE /\ out' = {}
            /\ UNCHANGED list
    /\ UNCHANGED <<relayed, missed>>

DuplicateQuery(r) ==
    /\ m' = r
    /\ out' = {}
    /\ UNCHANGED <<list, cache, file, missed, relayed, failures>>

\* Time may pass, but less than a second without a datagram.
dns_handle_request(r) ==
    /\ pc \in {"idle", "read"}
    /\ pc' = "idle"
    /\ packets < MaxPackets
    /\ packets' = packets + 1
    /\ \/ dns_list_find_by_id(r.id) = {} /\ dns_handle_new_query(r)
       \/ \E ptr \in dns_list_find_by_id(r.id) :
             IF r.qr THEN HandleResponse(r, ptr) ELSE DuplicateQuery(r)
    /\ clock' \in {clock, clock + 1} \intersect 0 .. MaxTime
    /\ UNCHANGED <<old, purge_time, freedRead, kills, hups>>

Query(c, q) ==
    dns_handle_request(dns_decode_request(
        [id |-> q.id, qr |-> FALSE, rcode |-> "ok", aa |-> FALSE, type |-> q.type,
         name |-> q.name, ans |-> None], c))

Data(q) ==
    CASE q.type = "A"   -> {z[2] : z \in {y \in Zone : y[1] = q.name}}
      [] q.type = "PTR" -> {z[1] : z \in {y \in Zone : y[2] = q.name}}
      [] OTHER          -> {V6}

\* A name server answers a query that was relayed, as often as it likes.
Response(q) ==
    \E rcode \in Rcodes, aa \in BOOLEAN, ans \in Data(q) \union {None} :
        /\ rcode # "ok" => ans = None
        /\ aa => rcode = "name"     \* it is looked at in no other response
        /\ dns_handle_request(dns_decode_request(
              [id |-> q.id, qr |-> TRUE, rcode |-> rcode, aa |-> aa, type |-> q.type,
               name |-> q.name, ans |-> ans], Server))

\* dns_main_loop ignores that dns_read_packet found the datagram too short, and
\* handles the message before it again, as if it came from the new sender.  (A
\* recvfrom that fails leaves the sender too.)
ShortDatagram(src) ==
    dns_handle_request([m EXCEPT !.src = src, !.short = TRUE, !.time_pending = 0])

\* A name server refuses a query without repeating it (qdcount 0): question[0],
\* and with it type, name and address, stays from the message before.
Refusal(q) ==
    \E rcode \in Rcodes \ {"ok"} :
        dns_handle_request(
            [m EXCEPT !.id = q.id, !.qr = TRUE, !.rcode = rcode, !.aa = FALSE,
                      !.cache = FALSE, !.short = TRUE, !.src = Server, !.time_pending = 0])

\* SIGHUP reads the configuration, wherever it comes.  In select it makes the
\* call return -1, which dns_main_loop takes for a datagram: it waits in
\* recvfrom, which a later SIGHUP restarts.
Hangup ==
    /\ pc = "idle" /\ hups < MaxHups
    /\ hups' = hups + 1
    /\ pc' = "read"
    /\ out' = {}
    /\ UNCHANGED <<list, m, cache, file, missed, old, purge_time, clock, relayed,
                   freedRead, packets, kills, failures>>

-----------------------------------------------------------------------------
(* A second without a datagram. *)

\* Variant: the time starts again with every server.
Older_again(r) == [r EXCEPT !.time_pending = (@ + 1) % DNS_SERVER_TIMEOUT]

Older(r) == [r EXCEPT !.time_pending = @ + 1]
TimedOut(r) == r.time_pending > DNS_TIMEOUT
Due(r) == r.time_pending % DNS_SERVER_TIMEOUT = 0 /\ r.time_pending < DNS_TIMEOUT
\* Variant: after the last server the first one is tried again.
AllTried_round(r, n) ==
    (r.time_pending \div DNS_SERVER_TIMEOUT) % MAX_NAME_SERVER >= n

AllTried(r, n) ==
    LET next_server_index == r.time_pending \div DNS_SERVER_TIMEOUT
    IN  next_server_index >= MAX_NAME_SERVER \/ next_server_index >= n

\* The configuration may have been read again: n name servers are known now.  A
\* request that has timed out is freed, and then looked at once more.
Timeout ==
    \E n \in 1 .. MAX_NAME_SERVER :
        LET aged == {Older(r) : r \in list}
            gone == {r \in aged : TimedOut(r) \/ (Due(r) /\ AllTried(r, n))}
            again == {r \in aged \ gone : Due(r)}
        IN  /\ pc = "idle"
            /\ list' = aged \ gone
            /\ out' = {Packet(r.src, dns_construct_error_reply(r), Question(r)) : r \in gone}
                      \union {Packet(Server, r, Question(r)) : r \in again}
            /\ relayed' = relayed \union Understood(again)
            /\ freedRead' = (freedRead \/ \E r \in aged : TimedOut(r))
            /\ clock' = IF clock < MaxTime THEN clock + 1 ELSE clock
            /\ IF purge_time = 1
               THEN purge_time' = PurgeTicks /\ StartPurge(cache)
               ELSE \* below a minute, purge_time goes from 0 to -1 and never ends
                    /\ purge_time' = IF purge_time = 0 THEN 0 ELSE purge_time - 1
                    /\ UNCHANGED <<old, cache, file, pc, failures>>
            /\ UNCHANGED <<m, missed, packets, kills, hups>>

\* cache_purge reads a line of the old file.
PurgeLine ==
    /\ pc = "purge" /\ old # <<>>
    /\ cache' = IF Kept(Head(old)) THEN Append(cache, Head(old)) ELSE cache
    /\ old' = Tail(old)
    /\ out' = {}
    /\ UNCHANGED <<list, m, file, missed, pc, purge_time, clock, relayed, freedRead,
                   packets, kills, hups, failures>>

PurgeDone ==
    /\ pc = "purge" /\ old = <<>>
    /\ pc' = "idle"
    /\ out' = {}
    /\ UNCHANGED <<list, m, cache, file, missed, old, purge_time, clock, relayed,
                   freedRead, packets, kills, hups, failures>>

-----------------------------------------------------------------------------
\* The process is killed, in the middle of a purge too, and started again:
\* dns_init purges what is in the cache file, which may lack the last lines that
\* the purge before has printed.  m is an automatic variable of dns_main_loop and
\* holds anything before the first datagram.
Restart ==
    /\ kills < MaxKills
    /\ kills' = kills + 1
    /\ list' = {}
    /\ m' \in Garbage
    /\ \E n \in 0 .. Len(cache) :
          /\ pc # "purge" => n = Len(cache)
          /\ StartPurge(SubSeq(cache, 1, n))
    /\ purge_time' = PurgeTicks
    /\ out' = {}
    /\ UNCHANGED <<missed, clock, relayed, freedRead, packets, hups>>

\* The device starts without a cache file, and without a clock of its own.
Init ==
    /\ list = {} /\ m \in Garbage
    /\ \/ cache = HostLines /\ file = "hosts" /\ pc = "purge"
       \/ cache = <<>> /\ file = "bare" /\ pc = "purge"
       \/ cache = <<>> /\ file = "missing" /\ pc = "idle"
    /\ failures = IF file = "hosts" THEN 0 ELSE 1
    /\ failures <= MaxFailures
    /\ old = <<>> /\ purge_time = PurgeTicks
    /\ clock = 0 /\ relayed = {} /\ out = {} /\ freedRead = FALSE /\ missed = FALSE
    /\ packets = 0 /\ kills = 0 /\ hups = 0

Next ==
    \/ \E c \in Clients, q \in Queries : Query(c, q)
    \/ \E q \in relayed : Response(q) \/ Refusal(q)
    \/ \E src \in Clients \union {Server} : ShortDatagram(src)
    \/ Hangup \/ Timeout \/ PurgeLine \/ PurgeDone \/ Restart

Spec == Init /\ [][Next]_vars
FairSpec == Spec /\ WF_vars(Timeout) /\ WF_vars(PurgeLine \/ PurgeDone)

-----------------------------------------------------------------------------
(* Properties. *)

\* The sorts of the variables (dns_request_t, the lines of the cache file).
TypeOK ==
    /\ list \subseteq Request /\ m \in Request
    /\ cache \in Seq(Line) /\ old \in Seq(Line)
    /\ file \in {"hosts", "bare", "missing"} /\ missed \in BOOLEAN
    /\ pc \in {"idle", "read", "purge"}
    /\ purge_time \in 0 .. PurgeTicks
    /\ clock \in 0 .. MaxTime
    /\ relayed \subseteq [id : Ids, type : Types, name : Text]
    /\ freedRead \in BOOLEAN
    /\ packets \in 0 .. MaxPackets /\ kills \in 0 .. MaxKills
    /\ hups \in 0 .. MaxHups /\ failures \in 0 .. MaxFailures

\* The timeout loop frees a request that is older than DNS_TIMEOUT and then
\* reads its time_pending: no request ever gets that old, whatever the
\* configuration becomes while it waits.
FreedNotRead == ~freedRead

\* No two outstanding requests have one id, although late responses and stale
\* messages enter the list too: dns_list_find_by_id has at most one result.
UniqueIds == \A r, s \in list : r.id = s.id => r = s

\* From a purge that could open the hosts file and the new cache file on, the
\* name of a host keeps the address that is given there: whatever the name servers
\* answer, through purges that a kill cuts short or whose rename fails.  (A purge
\* that cannot open one of them loses the hosts until the next one.)
HostsPrevail ==
    file = "hosts" => \A i \in DOMAIN Hosts :
        LET j == cache_byname(cache, Hosts[i][1])
        IN  j # 0 /\ cache[j] = HostLines[cache_byname(HostLines, Hosts[i][1])]

\* A line of three fields is one of the hosts file or of the zone.
TrueLine(line) ==
    line.time # None =>
        <<line.name, line.ip>> \in Zone \union {Hosts[i] : i \in DOMAIN Hosts}

\* A line of the cache file that has its three fields is one of the hosts file,
\* or a pair of name and address that a name server has given, although name
\* and address are left in m by different datagrams, as long as every lookup had
\* a file to read: one that has none keeps what was in m, the first time anything.
CacheIsTrue == ~missed => \A i \in DOMAIN cache : TrueLine(cache[i])

\* A request leaves the list only with a datagram to the client that sent it:
\* no handler and no turn of the timeout loop drops one silently.
LeavesAnswered ==
    [][kills' = kills =>
          \A r \in list :
              \/ \E s \in list' : s.id = r.id /\ s.src = r.src
              \/ \E p \in out' : p.to = r.src /\ p.of = Question(r)]_vars

\* When datagrams stop for long enough, nothing is left outstanding, or a SIGHUP
\* has left the proxy waiting for a datagram, and nothing grows older.
RequestsEnd == (list # {}) ~> (list = {} \/ pc = "read")

-----------------------------------------------------------------------------
(* The inductive invariant. *)

AgeBounded ==
    \A r \in list : r.time_pending < DNS_SERVER_TIMEOUT * MAX_NAME_SERVER

HostsFirst ==
    file = "hosts" =>
        Len(cache) >= Len(Hosts) /\ \A i \in DOMAIN Hosts : cache[i] = HostLines[i]

OldIsTrue == ~missed => \A i \in DOMAIN old : TrueLine(old[i])

\* What m would append to the cache file, while its id is in the list.
Pair(r) == <<r.cname, r.ip>> \in Zone \/ r.cname = Empty \/ r.ip = Empty
BufferTrue ==
    ~missed /\ m.qr /\ m.cache /\ m.type # "AAA" /\ dns_list_find_by_id(m.id) # {}
    => Pair(m)

Safe ==
    /\ TypeOK /\ FreedNotRead /\ UniqueIds /\ CacheIsTrue
    /\ AgeBounded /\ HostsFirst /\ OldIsTrue /\ BufferTrue

-----------------------------------------------------------------------------
(* What the documentation says, and the code does not do. *)

\* The result of a query is passed back to the client that asked it.
AnswersItsQuestion ==
    \A p \in out : p.to \in Clients /\ p.qr /\ ~p.short => p.question = p.of
=============================================================================
