---------------------------- MODULE DproxyProofs ----------------------------
(***************************************************************************)
(* Proofs about the DNS proxy Dproxy, for every set of clients, names and  *)
(* addresses, every hosts file and every uninitialized buffer.             *)
(*                                                                         *)
(* Safe is the inductive invariant.  AgeBounded makes the branch that      *)
(* reads a freed request unreachable.  BufferTrue is what CacheIsTrue      *)
(* needs: the buffer m may hold the name of one datagram and the address   *)
(* of another, but not while its id is in the list, and only then is it    *)
(* written to the cache file, unless a lookup had no file to read.         *)
(***************************************************************************)
EXTENDS Dproxy, SearchProofs, SequenceTheorems

USE DproxyAssumption

-----------------------------------------------------------------------------
(* Searching the cache file. *)

\* The searches return 0 or the number of a line.
LEMMA SearchType ==
    ASSUME NEW c \in Seq(Line), NEW t
    PROVE  /\ cache_byname(c, t) # 0 => cache_byname(c, t) \in DOMAIN c
           /\ cache_lookup_ip(c, t) # 0 => cache_lookup_ip(c, t) \in DOMAIN c
<1>1. DOMAIN c = 1 .. Len(c) /\ Len(c) \in Nat
  BY LenProperties
<1>2. \A I \in SUBSET DOMAIN c : First(I) # 0 => First(I) \in I
  <2> TAKE I \in SUBSET DOMAIN c
  <2>1. I \in SUBSET (Nat \ {0})
    BY <1>1
  <2> QED BY <2>1, FirstIsLeast
<1> QED BY <1>2 DEF cache_byname, cache_lookup_ip

\* The lines that the hosts file gives.
LEMMA HostLinesType == HostLines \in Seq(Line) /\ DOMAIN HostLines = DOMAIN Hosts
<1>1. Hosts \in [1 .. Len(Hosts) -> Names \X Ips] /\ Len(Hosts) \in Nat
      /\ DOMAIN Hosts = 1 .. Len(Hosts)
  BY LenProperties
<1>2. \A i \in 1 .. Len(Hosts) :
         [name |-> Hosts[i][1], ip |-> Hosts[i][2], time |-> 0] \in Line
  BY <1>1 DEF Line, Text
<1>3. HostLines \in [1 .. Len(Hosts) -> Line]
  BY <1>1, <1>2 DEF HostLines
<1>4. HostLines \in Seq(Line)
  <2>1. HostLines \in UNION {[1 .. n -> Line] : n \in Nat}
    BY <1>1, <1>3
  <2> QED BY <2>1, SeqDef
<1> QED BY <1>1, <1>3, <1>4

-----------------------------------------------------------------------------
(* Types. *)

\* The search in the cache leaves a request well-typed.
LEMMA LookedType ==
    ASSUME TypeOK, NEW r \in Request
    PROVE  Looked(r) \in Request
<1>1. \A i \in DOMAIN cache : cache[i].ip \in Text /\ cache[i].name \in Text
  <2>1. cache \in [1 .. Len(cache) -> Line]
    BY LenProperties DEF TypeOK
  <2>2. \A i \in DOMAIN cache : cache[i] \in Line
    BY <2>1
  <2> QED BY <2>2 DEF Line
<1>2. /\ cache_byname(cache, r.cname) # 0 => cache_byname(cache, r.cname) \in DOMAIN cache
      /\ cache_lookup_ip(cache, r.ip) # 0 => cache_lookup_ip(cache, r.ip) \in DOMAIN cache
  BY SearchType DEF TypeOK
<1>3. ASSUME NEW t \in Text PROVE [r EXCEPT !.ip = t] \in Request /\ [r EXCEPT !.cname = t] \in Request
  BY DEF Request
<1>4. Empty \in Text /\ \A t \in Text : Alnum[t] \in Text
  BY DEF Text
<1> QED BY <1>1, <1>2, <1>3, <1>4 DEF Looked

\* What is decoded is a request.
LEMMA DecodeType ==
    ASSUME TypeOK, NEW p, NEW src \in Clients \union {Server},
           p \in [id : Ids, qr : BOOLEAN, rcode : Rcodes, aa : BOOLEAN, type : Types,
                  name : Text, ans : Text \union {None}]
    PROVE  dns_decode_request(p, src) \in Request
  BY DEF dns_decode_request, Request, TypeOK, Types

\* Questions have the type of what name servers are asked.
LEMMA QuestionType ==
    ASSUME NEW R \in SUBSET Request
    PROVE  Understood(R) \subseteq [id : Ids, type : Types, name : Text]
  BY DEF Understood, Question, Request

\* Handling a datagram keeps the types.
LEMMA TypeHandle ==
    ASSUME TypeOK, NEW r \in Request, dns_handle_request(r)
    PROVE  TypeOK'
<1> USE DEF TypeOK
<1>1. packets' \in 0 .. MaxPackets /\ clock' \in 0 .. MaxTime
  BY DEF dns_handle_request
<1>2. UNCHANGED <<old, purge_time, freedRead, kills, hups>> /\ pc' = "idle"
  BY DEF dns_handle_request
<1>3. CASE dns_handle_new_query(r)
  <2>1. Looked(r) \in Request
    BY LookedType
  <2>2. dns_construct_reply(Looked(r)) \in Request
    BY <2>1 DEF dns_construct_reply, Request
  <2>3. dns_construct_error_reply(Looked(r)) \in Request
    BY <2>1 DEF dns_construct_error_reply, Request, Rcodes
  <2>4. Understood({Looked(r)}) \subseteq [id : Ids, type : Types, name : Text]
    BY <2>1, QuestionType
  <2>5. m' \in Request /\ list' \subseteq Request
    BY <1>3, <2>1, <2>2, <2>3 DEF dns_handle_new_query
  <2>6. relayed' \subseteq [id : Ids, type : Types, name : Text]
    BY <1>3, <2>4 DEF dns_handle_new_query
  <2>7. missed' \in BOOLEAN /\ UNCHANGED <<cache, file, failures>>
    BY <1>3 DEF dns_handle_new_query
  <2> QED BY <1>1, <1>2, <2>5, <2>6, <2>7
<1>4. ASSUME NEW ptr \in list, HandleResponse(r, ptr)
      PROVE  TypeOK'
  <2>1. Written(r.cname, r.ip, clock) \in Line
    BY DEF Written, Line, Request, Text
  <2>2. cache_name_append(cache, r.cname, r.ip) \in Seq(Line)
    BY <2>1, AppendProperties DEF cache_name_append
  <2>3. /\ cache' \in Seq(Line) /\ file' \in {"hosts", "bare", "missing"}
        /\ failures' \in 0 .. MaxFailures
    BY <1>4, <2>2 DEF HandleResponse, Save, FileFails
  <2>4. m' \in Request /\ list' \subseteq Request /\ UNCHANGED <<relayed, missed>>
    BY <1>4 DEF HandleResponse
  <2> QED BY <1>1, <1>2, <2>3, <2>4
<1>5. CASE DuplicateQuery(r)
  BY <1>1, <1>2, <1>5 DEF DuplicateQuery
<1> QED BY <1>3, <1>4, <1>5 DEF dns_handle_request, dns_list_find_by_id

\* A purge starts with a well-typed file, whatever fails.
LEMMA TypePurge ==
    ASSUME TypeOK, NEW c \in Seq(Line), StartPurge(c)
    PROVE  /\ cache' \in Seq(Line) /\ old' \in Seq(Line) /\ pc' \in {"idle", "purge"}
           /\ file' \in {"hosts", "bare", "missing"} /\ failures' \in 0 .. MaxFailures
<1>1. <<>> \in Seq(Line)
  BY EmptySeq
<1>2. failures' \in 0 .. MaxFailures
  BY DEF StartPurge, FileFails, TypeOK
<1>3. CASE UNCHANGED failures /\ old' = c
           /\ cache' = HostLines /\ file' = "hosts" /\ pc' = "purge"
  BY <1>2, <1>3, HostLinesType
<1>4. CASE PurgeFails(c)
  BY <1>1, <1>2, <1>4, HostLinesType DEF PurgeFails, TypeOK
<1> QED BY <1>3, <1>4 DEF StartPurge

\* The lines that a file still has after a kill.
LEMMA Prefix ==
    ASSUME NEW c \in Seq(Line), NEW n \in 0 .. Len(c)
    PROVE  /\ SubSeq(c, 1, n) \in Seq(Line)
           /\ \A i \in DOMAIN SubSeq(c, 1, n) : i \in DOMAIN c /\ SubSeq(c, 1, n)[i] = c[i]
<1>1. DOMAIN c = 1 .. Len(c) /\ Len(c) \in Nat /\ c \in [1 .. Len(c) -> Line]
  BY LenProperties
<1>2. n \in Nat /\ n <= Len(c)
  BY <1>1
<1>3. SubSeq(c, 1, n) = [i \in 1 .. n |-> c[i]]
  BY <1>1, <1>2
<1>4. \A i \in 1 .. n : i \in DOMAIN c /\ c[i] \in Line
  BY <1>1, <1>2
<1>5. [i \in 1 .. n |-> c[i]] \in [1 .. n -> Line]
  BY <1>4
<1> QED BY <1>2, <1>3, <1>4, <1>5, SeqDef

\* Growing older changes nothing but the age.
LEMMA OlderType ==
    ASSUME NEW r \in Request
    PROVE  /\ Older(r) \in Request
           /\ Older(r).id = r.id /\ Older(r).src = r.src
           /\ Question(Older(r)) = Question(r)
           /\ Older(r).time_pending = r.time_pending + 1
<1>1. r.time_pending + 1 \in Nat
  BY DEF Request
<1>2. Older(r) = [r EXCEPT !.time_pending = r.time_pending + 1]
  BY DEF Older
<1>3. Older(r) \in Request
  BY <1>1, <1>2 DEF Request
<1> QED BY <1>2, <1>3 DEF Question, Request

\* A second without a datagram keeps the types.
LEMMA TypeTimeout == TypeOK /\ Timeout => TypeOK'
<1> SUFFICES ASSUME TypeOK, Timeout PROVE TypeOK'
  OBVIOUS
<1> USE DEF TypeOK
<1> DEFINE aged == {Older(r) : r \in list}
<1>1. aged \subseteq Request
  BY OlderType
<1>2. PICK n \in 1 .. MAX_NAME_SERVER :
        LET gone == {r \in aged : TimedOut(r) \/ (Due(r) /\ AllTried(r, n))}
            again == {r \in aged \ gone : Due(r)}
        IN  /\ list' = aged \ gone
            /\ relayed' = relayed \union Understood(again)
            /\ freedRead' = (freedRead \/ \E r \in aged : TimedOut(r))
  BY DEF Timeout
<1> HIDE DEF aged
<1>3. list' \subseteq Request
  BY <1>1, <1>2
<1>4. relayed' \subseteq [id : Ids, type : Types, name : Text]
  <2> DEFINE again == {r \in aged \ {q \in aged : TimedOut(q) \/ (Due(q) /\ AllTried(q, n))} : Due(r)}
  <2>1. again \in SUBSET Request
    BY <1>1
  <2>2. relayed' = relayed \union Understood(again)
    BY <1>2
  <2> HIDE DEF again
  <2> QED BY <2>1, <2>2, QuestionType
<1>5. freedRead' \in BOOLEAN
  BY <1>2
<1>6. clock' \in 0 .. MaxTime /\ purge_time' \in 0 .. PurgeTicks
  BY DEF Timeout
<1>7. /\ cache' \in Seq(Line) /\ old' \in Seq(Line) /\ pc' \in {"idle", "read", "purge"}
      /\ file' \in {"hosts", "bare", "missing"} /\ failures' \in 0 .. MaxFailures
  BY TypePurge DEF Timeout
<1>8. UNCHANGED <<m, missed, packets, kills, hups>>
  BY DEF Timeout
<1> QED BY <1>3, <1>4, <1>5, <1>6, <1>7, <1>8

\* Every answer of a name server can be decoded.
LEMMA ResponseHandled ==
    ASSUME TypeOK, NEW q \in relayed, Response(q)
    PROVE  \E p : /\ p.id = q.id /\ p.qr = TRUE /\ p.type = q.type /\ p.name = q.name
                  /\ p.ans \in Data(q) \union {None}
                  /\ dns_decode_request(p, Server) \in Request
                  /\ dns_handle_request(dns_decode_request(p, Server))
<1>1. PICK rcode \in Rcodes, aa \in BOOLEAN, ans \in Data(q) \union {None} :
        dns_handle_request(dns_decode_request(
            [id |-> q.id, qr |-> TRUE, rcode |-> rcode, aa |-> aa, type |-> q.type,
             name |-> q.name, ans |-> ans], Server))
  BY DEF Response
<1> DEFINE p == [id |-> q.id, qr |-> TRUE, rcode |-> rcode, aa |-> aa, type |-> q.type,
                 name |-> q.name, ans |-> ans]
<1>2. Data(q) \subseteq Text
  BY DEF Data, Text
<1>3. q \in [id : Ids, type : Types, name : Text]
  BY DEF TypeOK
<1>4. p \in [id : Ids, qr : BOOLEAN, rcode : Rcodes, aa : BOOLEAN, type : Types,
             name : Text, ans : Text \union {None}]
  BY <1>2, <1>3
<1>5. p.id = q.id /\ p.qr = TRUE /\ p.type = q.type /\ p.name = q.name /\ p.ans = ans
  OBVIOUS
<1>6. dns_handle_request(dns_decode_request(p, Server))
  BY <1>1
<1> HIDE DEF p
<1>7. dns_decode_request(p, Server) \in Request
  BY <1>4, DecodeType
<1> QED BY <1>5, <1>6, <1>7

\* A query of a client can be decoded.
LEMMA QueryHandled ==
    ASSUME TypeOK, NEW c \in Clients, NEW q \in Queries, Query(c, q)
    PROVE  \E r \in Request : r.qr = FALSE /\ dns_handle_request(r)
<1> DEFINE p == [id |-> q.id, qr |-> FALSE, rcode |-> "ok", aa |-> FALSE, type |-> q.type,
                 name |-> q.name, ans |-> None]
<1>1. p \in [id : Ids, qr : BOOLEAN, rcode : Rcodes, aa : BOOLEAN, type : Types,
             name : Text, ans : Text \union {None}]
  BY DEF Rcodes, Text
<1>2. dns_handle_request(dns_decode_request(p, c))
  BY DEF Query
<1>3. p.qr = FALSE
  OBVIOUS
<1> HIDE DEF p
<1>4. dns_decode_request(p, c) \in Request
  BY <1>1, DecodeType
<1>5. dns_decode_request(p, c).qr = FALSE
  BY <1>3 DEF dns_decode_request
<1> QED BY <1>2, <1>4, <1>5

\* A short datagram is the buffer again, with another sender.
Again(c) == [m EXCEPT !.src = c, !.short = TRUE, !.time_pending = 0]
\* A short datagram is handled as the message before it.
LEMMA ShortHandled ==
    ASSUME TypeOK, NEW c \in Clients \union {Server}, ShortDatagram(c)
    PROVE  Again(c) \in Request /\ dns_handle_request(Again(c))
  BY DEF TypeOK, Request, ShortDatagram, Again

\* A refusal without a question is the buffer again, with another header.
Refused(q, rcode) ==
    [m EXCEPT !.id = q.id, !.qr = TRUE, !.rcode = rcode, !.aa = FALSE,
              !.cache = FALSE, !.short = TRUE, !.src = Server, !.time_pending = 0]
\* A refusal is handled as the message before it, and gives nothing to cache.
LEMMA RefusalHandled ==
    ASSUME TypeOK, NEW q \in relayed, Refusal(q)
    PROVE  \E r \in Request : r.cache = FALSE /\ r.time_pending = 0 /\ dns_handle_request(r)
<1>1. PICK rcode \in Rcodes : dns_handle_request(Refused(q, rcode))
  BY DEF Refusal, Refused
<1>2. q.id \in Ids /\ m \in Request
  BY DEF TypeOK
<1>3. /\ Refused(q, rcode) \in Request /\ Refused(q, rcode).cache = FALSE
      /\ Refused(q, rcode).time_pending = 0
  BY <1>2 DEF Refused, Request
<1> QED BY <1>1, <1>3

\* Every step keeps the types.
LEMMA TypeStep == TypeOK /\ [Next]_vars => TypeOK'
<1> SUFFICES ASSUME TypeOK, [Next]_vars PROVE TypeOK'
  OBVIOUS
<1>1. ASSUME NEW c \in Clients, NEW q \in Queries, Query(c, q) PROVE TypeOK'
  BY <1>1, QueryHandled, TypeHandle
<1>2. ASSUME NEW q \in relayed, Response(q) PROVE TypeOK'
  BY <1>2, ResponseHandled, TypeHandle
<1>3. ASSUME NEW c \in Clients \union {Server}, ShortDatagram(c) PROVE TypeOK'
  BY <1>3, ShortHandled, TypeHandle
<1>4. CASE Timeout
  BY <1>4, TypeTimeout
<1>5. CASE PurgeLine
  <2>1. Head(old) \in Line /\ Tail(old) \in Seq(Line)
    BY <1>5, HeadTailProperties DEF PurgeLine, TypeOK
  <2>2. Append(cache, Head(old)) \in Seq(Line)
    BY <2>1, AppendProperties DEF TypeOK
  <2> QED BY <1>5, <2>1, <2>2 DEF PurgeLine, TypeOK
<1>6. CASE PurgeDone
  BY <1>6 DEF PurgeDone, TypeOK
<1>7. CASE Restart
  <2>1. PICK n \in 0 .. Len(cache) : StartPurge(SubSeq(cache, 1, n))
    BY <1>7 DEF Restart
  <2>2. SubSeq(cache, 1, n) \in Seq(Line)
    BY Prefix DEF TypeOK
  <2>3. /\ cache' \in Seq(Line) /\ old' \in Seq(Line) /\ pc' \in {"idle", "purge"}
        /\ file' \in {"hosts", "bare", "missing"} /\ failures' \in 0 .. MaxFailures
    BY <2>1, <2>2, TypePurge
  <2>4. m' \in Request /\ list' = {} /\ purge_time' = PurgeTicks /\ kills' \in 0 .. MaxKills
    BY <1>7 DEF Restart, TypeOK
  <2>5. UNCHANGED <<missed, clock, relayed, freedRead, packets, hups>>
    BY <1>7 DEF Restart
  <2> QED BY <2>3, <2>4, <2>5 DEF TypeOK
<1>8. CASE UNCHANGED vars
  BY <1>8 DEF vars, TypeOK
<1>10. CASE Hangup
  BY <1>10 DEF Hangup, TypeOK
<1>9. ASSUME NEW q \in relayed, Refusal(q) PROVE TypeOK'
  BY <1>9, RefusalHandled, TypeHandle
<1> QED BY <1>1, <1>2, <1>3, <1>4, <1>5, <1>6, <1>7, <1>8, <1>9, <1>10 DEF Next

\* The proxy starts with well-typed variables.
LEMMA TypeInit == Init => TypeOK
<1> SUFFICES ASSUME Init PROVE TypeOK
  OBVIOUS
<1>1. list \subseteq Request /\ m \in Request /\ relayed \subseteq [id : Ids, type : Types, name : Text]
  BY DEF Init
<1>2. cache \in Seq(Line) /\ old \in Seq(Line)
  BY HostLinesType, EmptySeq DEF Init
<1>3. /\ pc \in {"idle", "purge"} /\ freedRead \in BOOLEAN /\ missed \in BOOLEAN
      /\ file \in {"hosts", "bare", "missing"}
  BY DEF Init
<1>4. /\ purge_time \in 0 .. PurgeTicks /\ clock \in 0 .. MaxTime
      /\ packets \in 0 .. MaxPackets /\ kills \in 0 .. MaxKills /\ hups \in 0 .. MaxHups
      /\ failures \in 0 .. MaxFailures
  BY DEF Init
<1> QED BY <1>1, <1>2, <1>3, <1>4 DEF TypeOK

\* Every reachable state has the types of the C program, whatever arrives.
THEOREM TypeCorrect == Spec => []TypeOK
  BY TypeInit, TypeStep, PTL DEF Spec

-----------------------------------------------------------------------------
(* The list of outstanding requests. *)

\* A datagram keeps ids unique and requests young: a new request is added only
\* when its id is not in the list, and with age 0.
LEMMA ListHandle ==
    ASSUME TypeOK, UniqueIds, AgeBounded,
           NEW r \in Request, r.time_pending = 0, dns_handle_request(r)
    PROVE  UniqueIds' /\ AgeBounded'
<1>1. 0 < DNS_SERVER_TIMEOUT * MAX_NAME_SERVER
  OBVIOUS
<1>2. CASE dns_list_find_by_id(r.id) = {} /\ dns_handle_new_query(r)
  <2>1. Looked(r).id = r.id /\ Looked(r).time_pending = 0
    BY DEF Looked, Request
  <2>2. list' = list \/ list' = list \union {Looked(r)}
    BY <1>2 DEF dns_handle_new_query
  <2>3. \A q \in list : q.id # r.id
    BY <1>2 DEF dns_list_find_by_id
  <2>4. UniqueIds'
    BY <2>1, <2>2, <2>3 DEF UniqueIds
  <2>5. AgeBounded'
    BY <1>1, <2>1, <2>2 DEF AgeBounded
  <2> QED BY <2>4, <2>5
<1>3. CASE list' \subseteq list
  BY <1>3 DEF UniqueIds, AgeBounded
<1>4. (dns_list_find_by_id(r.id) = {} /\ dns_handle_new_query(r)) \/ list' \subseteq list
  BY DEF dns_handle_request, HandleResponse, DuplicateQuery
<1> QED BY <1>2, <1>3, <1>4

\* The arithmetic of the timeout loop: the last moment of the last server.
LEMMA LastServer ==
    ASSUME NEW s \in Nat \ {0}, NEW n \in Nat
    PROVE  (s * n) % s = 0 /\ (s * n) \div s = n
  OBVIOUS

\* The timeout loop removes a request when all servers were tried, before it
\* can time out.
LEMMA ListTimeout ==
    ASSUME TypeOK, UniqueIds, AgeBounded, FreedNotRead, Timeout
    PROVE  UniqueIds' /\ AgeBounded' /\ FreedNotRead'
<1> DEFINE aged == {Older(r) : r \in list}
           last == DNS_SERVER_TIMEOUT * MAX_NAME_SERVER
<1>1. PICK n \in 1 .. MAX_NAME_SERVER :
        /\ list' = aged \ {r \in aged : TimedOut(r) \/ (Due(r) /\ AllTried(r, n))}
        /\ freedRead' = (freedRead \/ \E r \in aged : TimedOut(r))
  BY DEF Timeout
<1>2. last \in Nat /\ last < DNS_TIMEOUT
  BY TimeoutAssumption
<1>3. last % DNS_SERVER_TIMEOUT = 0 /\ last \div DNS_SERVER_TIMEOUT = MAX_NAME_SERVER
  BY LastServer
<1>4. \A r \in aged : r.time_pending \in Nat /\ r.time_pending <= last
  <2> SUFFICES ASSUME NEW q \in list
               PROVE  Older(q).time_pending \in Nat /\ Older(q).time_pending <= last
    OBVIOUS
  <2>1. q \in Request /\ q.time_pending < last /\ q.time_pending \in Nat
    BY DEF TypeOK, AgeBounded, Request
  <2>2. Older(q).time_pending = q.time_pending + 1
    BY <2>1, OlderType
  <2> HIDE DEF last
  <2> QED BY <1>2, <2>1, <2>2
<1> HIDE DEF last
<1>5. \A r \in aged : ~TimedOut(r)
  <2> HIDE DEF aged
  <2> QED BY <1>2, <1>4 DEF TimedOut
<1>6. FreedNotRead'
  BY <1>1, <1>5 DEF FreedNotRead
<1>7. \A r \in aged : r.time_pending = last => Due(r) /\ AllTried(r, n)
  <2> HIDE DEF aged
  <2> QED BY <1>2, <1>3 DEF Due, AllTried
<1>8. AgeBounded'
  <2> SUFFICES ASSUME NEW r \in list' PROVE r.time_pending < last
    BY DEF AgeBounded, last
  <2>1. r \in aged /\ r.time_pending # last
    BY <1>1, <1>7
  <2> HIDE DEF aged
  <2> QED BY <1>2, <1>4, <2>1
<1>9. UniqueIds'
  <2> SUFFICES ASSUME NEW r \in list', NEW s \in list', r.id = s.id PROVE r = s
    BY DEF UniqueIds
  <2>1. PICK p \in list, q \in list : r = Older(p) /\ s = Older(q)
    BY <1>1
  <2>2. p.id = q.id
    BY <2>1, OlderType DEF TypeOK
  <2> QED BY <2>1, <2>2 DEF UniqueIds
<1> QED BY <1>6, <1>8, <1>9

-----------------------------------------------------------------------------
(* The cache file. *)

\* The hosts file's own lines are true.
LEMMA HostLinesTrue ==
    /\ \A i \in DOMAIN HostLines : TrueLine(HostLines[i])
    /\ Len(HostLines) = Len(Hosts)
<1>1. Hosts \in [1 .. Len(Hosts) -> Names \X Ips] /\ DOMAIN Hosts = 1 .. Len(Hosts)
      /\ Len(Hosts) \in Nat
  BY LenProperties
<1>2. \A i \in DOMAIN Hosts : <<HostLines[i].name, HostLines[i].ip>> = Hosts[i]
  BY <1>1 DEF HostLines
<1>3. \A i \in DOMAIN HostLines : TrueLine(HostLines[i])
  BY <1>2, HostLinesType DEF TrueLine
<1>4. Len(HostLines) = Len(Hosts)
  BY <1>1, HostLinesType, LenProperties
<1> QED BY <1>3, <1>4

\* A line at the end changes none of those before it.
LEMMA AppendLine ==
    ASSUME NEW c \in Seq(Line), NEW line \in Line
    PROVE  /\ Append(c, line) \in Seq(Line)
           /\ Len(Append(c, line)) = Len(c) + 1
           /\ DOMAIN Append(c, line) = 1 .. Len(c) + 1
           /\ \A i \in 1 .. Len(c) : Append(c, line)[i] = c[i]
           /\ Append(c, line)[Len(c) + 1] = line
  BY AppendProperties, LenProperties

\* A true line at the end keeps the hosts first and all lines true.
LEMMA FileAppend ==
    ASSUME TypeOK, HostsFirst, CacheIsTrue, NEW line \in Line, ~missed => TrueLine(line),
           missed' = missed, file' = "hosts" => file = "hosts",
           cache' = Append(cache, line)
    PROVE  HostsFirst' /\ CacheIsTrue'
<1>1. DOMAIN cache = 1 .. Len(cache) /\ Len(cache) \in Nat /\ cache \in Seq(Line)
  BY LenProperties DEF TypeOK
<1>2. DOMAIN Hosts = 1 .. Len(Hosts) /\ Len(Hosts) \in Nat
  BY LenProperties
<1>3. HostsFirst'
  BY <1>1, <1>2, AppendLine DEF HostsFirst
<1>4. CacheIsTrue'
  BY <1>1, AppendLine DEF CacheIsTrue
<1> QED BY <1>3, <1>4

\* A purge begins with the hosts, or leaves a file that does not claim to.
LEMMA FileStart ==
    ASSUME TypeOK, HostsFirst, CacheIsTrue, NEW c \in Seq(Line),
           \A i \in DOMAIN c : i \in DOMAIN cache /\ c[i] = cache[i],
           missed' = missed, StartPurge(c)
    PROVE  HostsFirst' /\ CacheIsTrue' /\ OldIsTrue'
<1>1. DOMAIN HostLines = DOMAIN Hosts /\ Len(Hosts) \in Nat
  BY HostLinesType, LenProperties
<1>2. old' \in {c, <<>>} /\ DOMAIN <<>> = {}
  BY DEF StartPurge, PurgeFails
<1>3. OldIsTrue'
  BY <1>2 DEF CacheIsTrue, OldIsTrue
<1>4. cache' \in {HostLines, c, <<>>}
  BY DEF StartPurge, PurgeFails
<1>5. CacheIsTrue'
  BY <1>2, <1>4, HostLinesTrue DEF CacheIsTrue
<1>6. file' = "hosts" => cache' = HostLines \/ (cache' = cache /\ file = "hosts")
  BY DEF StartPurge, PurgeFails
<1>7. HostsFirst'
  BY <1>1, <1>6, HostLinesTrue DEF HostsFirst
<1> QED BY <1>3, <1>5, <1>7

\* What a response appends is true if its pair is, since a line with an empty
\* field has no time when it is read.
LEMMA WrittenTrue ==
    ASSUME TypeOK, NEW r \in Request, Pair(r)
    PROVE  TrueLine(Written(r.cname, r.ip, clock))
  BY DEF TypeOK, Pair, Request, Written, Line, Text, TrueLine
\* What a response appends is a line.
LEMMA WrittenLine ==
    ASSUME TypeOK, NEW r \in Request
    PROVE  Written(r.cname, r.ip, clock) \in Line
  BY DEF TypeOK, Request, Written, Line, Text

\* A datagram whose pair is true when its id is known keeps the file true, and
\* leaves a buffer that is.
LEMMA FileHandle ==
    ASSUME TypeOK, HostsFirst, CacheIsTrue, NEW r \in Request, dns_handle_request(r),
           ~missed /\ r.qr /\ r.cache /\ r.type # "AAA" /\ dns_list_find_by_id(r.id) # {}
           => Pair(r)
    PROVE  HostsFirst' /\ CacheIsTrue' /\ BufferTrue'
<1>1. CASE dns_list_find_by_id(r.id) = {} /\ dns_handle_new_query(r)
  <2>1. UNCHANGED <<cache, file>> /\ (missed => missed')
    BY <1>1 DEF dns_handle_new_query
  <2>2. HostsFirst' /\ CacheIsTrue'
    BY <2>1 DEF HostsFirst, CacheIsTrue
  <2>3. Looked(r) \in Request /\ Looked(r).id = r.id /\ Looked(r).type = r.type
    BY LookedType DEF Looked, Request
  <2>4. m'.id = r.id /\ m'.type = r.type
    BY <1>1, <2>3 DEF dns_handle_new_query, dns_construct_reply, dns_construct_error_reply, Request
  <2>5. CASE list' = list
    <3>1. (dns_list_find_by_id(m.id) = {})'
      BY <1>1, <2>4, <2>5 DEF dns_list_find_by_id
    <3> QED BY <2>2, <3>1 DEF BufferTrue
  <2>6. CASE list' # list
    <3>1. r.type # "MX" /\ ~Hit(r) /\ m' = Looked(r)
      BY <1>1, <2>6 DEF dns_handle_new_query
    <3>2. r.type = "A" => m'.ip = Empty \/ missed'
      BY <1>1, <3>1 DEF dns_handle_new_query, Hit, Looked, Request
    <3>3. r.type = "PTR" => m'.cname = Empty \/ m'.ip = Empty
      BY <3>1 DEF Hit, Looked, Request
    <3>4. missed' \/ m'.type = "AAA" \/ Pair(m')
      BY <2>4, <3>1, <3>2, <3>3 DEF Pair, Request, Types
    <3>5. ~missed' /\ m'.type # "AAA" => Pair(m)'
      BY <3>4 DEF Pair
    <3> QED BY <2>2, <3>5 DEF BufferTrue
  <2> QED BY <2>2, <2>5, <2>6
<1>2. ASSUME NEW ptr \in dns_list_find_by_id(r.id), r.qr, HandleResponse(r, ptr)
      PROVE  HostsFirst' /\ CacheIsTrue' /\ BufferTrue'
  <2>1. ~missed /\ r.cache /\ r.type # "AAA" => Pair(r)
    BY <1>2
  <2>2. m' = r /\ missed' = missed /\ Save(r)
    BY <1>2 DEF HandleResponse
  <2>3. BufferTrue'
    BY <2>1, <2>2 DEF BufferTrue, Pair
  <2>4. CASE cache' = cache_name_append(cache, r.cname, r.ip) /\ Cached(r)
             /\ file' = IF file = "missing" THEN "bare" ELSE file
    <3> DEFINE line == Written(r.cname, r.ip, clock)
    <3>1. cache' = Append(cache, line) /\ (file' = "hosts" => file = "hosts")
      BY <2>4 DEF cache_name_append
    <3>2. line \in Line
      BY WrittenLine
    <3>3. ~missed => TrueLine(line)
      BY <2>1, <2>4, WrittenTrue DEF Cached
    <3> HIDE DEF line
    <3> QED BY <2>2, <2>3, <3>1, <3>2, <3>3, FileAppend
  <2>5. CASE UNCHANGED <<cache, file>>
    BY <2>2, <2>3, <2>5 DEF HostsFirst, CacheIsTrue
  <2> QED BY <2>2, <2>4, <2>5 DEF Save
<1>3. CASE DuplicateQuery(r) /\ ~r.qr
  BY <1>3 DEF DuplicateQuery, HostsFirst, CacheIsTrue, BufferTrue
<1> QED BY <1>1, <1>2, <1>3 DEF dns_handle_request

-----------------------------------------------------------------------------
(* Safety. *)

\* A datagram of any kind keeps the invariant.
LEMMA SafeHandle ==
    ASSUME Safe, NEW r \in Request, r.time_pending = 0, dns_handle_request(r),
           ~missed /\ r.qr /\ r.cache /\ r.type # "AAA" /\ dns_list_find_by_id(r.id) # {}
           => Pair(r)
    PROVE  Safe'
<1>1. TypeOK'
  BY TypeHandle DEF Safe
<1>2. UniqueIds' /\ AgeBounded'
  BY ListHandle DEF Safe
<1>3. HostsFirst' /\ CacheIsTrue' /\ BufferTrue'
  BY FileHandle DEF Safe
<1>4. UNCHANGED <<freedRead, old>> /\ (missed => missed')
  BY DEF dns_handle_request, dns_handle_new_query, HandleResponse, DuplicateQuery
<1>5. FreedNotRead' /\ OldIsTrue'
  BY <1>4 DEF Safe, FreedNotRead, OldIsTrue
<1> QED BY <1>1, <1>2, <1>3, <1>5 DEF Safe

\* Name and address of a response are a pair that the name servers know.
LEMMA ResponsePair ==
    ASSUME NEW q, NEW p, NEW src, p.type = q.type, p.name = q.name,
           q.type \in Types, p.ans \in Data(q) \union {None},
           dns_decode_request(p, src).cache, dns_decode_request(p, src).type # "AAA"
    PROVE  Pair(dns_decode_request(p, src))
<1>1. p.ans # None /\ p.type \in {"A", "PTR"}
  BY DEF dns_decode_request, Types
<1>2. CASE p.type = "A"
  <2>1. Data(q) = {z[2] : z \in {y \in Zone : y[1] = q.name}}
    BY <1>2 DEF Data
  <2>2. PICK y \in Zone : y[1] = p.name /\ y[2] = p.ans
    BY <1>1, <2>1
  <2>3. y = <<y[1], y[2]>>
    BY <2>2
  <2>4. dns_decode_request(p, src).cname = p.name /\ dns_decode_request(p, src).ip = p.ans
    BY <1>1, <1>2 DEF dns_decode_request
  <2> QED BY <2>2, <2>3, <2>4 DEF Pair
<1>3. CASE p.type = "PTR"
  <2>1. Data(q) = {z[1] : z \in {y \in Zone : y[2] = q.name}}
    BY <1>3 DEF Data
  <2>2. PICK y \in Zone : y[2] = p.name /\ y[1] = p.ans
    BY <1>1, <2>1
  <2>3. y = <<y[1], y[2]>>
    BY <2>2
  <2>4. dns_decode_request(p, src).cname = p.ans /\ dns_decode_request(p, src).ip = p.name
    BY <1>1, <1>3 DEF dns_decode_request
  <2> QED BY <2>2, <2>3, <2>4 DEF Pair
<1> QED BY <1>1, <1>2, <1>3

\* Every step keeps the invariant.
LEMMA SafeStep == Safe /\ [Next]_vars => Safe'
<1> SUFFICES ASSUME Safe, [Next]_vars PROVE Safe'
  OBVIOUS
<1>0. TypeOK /\ TypeOK'
  BY TypeStep DEF Safe
<1>1. ASSUME NEW c \in Clients, NEW q \in Queries, Query(c, q) PROVE Safe'
  <2> DEFINE p == [id |-> q.id, qr |-> FALSE, rcode |-> "ok", aa |-> FALSE,
                   type |-> q.type, name |-> q.name, ans |-> None]
             r == dns_decode_request(p, c)
  <2>1. p \in [id : Ids, qr : BOOLEAN, rcode : Rcodes, aa : BOOLEAN, type : Types,
               name : Text, ans : Text \union {None}]
    BY DEF Rcodes, Text
  <2>2. r \in Request
    <3> HIDE DEF p
    <3> QED BY <1>0, <2>1, DecodeType
  <2>3. ~r.qr /\ r.time_pending = 0
    BY DEF dns_decode_request
  <2>4. dns_handle_request(r)
    BY <1>1 DEF Query
  <2> HIDE DEF r
  <2> QED BY <2>2, <2>3, <2>4, SafeHandle
<1>2. ASSUME NEW q \in relayed, Response(q) PROVE Safe'
  <2>1. PICK p : /\ p.type = q.type /\ p.name = q.name
                 /\ p.ans \in Data(q) \union {None}
                 /\ dns_decode_request(p, Server) \in Request
                 /\ dns_handle_request(dns_decode_request(p, Server))
    BY <1>0, <1>2, ResponseHandled
  <2> DEFINE r == dns_decode_request(p, Server)
  <2>2. q.type \in Types
    BY <1>0 DEF TypeOK
  <2>3. r.cache /\ r.type # "AAA" => Pair(r)
    BY <2>1, <2>2, ResponsePair
  <2>4. r.time_pending = 0
    BY DEF dns_decode_request
  <2> HIDE DEF r
  <2>5. r \in Request /\ dns_handle_request(r)
    BY <2>1 DEF r
  <2> QED BY <2>3, <2>4, <2>5, SafeHandle
<1>3. ASSUME NEW c \in Clients \union {Server}, ShortDatagram(c) PROVE Safe'
  <2> DEFINE r == Again(c)
  <2>1. r \in Request /\ dns_handle_request(r)
    BY <1>0, <1>3, ShortHandled
  <2>2. /\ r.qr = m.qr /\ r.cache = m.cache /\ r.type = m.type /\ r.id = m.id
        /\ r.cname = m.cname /\ r.ip = m.ip /\ r.time_pending = 0
    BY <1>0 DEF Again, TypeOK, Request
  <2> HIDE DEF r
  <2>3. ~missed /\ r.qr /\ r.cache /\ r.type # "AAA" /\ dns_list_find_by_id(r.id) # {}
        => Pair(r)
    BY <2>2 DEF Safe, BufferTrue, Pair
  <2> QED BY <2>1, <2>2, <2>3, SafeHandle
<1>4. CASE Timeout
  <2>1. UniqueIds' /\ AgeBounded' /\ FreedNotRead'
    BY <1>4, ListTimeout DEF Safe
  <2>2. HostsFirst' /\ CacheIsTrue' /\ OldIsTrue'
    <3>1. (StartPurge(cache) \/ UNCHANGED <<old, cache, file>>) /\ missed' = missed
      BY <1>4 DEF Timeout
    <3>2. CASE StartPurge(cache)
      BY <1>0, <3>1, <3>2, FileStart DEF Safe, TypeOK
    <3>3. CASE UNCHANGED <<old, cache, file>>
      BY <3>1, <3>3 DEF Safe, HostsFirst, CacheIsTrue, OldIsTrue
    <3> QED BY <3>1, <3>2, <3>3
  <2>3. BufferTrue'
    <3>1. m' = m /\ missed' = missed
      BY <1>4 DEF Timeout
    <3>2. ASSUME NEW s \in list' PROVE \E r \in list : r.id = s.id
      <4>1. PICK r \in list : s = Older(r)
        BY <1>4, <3>2 DEF Timeout
      <4> QED BY <1>0, <4>1, OlderType DEF TypeOK
    <3>3. (dns_list_find_by_id(m.id) # {})' => dns_list_find_by_id(m.id) # {}
      BY <3>1, <3>2 DEF dns_list_find_by_id
    <3>4. Pair(m)' <=> Pair(m)
      BY <3>1 DEF Pair
    <3> QED BY <3>1, <3>3, <3>4 DEF Safe, BufferTrue
  <2> QED BY <1>0, <2>1, <2>2, <2>3 DEF Safe
<1>5. CASE PurgeLine
  <2>1. old \in Seq(Line) /\ old # <<>>
    BY <1>0, <1>5 DEF PurgeLine, TypeOK
  <2>2. /\ Head(old) \in Line /\ Head(old) = old[1] /\ 1 \in DOMAIN old
        /\ DOMAIN old = 1 .. Len(old) /\ Len(old) \in Nat
        /\ Tail(old) \in Seq(Line) /\ Len(Tail(old)) = Len(old) - 1
        /\ \A i \in 1 .. Len(Tail(old)) : Tail(old)[i] = old[i + 1]
    BY <2>1, HeadTailProperties, LenProperties, EmptySeq
  <2>3. DOMAIN Tail(old) = 1 .. Len(old) - 1
    BY <2>2, LenProperties
  <2>4. OldIsTrue'
    BY <1>5, <2>2, <2>3 DEF PurgeLine, OldIsTrue, Safe
  <2>6. UNCHANGED <<list, m, file, missed, freedRead>>
    BY <1>5 DEF PurgeLine
  <2>5. HostsFirst' /\ CacheIsTrue'
    <3>1. CASE cache' = cache
      BY <2>6, <3>1 DEF Safe, HostsFirst, CacheIsTrue
    <3>2. CASE cache' = Append(cache, Head(old))
      <4>1. ~missed => TrueLine(Head(old))
        BY <2>2 DEF Safe, OldIsTrue
      <4> QED BY <2>2, <2>6, <3>2, <4>1, FileAppend DEF Safe
    <3> QED BY <1>5, <3>1, <3>2 DEF PurgeLine
  <2>7. UniqueIds' /\ AgeBounded' /\ FreedNotRead'
    BY <2>6 DEF Safe, UniqueIds, AgeBounded, FreedNotRead
  <2>8. BufferTrue'
    BY <2>6 DEF Safe, BufferTrue, Pair, dns_list_find_by_id
  <2> QED BY <1>0, <2>4, <2>5, <2>7, <2>8 DEF Safe
<1>6. CASE PurgeDone \/ Hangup \/ UNCHANGED vars
  <2>1. UNCHANGED <<list, m, cache, file, missed, old, freedRead>>
    BY <1>6 DEF PurgeDone, Hangup, vars
  <2>2. UniqueIds' /\ AgeBounded' /\ FreedNotRead'
    BY <2>1 DEF Safe, UniqueIds, AgeBounded, FreedNotRead
  <2>3. HostsFirst' /\ CacheIsTrue' /\ OldIsTrue'
    BY <2>1 DEF Safe, HostsFirst, CacheIsTrue, OldIsTrue
  <2>4. BufferTrue'
    BY <2>1 DEF Safe, BufferTrue, Pair, dns_list_find_by_id
  <2> QED BY <1>0, <2>2, <2>3, <2>4 DEF Safe
<1>7. CASE Restart
  <2>1. HostsFirst' /\ CacheIsTrue' /\ OldIsTrue'
    <3>1. PICK n \in 0 .. Len(cache) : StartPurge(SubSeq(cache, 1, n))
      BY <1>7 DEF Restart
    <3>2. /\ SubSeq(cache, 1, n) \in Seq(Line)
          /\ \A i \in DOMAIN SubSeq(cache, 1, n) :
                i \in DOMAIN cache /\ SubSeq(cache, 1, n)[i] = cache[i]
      BY <1>0, Prefix DEF TypeOK
    <3>3. missed' = missed
      BY <1>7 DEF Restart
    <3> QED BY <1>0, <3>1, <3>2, <3>3, FileStart DEF Safe
  <2>2. list' = {} /\ freedRead' = freedRead
    BY <1>7 DEF Restart
  <2>3. UniqueIds' /\ AgeBounded' /\ FreedNotRead'
    BY <2>2 DEF Safe, UniqueIds, AgeBounded, FreedNotRead
  <2>4. BufferTrue'
    BY <2>2 DEF BufferTrue, dns_list_find_by_id
  <2> QED BY <1>0, <2>1, <2>3, <2>4 DEF Safe
<1>8. ASSUME NEW q \in relayed, Refusal(q) PROVE Safe'
  BY <1>0, <1>8, RefusalHandled, SafeHandle
<1> QED BY <1>1, <1>2, <1>3, <1>4, <1>5, <1>6, <1>7, <1>8 DEF Next

\* The invariant holds when the proxy starts.
LEMMA SafeInit == Init => Safe
<1> SUFFICES ASSUME Init PROVE Safe
  OBVIOUS
<1>1. UniqueIds /\ AgeBounded /\ FreedNotRead /\ BufferTrue
  BY DEF Init, UniqueIds, AgeBounded, FreedNotRead, BufferTrue, dns_list_find_by_id
<1>2. /\ cache = HostLines \/ (cache = <<>> /\ DOMAIN cache = {} /\ file # "hosts")
      /\ old = <<>> /\ Len(Hosts) \in Nat /\ DOMAIN old = {}
  BY LenProperties, EmptySeq DEF Init
<1>3. HostsFirst /\ CacheIsTrue /\ OldIsTrue
  BY <1>2, HostLinesType, HostLinesTrue DEF HostsFirst, CacheIsTrue, OldIsTrue
<1> QED BY <1>1, <1>3, TypeInit DEF Safe

\* The inductive invariant holds in every reachable state.
THEOREM Inductive == Spec => []Safe
  BY SafeInit, SafeStep, PTL DEF Spec

\* The timeout loop never reads a request that it has freed.
THEOREM NoFreedRead == Spec => []FreedNotRead
<1>1. Safe => FreedNotRead
  BY DEF Safe
<1> QED BY <1>1, Inductive, PTL

\* dns_list_find_by_id never has two requests to choose from.
THEOREM IdsAreUnique == Spec => []UniqueIds
<1>1. Safe => UniqueIds
  BY DEF Safe
<1> QED BY <1>1, Inductive, PTL

\* Whole lines of the cache file are the hosts file's or were answered, if every
\* lookup had a file to read.
THEOREM CacheTrue == Spec => []CacheIsTrue
<1>1. Safe => CacheIsTrue
  BY DEF Safe
<1> QED BY <1>1, Inductive, PTL

\* In a file that a purge has begun with the hosts, these come before every answer
\* of a name server, whichever opens, renames and kills come afterwards.
THEOREM HostsWin == Spec => []HostsPrevail
<1>1. Safe => HostsPrevail
  <2> SUFFICES ASSUME Safe, file = "hosts", NEW h \in DOMAIN Hosts
               PROVE  LET j == cache_byname(cache, Hosts[h][1])
                      IN  j # 0 /\ cache[j] = HostLines[cache_byname(HostLines, Hosts[h][1])]
    BY DEF HostsPrevail
  <2> DEFINE name == Hosts[h][1]
             I == {i \in DOMAIN cache : cache[i].name = name}
             J == {i \in DOMAIN HostLines : HostLines[i].name = name}
  <2>1. DOMAIN Hosts = 1 .. Len(Hosts) /\ Len(Hosts) \in Nat /\ DOMAIN HostLines = DOMAIN Hosts
    BY LenProperties, HostLinesType
  <2>2. DOMAIN cache = 1 .. Len(cache) /\ Len(cache) \in Nat
    BY LenProperties DEF Safe, TypeOK
  <2>3. Len(cache) >= Len(Hosts) /\ \A i \in DOMAIN Hosts : cache[i] = HostLines[i]
    BY DEF Safe, HostsFirst
  <2>4. h \in J
    BY <2>1 DEF HostLines
  <2>5. J \subseteq I /\ I \in SUBSET (Nat \ {0}) /\ J \in SUBSET (Nat \ {0})
    BY <2>1, <2>2, <2>3
  <2>6. \A i \in I : i <= Len(Hosts) => i \in J
    BY <2>1, <2>2, <2>3
  <2>7. First(I) \in I /\ \A i \in I : First(I) <= i
    BY <2>4, <2>5, FirstIsLeast
  <2>8. First(J) \in J /\ \A i \in J : First(J) <= i
    BY <2>4, <2>5, FirstIsLeast
  <2>9. First(I) <= h /\ h <= Len(Hosts)
    BY <2>1, <2>4, <2>5, <2>7
  <2>10. First(I) \in J
    <3>1. First(I) \in Nat
      BY <2>5, <2>7
    <3> QED BY <2>1, <2>6, <2>7, <2>9, <3>1
  <2>11. First(I) = First(J)
    <3>1. First(I) \in Nat /\ First(J) \in Nat
      BY <2>5, <2>7, <2>8
    <3>2. First(I) <= First(J) /\ First(J) <= First(I)
      BY <2>5, <2>7, <2>8, <2>10
    <3> QED BY <3>1, <3>2
  <2>12. cache_byname(cache, name) = First(I) /\ cache_byname(HostLines, name) = First(J)
    BY DEF cache_byname
  <2>13. First(I) # 0
    BY <2>5, <2>7
  <2>14. cache[First(I)] = HostLines[First(I)]
    BY <2>1, <2>3, <2>10
  <2> QED BY <2>11, <2>12, <2>13, <2>14
<1> QED BY <1>1, Inductive, PTL

\* No request leaves the list without a datagram to its client.
THEOREM NoneDropped == Spec => LeavesAnswered
<1> DEFINE Answered ==
        kills' = kills =>
          \A r \in list :
              \/ \E s \in list' : s.id = r.id /\ s.src = r.src
              \/ \E p \in out' : p.to = r.src /\ p.of = Question(r)
<1>1. TypeOK /\ [Next]_vars => [Answered]_vars
  <2> SUFFICES ASSUME TypeOK, Next, kills' = kills, NEW r \in list
               PROVE  \/ \E s \in list' : s.id = r.id /\ s.src = r.src
                      \/ \E p \in out' : p.to = r.src /\ p.of = Question(r)
    OBVIOUS
  <2>1. CASE r \in list'
    BY <2>1
  <2>2. CASE Timeout
    <3>1. PICK n \in 1 .. MAX_NAME_SERVER :
            LET aged == {Older(q) : q \in list}
                gone == {q \in aged : TimedOut(q) \/ (Due(q) /\ AllTried(q, n))}
            IN  /\ list' = aged \ gone
                /\ \A q \in gone : Packet(q.src, dns_construct_error_reply(q), Question(q)) \in out'
      BY <2>2 DEF Timeout
    <3>2. r \in Request
      BY DEF TypeOK
    <3>3. Older(r).id = r.id /\ Older(r).src = r.src /\ Question(Older(r)) = Question(r)
      BY <3>2, OlderType
    <3>4. Older(r) \in list' \/ Packet(r.src, dns_construct_error_reply(Older(r)), Question(r)) \in out'
      BY <3>1, <3>3
    <3> QED BY <3>3, <3>4 DEF Packet
  <2>3. ASSUME NEW x, dns_handle_request(x), r \notin list'
        PROVE  \E p \in out' : p.to = r.src /\ p.of = Question(r)
    <3>1. PICK ptr \in list : HandleResponse(x, ptr)
      BY <2>3 DEF dns_handle_request, dns_handle_new_query, DuplicateQuery, dns_list_find_by_id
    <3>2. ptr = r /\ out' = {Packet(ptr.src, x, Question(ptr))}
      BY <2>3, <3>1 DEF HandleResponse
    <3> QED BY <3>2 DEF Packet
  <2>4. CASE (\E c \in Clients, q \in Queries : Query(c, q))
             \/ (\E q \in relayed : Response(q) \/ Refusal(q))
             \/ (\E c \in Clients \union {Server} : ShortDatagram(c))
    <3>1. \E x : dns_handle_request(x)
      BY <2>4 DEF Query, Response, Refusal, ShortDatagram
    <3> QED BY <2>1, <2>3, <3>1
  <2>5. CASE PurgeLine \/ PurgeDone \/ Hangup
    BY <2>5 DEF PurgeLine, PurgeDone, Hangup
  <2>6. CASE Restart
    BY <2>6 DEF Restart, TypeOK
  <2> QED BY <2>2, <2>4, <2>5, <2>6 DEF Next
<1> QED BY <1>1, TypeCorrect, PTL DEF Spec, LeavesAnswered
=============================================================================
