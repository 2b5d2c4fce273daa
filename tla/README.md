# Formal models of the DSL-G624T router software

The repository is the GPL part of the firmware of an ADSL router: a vendored
Linux 2.4 with the board's drivers, vendored user-space programs, and the
network daemons that the vendor wrote or changed.  This directory models the
daemons' own logic in TLA+, checks it with TLC on small instances and proves
its main safety properties with TLAPS for all values of the constants.

Four programs are modelled: `src/udhcp`, the DHCP server and client, which keep
the most state and have been changed the most (several interfaces, a delta file
for the configuration manager, remaining times in the lease file, a backup
address); the boot loader's environment, a log in flash that the board's kernel
code keeps (`ti_pspboot/env.c`); `src/dproxy-nexgen`, the DNS proxy; and
`src/igmp-proxy`, the multicast proxy, with the part of the kernel that it
drives.

## 1. Inventory

Paths are relative to `src/src/`.

### udhcpd, the DHCP server (`udhcp/dhcpd.c`, `serverpacket.c`, `leases.c`, `files.c`, `arpping.c`)

* State: per interface a table of `max_leases` slots (hardware address,
  address, absolute expiry, hostname), the deadline of the next write of the
  lease file, the lease file itself, the delta file.
* Operations: DISCOVER, REQUEST (three kinds), DECLINE, RELEASE, INFORM;
  timed writing of the lease file; reading it at start-up; SIGUSR1; SIGTERM.
* Interactions: clients by packets; every host of the network by ARP (a
  candidate address is pinged before it is offered); the configuration manager
  by the delta file and by restarting the daemon.
* Hard: arpping waits up to two seconds between the choice of an address and
  its reservation, and its answer itself changes the table that is being
  searched; the table may be full; slots are recycled by age; three handlers
  write to slots behind `add_lease`; the file is truncated before it is
  written, and its format loses its alignment when a field is empty; a signal
  handler gets a parameter it does not expect.
* Correct when: no address is given to two clients; what an ACK promised is
  kept until it runs out; an offered address is reserved; a declined address
  rests; a restart loses nothing that was written; every request ends.

### udhcpc, the DHCP client (`udhcp/dhcpc.c`, `clientpacket.c`, `script.c`)

* State: the DHCP state, three timers (`timeout`, `t1`, `t2`), the lease, the
  transaction id, the socket; the address that its scripts put on the
  interface.
* Operations: timeouts in each state, OFFER, ACK, NAK, SIGUSR1 (renew),
  SIGUSR2 (release), SIGTERM.
* Interactions: a server by packets that may be lost, late or repeated;
  scripts that it waits for; signal handlers that run while it waits.
* Hard: handlers change `state`, `timeout` and the socket underneath the loop;
  t1 and t2 are moved by halving in unsigned arithmetic; answers are matched
  by transaction id only, which stays the same for all renewals of a lease.
* Correct when: the address goes off the interface before its lease ends; no
  address without a lease; renewals do not become a flood; the client listens
  where its answer arrives.

### The boot environment (`kernel/linux-2.4.17_mvl21/arch/mips/mips-boards/ti_avalanche/ti_pspboot/env.c`)

* State: a flash sector with a log of blocks, each a variable, its value, and
  bits for garbage and permanent; while the log is compacted, a copy in RAM.
* Operations: get, set, unset, reading by number, compaction, called by the
  kernel, `/proc` and the upgrader.
* Interactions: flash, whose bits can only be cleared, and only a whole sector
  set again; power, which may fail between any two writes.
* Hard: a set writes a new block in four steps and then marks the old one; a
  full log is erased before it is written again; the erase or the allocation
  of the copy may fail; a block cut short has no length yet; the critical
  sections are a busy lock that its holder must not enter again.
* Correct when: it is a map whose sets are atomic; a power failure outside
  a compaction loses nothing; the walk over the log always finds its way; every
  call returns.

### dproxy, the DNS proxy (`dproxy-nexgen`)

* State: the list of outstanding requests, one message buffer, the cache file.
* Operations: a query, a response, a quiet second (timeouts, the next name
  server, purging the cache), reading the configuration again, SIGHUP.
* Interactions: clients and name servers by datagrams that are lost, late,
  repeated or too short; the hosts file; the configuration, which changes the
  name servers underneath.
* Hard: requests are found by a 16-bit id only; the one buffer keeps what the
  last datagram left in it; the timeout loop goes on with a request it may have
  freed; the purge rewrites the file line by line, and each of its calls may
  fail; a signal in `select` is taken for a datagram.
* Correct when: an answer goes to the client that asked; no request is dropped
  silently and every one ends; the cache says what a name server said; the
  hosts file prevails.

### igmp-proxy (`igmp-proxy`, and `net/ipv4/igmp.c`, `ipmr.c` of the kernel)

* State: for each downstream interface its groups with their timers and
  scheduled queries, the role in the election of the querier; in the kernel the
  memberships of each upstream socket and the forwarding cache.
* Operations: reports of both versions, leaves, queries of other routers, the
  timer of each second.
* Interactions: hosts and routers by datagrams; the kernel by `setsockopt`,
  which may fail at each call.
* Hard: three timers for each group, two for the election; a pool of queries
  that may be empty; one forwarding entry for all interfaces, deleted and
  added again; joins that the kernel counts.
* Correct when: a group with a member stays and is forwarded, one without is
  removed and pruned; the router is a member upstream while, and only while, it
  has members.

### Parts not modelled

| Part | State and operations | What is hard | Correct when |
|---|---|---|---|
| `udhcp/options.c`, `packet.c` | option lists in packets, option overload | lengths and padding | decoding gives back what was encoded |
| `upgrader` | image in memory, flash partitions, three variables of the boot environment | a power failure between two of the three sets, each of which is atomic | every intermediate state boots |
| `upnp/linux-igd` | port mappings passed on to iptables | commands that fail | rules in iptables match the list |
| kernel: `avalanche_cpmac`, `avalanche-flash` | DMA descriptor queues, flash map | the interrupt against the transmit path | no descriptor lost or used twice |

Left out for good: the LED, checksum and bridge tools (one ioctl or one pass,
no state), `cfgmgr` (delivered as a binary, only headers and two helper files
are here), and all vendored programs (busybox, uClibc, iptables, iproute2,
ppp, thttpd, dropbear and so on).

## 2. Modules

| Module | Contents |
|---|---|
| `UdhcpLeases` | The functions of `leases.c` as operators on a table: `clear_lease`, `add_lease`, `oldest_expired_lease`, `lease_expired`, the two searches, the candidates of `find_address`. No variables. |
| `Udhcpd` | The server on one interface: the specification, its properties and its inductive invariant. |
| `MCUdhcpd` | Instances for TLC: clients, packets, ARP answers. |
| `UdhcpdProofs` | Lemmas on the table and the theorems about `Udhcpd`. |
| `UdhcpdReloadProofs` | Those about declined addresses and the lease file. |
| `Udhcpc` | The client: the specification, its properties and its inductive invariant. |
| `MCUdhcpc` | Instances for TLC: lease times and packets. |
| `UdhcpcProofs` | The theorems about `Udhcpc`. |
| `Searches` | The linear search that `BootEnv` and `Dproxy` share. |
| `SearchProofs` | What it returns. |
| `EnvStore` | The abstract environment: a map that each call reads or changes at one instant. |
| `BootEnv` | The log in flash, its properties, the refinement mapping to `EnvStore` and the inductive invariants. |
| `MCBootEnv` | Instance for TLC: sizes of blocks. |
| `BootEnvProofs` | The theorems about `BootEnv`, the refinement included. |
| `BootEnvDamageProofs` | The one about what power failures leave in the log. |
| `Dproxy` | The DNS proxy with its clients, its name servers and its cache file. |
| `MCDproxy` | Instance for TLC: zone, hosts file, questions. |
| `DproxyProofs` | The theorems about `Dproxy`. |
| `IgmpProxy` | The multicast proxy with the kernel's memberships and forwarding cache. |
| `MCIgmpProxy` | Instance for TLC: where loyal hosts are. |
| `IgmpProofs` | The theorems about `IgmpProxy`. |

Operators whose comment begins with *Variant* are deliberate mistakes in an
operator next to them (an off-by-one, a forgotten check); replacing the
operator by its variant makes the property they are paired with in
`PROJECT.json` fail.  They are not part of any specification.

### Udhcpd and the code

`leases` is `server_config.leases`; an empty slot is all zeroes (`NoLease`).
A hardware address is a client (`Chaddr`), `Blank` (all zeroes) or a member of
`Junk`: a host that answers ARP but is no client, or the uninitialized bytes
that `arpping` leaves when it fails half-way.  Addresses are numbers, so that
the `.0` and `.255` that `find_address` leaves out, and the comparison in
network byte order in `read_leases`, are arithmetic.

`pc` says what the process is doing: `load` (reading the lease file, one line
per step), `idle` (in `select`), `check` (pinging the address the client asked
for), `find0` and `find1` (pinging in the two passes of `find_address`),
`down`.  A handler is one step, since the server has one thread, except that a
DISCOVER of an unknown client is one step per ping: `cur` is the packet and
`cursor` the address while `arpping` waits, and time may pass.  `delta` and
`reply` are what the last step wrote to the delta file and sent.

`grant` is a history variable.  It holds the last ACK of each client and is
cleared when the client gives the lease up: by DISCOVER (the server then cuts
the reservation down to `offer_time`), by DECLINE, by RELEASE, or by answering
ARP for another address of the pool, and when the process ends (a restart may
forget what was not yet written).  The properties compare the table with it.

`Kill` may come at any step, and in the middle of `write_leases`, when a prefix
of the file is on disk.  stdio writes whole buffers, so that the prefix may end
inside a line: `CutFile` puts a line of `TornLines` there, any reading of the
fields that are left with those of the line before in place of the others, since
`read_leases` does not look how many fields `fscanf` found.  `Restart` finds the
old clock or, after a power failure, time zero.

### Udhcpc and the code

`pc` follows the loop of `udhcpc()`: `top` (compute the time left, kept in
`sel`), `open` (open the socket), `armed` (between that and `select`),
`select`; and the places where a handler waits for a script or sleeps: `start`,
`bound` and `bound2` (the script of an ACK, before and after it has configured
the interface), `nak`, `deconfig`, `sleep`, `lost`.  What the C function does
before `run_script` is one step and what it does after it another, so that a
signal handler can come between.  Signals are not blocked anywhere, so that a handler
may also come between two statements of the loop.  Where that matters the model
has a place of its own: after `switch (state)` (`pc` is the case taken, or
`offer`), and between the writing of a state and the `change_mode` after it
(`none`, `kernel`, `raw`, `nakraw`).  `RenewInterrupted` and `ReleaseInterrupted`
are one handler interrupted by the other.  `struck` is history: a signal came at
one of these places.  `conf` is the address that the scripts have
put on the interface.  `Word` is 2^32 in the program and smaller in the
instances.

### BootEnv and the code

`log` is the sector, `pc` the place in the running call: `write` (the bytes of
a new block go out: number, length, name, value, each a `stage`), `mark` (the
garbage bit of the old block), `copy` (to RAM), `restore` (sets of what was
copied, into the erased log), `retry` (the set that had to compact starts
again), `spin` and `boot`.  `cur` is the set that writes and `waiting` the
caller of a compaction.
A permanent block is one the boot loader wrote.  `PowerFailure` leaves the log
as it is, `DefragFails` is a failing allocation or erase.

A call that meets a block with a wrong checksum ends in `spin`
(`EnterAgain`): it holds the critical section and calls `EnvMakeGarbage`, which
enters it again, and `ticfg_lock_region` waits for the flag that its own caller
has set.  Only a power failure leads out of `spin`.  `sys_unsetenv` does not look at the checksum and is the one call
that marks such a block.  After a power failure comes
`boot`: the boot loader, which has the same file without the lock
(`_STANDALONE`), reads what it likes and marks the torn blocks it meets
(`LoaderReads`, external).  The mapping to
`EnvStore` is `EnvOf`: the variable's first live block, or its copy in RAM from
the end of copying until it is written again.  A set takes effect with the mark
on the old block, or with the last byte of the value if there is none.

### Dproxy and the code

`list` is the list of requests as a set, `m` the buffer of `dns_main_loop`,
`cache` the lines of the file and `old`, with `pc` = `purge`, what a purge has
still to read.  `file` says whether the file was begun with the hosts by a purge,
is bare of them (the hosts file could not be read, or a response was appended where
there was no file), or is missing.  `FileFails` is an `fopen` or a `rename` that
fails, at each place where `cache.c` looks for it (`PurgeFails`, `Save`).
`Hangup` is SIGHUP in `select`, and `pc` = `read` the `recvfrom` that the loop then waits in.
A datagram that is too short leaves `m` as it was but for the
sender, one without a question (`Refusal`) leaves the question.  `Written` is the line as the next `fscanf` will read it.  `out` is
what the last step sent, with the question it was meant to answer, and
`relayed` what name servers may answer, at any time, again and again.

### IgmpProxy and the code

`db[n][g]` is the group's record on an interface, `free` the pool of queries,
`joined` and `mfc` the kernel's state.  A handler is one step.
`igmp_proxy_add_membership` joins the upstreams in turn and stops at the first
failure; `igmp_proxy_drop_membership` runs in the code for each group that a
tick removes, and in the model once for all groups of the tick: each group has
its own memberships and entry, so that the order does not matter.  `Loyal`
are hosts that answer every general query within `Response`; `due` counts their
time.  A query of another router is general or group specific; the handler does
not tell them apart, the hosts do (`Overheard`).  A general query of the proxy's
own may fail to be sent (`SendQueries`).  `heard`, `heard1`, `left`, `unasked`
and `failed` are history: they say what happened on the wire, and the properties
compare the timers with them.  `unasked` are the groups whose host has not been
asked as the timers suppose, since its last report: the query could not be sent,
or a group specific query of another router has put it off.

## 3. Runs

| Run | Result | Question |
|---|---|---|
| `udhcpd_lease` | holds | Two clients and hosts that answer ARP share two slots and three addresses, and a send may fail. Are promises kept (`GrantHonoured`), no address given twice (`NoDoubleGrant`), offers reserved (`ReplyReserved`) and nobody else's (`OfferNotGranted`), and do declined addresses rest (`DeclinedStaysReserved`)? |
| `udhcpd_restart` | holds | The file is written every second, the server is killed, also during the write, and started again. Is every line of the file in the table when the server begins to serve, however the reading ended (`ReloadComplete`)? |
| `udhcpd_faults` | holds | ARP errors with uninitialized owners, lines without hostname or cut short, a crash and a restart. Is the table still without duplicates (`HeldAddressesDistinct`), are promises made since kept (`GrantHonoured`), and is every DISCOVER answered or given up (`ServiceEnds`) after a bounded number of pings (`SearchAdvances`)? |
| `udhcpc_lease` | holds | An undisturbed client, any network: does the address go in time (`ConfiguredWithinLease`), is there no address without a lease (`UnboundIsDeconfigured`), are renewals apart (`RenewalsSpaced`)? |
| `udhcpc_signals` | holds | Two signals at any place, one inside the other's handler too: does a client interrupted where it waits still listen on the right socket, and a bound or renewing one after anything (`ListenMatchesState`)? |
| `udhcpc_releaserace` | violated | The udhcp README: after SIGUSR2 the client is inactive (`ReleaseIsInactive`). |
| `bootenv` | holds | A sector that fills up, one failure of power, memory or erase anywhere. Does the log implement the map (`ImplementsStore`), can it always be walked (`BlocksContiguous`), has a variable one live block (`OneLiveBlock`), is what a power failure leaves bounded (`DamageBounded`), and does a compaction end when there is room and no torn block (`SetReturnsIfRoom`)? |
| `bootenv_full` | violated | The comment on `sys_setenv`: a set that finds the environment exhausted fails (`CallsReturn`). |
| `dproxy` | holds | Late, repeated and short datagrams, refusals, a failing link and allocation, a file operation that fails, changing name servers, a SIGHUP, a kill. Is no freed request read (`FreedNotRead`), are ids unique (`UniqueIds`), does the hosts file prevail (`HostsPrevail`), is the cache true (`CacheIsTrue`), does every request leave with an answer (`LeavesAnswered`) and end, unless the loop waits in `recvfrom` (`RequestsEnd`)? |
| `dproxy_sharedid` | violated | The dproxy README: the result is passed "back to the requesting client" (`AnswersItsQuestion`). |
| `igmp` | holds | Reports, leaves and queries at any time, a pool of one query, a limit of one membership, one `setsockopt` or `sendto` that fails. Is no query lost (`QueriesConserved`), is the forwarding cache right (`ForwardingExact`), are groups kept as long as they must (`GroupKept`, `MemberKept`) and no longer (`GroupsEnd`)? |
| `igmp_upstream` | violated | The comment on `igmp_proxy_drop_membership`: without members the group is left upstream (`UpstreamFollows`). |

### The disagreements

* **SIGUSR2 while the script of an ACK runs** is overwritten: the code after
  `run_script` sets BOUND, while `timeout` is the 0x7fffffff of the handler.
* **A set in a full environment never returns.** The variable's own block
  counts as garbage (`env.c:1064`) before it is marked, so the set compacts, gains
  nothing and compacts again, erasing the sector each time.
* **An answer to another question.** A request is found by the id alone
  (`dns_list.c:30`): a repeated answer to a settled query settles a later one
  with the same id, of any client.
* **The router stays a member upstream.** The proxy joins once for each
  interface that gets a group and the kernel counts the joins; it leaves once,
  when the last interface has lost it.

Seen while modelling, without a run of their own.

* udhcpd: SIGUSR1 does not write the lease file, since `write_leases` was given a
  parameter and gets the signal's number (`dhcpd.c:159`).  A client
  without a hostname costs the leases after its own at a restart:
  `write_leases` prints three fields, and the `fscanf` of `read_leases` takes
  the next line's first one for the hostname (`files.c:416`).  A host that
  answers ARP for two addresses frees the first one, because `check_ip` enters
  conflicts under its hardware address (`leases.c:209`; `udhcpd.conf(5)`
  promises `conflict_time`).  A finite lease whose expiry equals
  `inflease_time` never expires (`leases.c:111`; the instance `udhcpd_lease`
  and the proofs include it, and no safety property depends on it).  A server that
  is started in second 0 of the clock loses the whole lease file: no slot is older than
  0, so that `add_lease` finds none and the first line ends the reading
  (`leases.c:112`, `files.c:446`).
* udhcpc: a renewal forced by SIGUSR1 that gets no answer leads to
  INIT_SELECTING without `deconfig` (`dhcpc.c:386`).  `lease * 7` overflows
  for leases above 613566756 seconds (`dhcpc.c:495`).  SIGUSR1 between the
  computation of the time left and `select` does not shorten the wait
  (`dhcpc.c:314`).  SIGUSR2 in RENEW_REQUESTED sends no release and leaves the
  interface configured (`dhcpc.c:143`).  SIGUSR1 between `state = BOUND` and
  `change_mode(LISTEN_NONE)` (`dhcpc.c:521`, `522`) leaves RENEW_REQUESTED without a
  socket: three requests go out and no answer can be heard.  SIGUSR2 between
  `switch (state)` and the writing of REQUESTING or REBINDING is
  overwritten and leaves the client deaf in that state; SIGUSR2 inside the handler
  of SIGUSR1 can leave it deaf in INIT_SELECTING, for ever.
  (`ListenMatchesState` has `~struck` for these.)
* Boot environment: after a power failure in mid-set, a set may report success
  and a get still return the value of the block that the failure left
  (`DamageBounded` says how far it goes).  A predefined variable whose value is
  the name of a dynamic one is found in its place (`env.c:546`; the theorems
  assume that there is none, `ValuesAreNoNames`).  Compaction drops the permanent
  bit (`env.c:1351`).  The comment on `GetNameAndValueFromEnvVar` (`env.c:479`)
  says that a block with a wrong checksum is marked "as garbage" and NULL
  returned; in the kernel the function takes the lock (`env.c:489`), calls `EnvMakeGarbage`
  (`517`), which takes it again (`354`), and `ticfg_lock_region`
  (`drivers/ticfg/ticfg_dev.c:71`) is a busy loop: with `CONFIG_MIPS_AVALANCHE_TICFG`,
  which the board's configurations set, the kernel stops there.
* dproxy: a short datagram that follows a late response caches an
  empty address, which is read back as the time of the line.  MX queries, and others of
  a type it does not know, are neither relayed nor answered.  A reverse
  lookup cuts the name at a hyphen, and matches an address that only begins
  like the one in the file (`cache.c:109`).  The search for duplicates in
  `cache_name_append` reads a file opened for appending and never finds one.
  The comment "data is now available" (`dproxy.c:250`) is wrong after a SIGHUP:
  the loop waits in `recvfrom`, and no request grows older and no configuration is
  read again until a datagram arrives (`RequestsEnd` has this as its alternative).
  When a call of the purge fails the hosts are not in the cache until the next purge that
  succeeds, although the proxy answers (`cache.c:171`, `178`, `215`).  Without a cache
  file a lookup leaves the address in `m` that an earlier datagram left there
  (`cache.c:39`), and a response without one may put it into the cache
  (`CacheIsTrue` has `~missed`).
* igmp-proxy: a router that is not the querier removes a group after a leave
  although it sent no query.  One query fewer is sent than
  `last_member_query_count`.  A group-specific query of another router
  restarts the election's timer as a general one does (`igmp_proxy.c:904`, `778`):
  one that comes 50 seconds or more after the last general query, and silence after it,
  let the group of a host that answers every query expire (350 seconds) before the proxy takes
  over and asks (300 seconds later).  So does a general query whose `sendto` fails,
  as the timer is restarted all the same (`igmp_proxy.c:1162`).  `MemberKept` names both as its exceptions.  A socket has at most 20 memberships
  and the proxy 128 groups (`ForwardingExact` covers what is refused).
  The branch for CHECKING_MEMBERSHIP in `igmp_router_group_timer_expired`
  is never reached.

### Bounds

* Server: two clients, and one host that is no client, are the actors that a
  conflict needs.  Pool 256..258: an address ending in `.0`, which can be had
  only by asking for it, and two ordinary ones.  `udhcpd_lease` and
  `udhcpd_faults` have two slots for these three addresses, so that the table
  is full with an address to spare, and the former `InfLease` equal to an
  expiry that occurs; `udhcpd_restart` has three, so that a line can be in the
  middle.  `MaxTime` is longer than a lease: leases of 2 in 4 seconds
  (`udhcpd_lease`), of 1 in 2 (`udhcpd_faults`, `udhcpd_restart`), where
  entries written to the file are of 0 or 1 second, some of them expired when
  they are written or read (and time may go back to zero at a restart).
  `MaxRestarts` 1: a second restart starts from a file of the same form.
  `MaxSignals` 1: the handler has no memory.
* Client: leases of 2 seconds (shorter than a round of requests), 13 (several
  halvings) and the 7 of an ACK that names none; waits of 1, 3 and 2 seconds
  for the code's 2, 10 and 5; scripts of at most one second; two signals,
  the second of which meets what the first left.
* Boot environment: one variable of each kind (permanent, read-only, dynamic),
  two values, of one and two cells, in four cells: the log fills up after a few
  sets, with and without garbage.  `MaxFaults` 1 in the runs; the proofs have
  no bound, and `DamageInv` was checked with 2 and 3.
* dproxy: three datagrams (a query, its answer, one more), one SIGHUP, one
  file operation that fails; four datagrams in `dproxy_sharedid`; two
  ids, so that one is shared; a host that the zone has under another address, a
  name with a hyphen and addresses of which one begins the other; two servers
  and `DNS_SERVER_TIMEOUT` 2 with `DNS_TIMEOUT` 5, which keeps the order of
  the code's 5, 2 and 240; one kill.
* igmp: two interfaces, two groups and two upstreams, room for two groups in
  the pool and one membership for each socket; three datagrams beside those of a loyal
  host; intervals of 4, 1 and 1 for the code's 350 (group), 300 (other querier)
  and 125 (query), which satisfy `IntervalAssumption` with nothing to spare.
* Deadlock is checked in the server's runs up to the bound on time (the
  server can always receive), and in those of igmp and the boot environment,
  where a call that spins in the lock still takes steps.  The client's runs
  switch it off: a client may exit, and at the bound on time a client in `select` can
  only wait.  So does `dproxy`: a proxy that waits in `recvfrom` after a SIGHUP
  stops when no datagram comes any more.

### Fairness

Weak fairness of steps that end by themselves:

* `udhcpd_faults`: `Load`, `Ping` and the timed write, the steps of the server's
  own thread: reading a file, a ping that returns within two seconds with
  or without answer, a write when `select` times out.  Nothing is assumed of
  clients, signals or time.
* `bootenv`, `bootenv_full`: the next step of the call that runs, and the end of the
  boot loader's work after a power failure.
* `dproxy`: the timeout of `select`, while the loop is in `select` and datagrams have
  stopped (never that of `recvfrom`, which has none), and the purge, which is a
  loop over a file.
* `igmp`: the interval timer, and the answers of loyal hosts.

## 4. Theorems

All are proved with TLAPS for every value of the constants under the `ASSUME`s
of the modules (sorts of the constants; `Start` > 0, at least one slot; waits
of at least a second).

**Server** (`UdhcpdProofs`).  `TypeCorrect`, and from the inductive invariant
`IInv`, `Inductive`:

* `GrantsAreHonoured`: what an ACK promised stays in the table.  It is not
  inductive: an entry is found by address and recycled by age, so `IInv` adds
  that the slot of a promise is the only one with its address (`GrantKept`),
  that no host and no held address is twice in the table
  (`HeldAddressesDistinct`), and that the address under ARP test is nobody's
  (`PingTarget`), which must survive both the passing of time and the conflict
  entries made on the way.  `ClockRuns` and `HostsHaveAddresses` exclude the
  empty slot where the searches would find it; `NothingPromised` and
  `DownIsEmpty` carry the argument over a restart.
* `HeldDistinct`, `RepliesAreReserved`: parts of `IInv`.
* `NoAddressTwice`, `OffersAreFree`: two promises of one address would need
  two slots with it, which `GrantKept` excludes.
* `SearchesAdvance`: the bound behind `ServiceEnds`.  A DISCOVER waits for
  `arpping` at most `2 * PoolSize + 1` times, because each answer brings the
  search forward (`PingsLeft` falls), whatever it does to the table.

The lemmas on `add_lease` carry the work: what it evicts, that it recycles
only expired slots, that it keeps the table free of duplicates, and that a
client that has a slot always finds room.  One step lemma per handler follows.

`UdhcpdReloadProofs` has what needs more than `IInv`:

* `DeclinedAddressesRest`: `IInv` keeps the addresses of hosts apart; an entry
  without a host (a declined address) escapes it, and would be evicted with an
  older entry of the same address.  `ReserveInv` (`ReserveInductive`)
  says that no address is in two slots, or on two lines of the file, whoever
  has it, and that the table being reloaded holds what the lines read say, so
  that two lines never meet in a slot.
* `ReloadLosesNothing`: the step from reading to serving, at the end of the
  file or at an `add_lease` that finds no slot, leaves an entry for every line.
  `add_lease` recycles the oldest expired slot, and
  entries may expire while the file is read; what protects them is that an
  empty slot is older than any entry and comes first.  `ReloadInv`
  says that slots fill from the front, never ahead of the lines, that
  only an empty slot has expiry 0, and that no host is on two lines; so there is an
  empty slot for every line to come, and in any second but 0 `add_lease` takes it.
  In second 0 `lease_expired` is false of an empty slot too, the first
  line ends the reading and the file is lost, which the property excludes.

Their conditions are those under which the code does it, and TLC shows what
happens without each.  `WholeLines`: a client without a hostname, or a write that a
crash cuts short, makes a line that is read out of step, and an `arpping` that fails leaves
zeros for the owner of the address, entered beside an
expired entry of the same address; when the client of that entry comes back,
the conflict goes with it.  `FileFaithful`: `read_leases` compares addresses
in network order, where the last byte weighs most (a pool across a /24 may fail
it; `SubnetIsReadable` proves that any other passes), and the file has six bytes of a hardware address, which
two hosts may share.

**Client** (`UdhcpcProofs`).  `TypeCorrect` for any packets and signals.
Under `Undisturbed` (no SIGUSR1 or SIGUSR2, scripts that return within half
the lease, 7 * lease below `Word`), from `LeaseInv`:

* `AddressGoesInTime`: `TimersRun` says that the deadline of a client that
  holds a lease is `start + t1` or `start + t2` and has not been passed, and
  that t1 <= t2 <= lease, which the halving keeps and which makes the unsigned
  differences exact.
* `NoAddressWithoutLease`: from `HeldOnly`.
* `RenewalsAreSpaced`: the threshold of `lease / 14400 + 1` leaves at least
  one second to halve.

The hypotheses are needed: a renewal by SIGUSR1 and the overflow of `lease * 7`
are what happens without them.

`ListensWhereAnswersArrive` has none of them.  Whatever signals arrive, and
between whichever two statements of a handler, a client that waits in BOUND does not
listen and one that waits in RENEWING does (`ModeInv`: between the writing of a state and
`change_mode` signals lead to few states).  In the other states it listens
where the answers arrive unless a signal struck inside a handler (`UnstruckInv`), after
which it may be deaf: `struck` remembers that.

**Boot environment** (`BootEnvProofs`).  `ShapeHolds`, of every state and so
after any number of power failures: the blocks lie in order without gaps, have
the length of what they hold, and only one cut short may claim cells beyond the
sector (`TypeCorrect`, `Contiguous`).  `IntactHolds`, before the first power
failure: all blocks but the one being written are whole, and a variable has one
live block, or the old and the new one (`OneLive`).  The hard part is the compaction:
that each copy fits into the erased log.  The copies are in the order of
their blocks, and the invariant says that the log written so far ends before
the place where the next copy's block was (`End(log) <= ram[1].at`): blocks only move
down.  `Implements` is the refinement: one lemma per action shows that it is a
step of `EnvStore` under `EnvOf`, or leaves `EnvOf` alone.  Both assume
`ValuesAreNoNames`.

`DamageDoesNotSpread` (`BootEnvDamageProofs`) is about what comes after power
failures and failed compactions: the blocks too many that count never
outnumber the faults, so no later boot, set, unset or compaction adds to them.  `DamageBounded` is not inductive, as it does not see a
torn block of a dynamic variable, whose name is not written yet: no set
finds it, and it becomes one too many only with the next set.  `DamageInv`
names a set `W` of excused blocks, no larger than the number of faults, without
which every block is found under its name and is the only one of its
variable.  A fault adds the block that was being written to `W`; a set that marks
an excused block as the old one has the new block excused in its place; the erase of a
compaction needs no excuse; a call of the kernel that reads a torn block
writes nothing more, as it spins in the lock (the boot loader has no lock and
marks the block); everything else keeps `W`.  That the surplus blocks are
then no more than `W` has members is an injection: a surplus block that is
not excused is charged to the first block of its variable, which is.
`ValuesAreNoNames` is needed here too: TLC finds a set that marks the block of
another variable.

**dproxy** (`DproxyProofs`).  `Inductive`, with `Safe`: requests are younger
than `DNS_SERVER_TIMEOUT * MAX_NAME_SERVER`, which is less than `DNS_TIMEOUT`
(`NoFreedRead`: the free in the timeout loop is never reached); a cache file that a
purge has begun with the hosts file still begins with it, also while it is purged
again (`HostsWin`; after a purge whose `rename` or one of whose `fopen`s failed, the
file is another one or none, and `file` says so); what the
buffer would append is true as long as its id is in the list (`CacheTrue`),
although its name and address may come from different datagrams, unless a lookup
has found no file and left in the buffer what was there.  `IdsAreUnique` is part of
it, `NoneDropped` an action property.

**igmp-proxy** (`IgmpProofs`).  `TypeCorrect`, and:

* `Kept`: `GroupsTimed` ties the three timers of a group to the ticks since the
  last report, version 1 report and leave, state by state.
* `MembersStay`: of a host that has missed no general query since its last report,
  because neither a group-specific query of another router put one off nor `sendto`
  failed (`unasked` has the others), `LoyalCovered` says that the group's timer covers the time
  until a loyal host must have answered: `due` if it has been asked, else `Wait`,
  the time to the next query that is certain, which is the general query timer
  of a querier and the other querier's timer plus a takeover of one that is not,
  plus `Response`.  `IntervalAssumption` is what the intervals of the code
  give for this.
* `Conserved`: `PoolWhole`, every node of the pool is on exactly one list.
* `Exact`: `ForwardingExact` is inductive with the types; the work is in the
  effects of `igmp_proxy_add_membership` at each point of failure, and of
  a tick that takes the group from some interfaces.

**Only model-checked**: the liveness properties `ServiceEnds`,
`SetReturnsIfRoom`, `RequestsEnd` and `GroupsEnd`, which are out of the
prover's reach.

## 5. Abstractions

* One interface, active.  The loop over several interfaces, in which `select`
  on one delays the others, is planned.
* Times do not wrap in the server; in the client `Minus` and `SevenEighths`
  do.
* After a line without a hostname the rest of the lease file is taken as lost,
  with at most one spurious entry; a line whose hardware address begins with a
  letter could bring the fields back into step later.
* Hostnames are empty or not.  A `Junk` address is written to the file with
  its six bytes (`JunkMac`), which may be a client's.
* The client's signal handlers run at the places where it waits, between
  the computation of the time left and `select`, between `switch (state)` and
  what its case writes, between the writing of a state and the `change_mode` after it,
  and inside each other.  A state and the timers written next to it are one
  step, and so are the opening of a socket and the storing of its descriptor; the
  deconfig script that SIGUSR2 runs inside its handler takes
  no time; a requested address of 0.0.0.0 is an absent one.
* Option encoding, packet checks, the configuration file, command lines,
  script environments, pid files and logging are not modelled: a malformed
  packet is one that is never received (server) or `ReadError` (client).
* Boot environment: aliases of a predefined variable are one key; the number of
  cells is exact, although `numCells` is an unsigned char (`env.c:254`, `1125`), since
  the buffers of the callers keep it from wrapping; the checksum
  is right exactly for whole blocks; an erase that fails leaves the log
  untouched; a set that restores a copy is not interrupted by another
  compaction (the erased log has room, which `IntactHolds` proves before the
  first power failure; after both a power failure and a failed erase the
  compaction could be entered again, where the model stops, so that
  `DamageDoesNotSpread` says nothing of what follows).  Calls do not overlap: the kernel is not preemptive and
  flash is waited for busily.  The one exception is the allocation of
  the copies in a compaction, which may sleep and let another process call; it
  is listed under the hazards.
* dproxy: the order of the list is left out, since ids in it are unique; the
  configuration file is read again as any number of name servers.  A `sendto` that fails
  is ignored by the code and counts as sent.  Opening the cache file for a lookup
  fails exactly if there is none; a line is written whole; a query has one
  question (with none, `question[0]` of the datagram before is kept, `dns_decode.c:155`).
* igmp-proxy: addresses are compared as lower or not; the pool of groups
  is a limit on their number; `igmp_proxy_stop` ends the process
  and is not modelled.

## 6. Not modelled, and plan

Not modelled and why: `PROJECT.json` has the reason for each part.  In short, the
drivers depend on hardware that the repository does not define, `cfgmgr` is
here as a binary, the small tools keep no state, and the vendored programs are
not this repository's own.

1. `DhcpSystem`: several `Udhcpc` and one `Udhcpd` over a network that loses,
   repeats and delays; no two interfaces with the same address while leases
   run; an abstract lease service as its specification, and a refinement.
2. `UdhcpdLoop`: several interfaces in one loop, `auto_time` 0 and the
   starvation that follows.
3. A second caller of the boot environment while a compaction allocates; the
   upgrader on `EnvStore`; the option lists of udhcp.
4. Proofs: every safety property of the runs has its theorem; what is left are
   those of the modules above, the refinement of the lease service first.
