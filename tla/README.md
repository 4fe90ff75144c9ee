# A TLA+ model of MLVPN

MLVPN aggregates several links into one VPN. A process reads packets from a
tuntap device, spreads them over its tunnels (UDP sockets), and on the other
side puts what arrives back in order and writes it to tuntap. This directory
models the parts whose correctness depends on the order of events, checks them
with TLC on small instances and proves the main properties with TLAPS.

## The system and its parts

A privileged parent serves the requests of a child, which runs a libev loop:
socket, tuntap, timer and signal handlers run one at a time to their end. Each
handler of the child is one action, which is the atomicity the code has; between
the two processes, and between either and its signals, every interleaving is
possible.

| part | source | state | modelled in |
|---|---|---|---|
| receive path, reorder buffer, packet pool | `mlvpn.c`, `reorder.c`, `buffer.c` | ring, window start, free and used lists, drain timer | `Reorder`, `ReorderRing`, `RecvPath` |
| link states, fallback, scripts | `mlvpn.c` | status of each tunnel, `mlvpn_status` | `Links` |
| weighted round robin | `wrr.c` | tunnels to choose from, deadlines | which tunnels: `Links`; the choice: `Wrr` |
| handshake, keepalive | `mlvpn.c` | status, timestamps | `Peers`; effect on the other tunnels: `Links` |
| send path, packet buffers | `mlvpn.c`, `buffer.c`, `tuntap_generic.c` | two circular buffers per tunnel, write watcher | `Peers`; indices of a buffer: `Tuntap`; header: `Wire` |
| loss and round trip measurement | `mlvpn.c`, `timestamp.c` | arrival vector, saved timestamp | `Wire`; results are arbitrary inputs of `Links` |
| tuntap device | `tuntap_*.c`, `mlvpn.c` | queue to the device, its watcher | `Tuntap` |
| configuration file, options, filters | `configlib.c`, `config.c`, `filters.c` | options, tunnels, filters, weights | `ConfigFile`, `ConfigList`, `Config`; effects on live tunnels: `Links`, `Reorder`, `Peers` |
| privilege separation | `privsep.c`, `privsep_fdpass.c` | state of the parent, requests and answers, signal mask | `Privsep` |
| control socket | `control.c` | the client, its buffers and watchers | `Control` |
| encryption, logging, portability | others | none that outlives a call | not modelled |

The receive path and the links meet in two places: `mlvpn_rtun_status_down` of a
connected tunnel and `mlvpn_rtun_status_up` of the first one flush the reorder
buffer (action `TunnelChange`), and a reload changes both. `Peers` looks at one
tunnel from both ends; `Links` looks at all the tunnels of one end, and takes what
`Peers` explains (authenticated, peer gone, socket error) as its events. `Config`
computes what a reload makes of options and tunnels; `Links` shows each point of
it to the round robin and the scripts. The child of `Privsep` is the process all
other modules describe, reduced to the requests it makes.

## Modules

### Reorder: what the receive side does

The abstract level. A packet is its sequence number. `held` gives the content of
each pool entry (`NoPkt` for a free one), `ring` is the set of entries that
`order_buf` points to, `minSeq` and `init` are the window, `size` the size of the
ring (0: no ring). Three history variables record what the properties speak of:
`owed` (received, not yet injected into tuntap), `last` (released last by the
ring) and `out` (what the last handler injected, and by which path).

| action | code |
|---|---|
| `RecvUnordered`, `RecvPoolFull`, `RecvOutOfRange`, `RecvNoRoom`, `RecvInsert` | the five ways through `mlvpn_rtun_recv_data`, drain and timer included |
| `DrainTimeout` | `mlvpn_rtun_reorder_drain_timeout` |
| `TunnelChange` | the flush in `mlvpn_rtun_status_down` and `_up` |
| `Reload` | a new `reorder_buffer_size` on SIGHUP, with or without a restarted tunnel |

`RecvInsert` describes the loops of `reorder.c` by their result: the window gives
up as many places as the packet needs to fit, then moves on to the first missing
packet, and releases what it passes.

### ReorderRing and RecvPath: how it does it

`ReorderRing` is `reorder.c`: two circular buffers with masked positions. A loop is
a recursive function, what the buffer is after k passes; the operator `&` of C is
the constant `BitAnd`, which TLC gets from `Bitwise` and of which the proofs assume
only what they need. `RecvPath` puts it on the free and used lists of the pool,
as sequences, because the order of a forced drain is that of the used list.
`Window` is the refinement mapping to `Reorder` and `Refines` the statement that
`RecvPath` implements it. `fatal` stands for the `fatalx` of
`mlvpn_freebuffer_free`.

### Links: the tunnels and what is derived from them

`status`, `fallbackOnly` per tunnel; `connected`, `initialized`, `fallbackMode` as
in `mlvpn_status`; `wrr` is the set of tunnels in `wrr.tunnel`. `rtunScript` and
`tuntapScript` record the last script run. `flipped` records the tunnels whose
`fallback_only` a reload changed after the last `mlvpn_rtun_wrr_reset`.

`Authenticate`, `SocketError`, `PeerGone`, `TickConnect` and `CheckHealth` are the
handlers; loss and latency are arbitrary. A reload runs to its end before any
other handler but is several actions here (`ReloadBegin`, one `ReloadSection` or
`ReloadNew` per section, one `ReloadDrop` per removed tunnel, `ReloadEnd`), so that
the properties are also checked inside it, where `mlvpn_config` takes tunnels down
with half of the new configuration read. All other handlers wait for
`reload = "idle"`. The end of the process (SIGTERM, a `fatalx` on a missing
mandatory option) ends the behaviour and is no action.

### Peers: one tunnel from both ends

A client and a server process, `alive` or not, each with one tunnel (`tun`), and
the control messages under way to each (`net`). A message in `net` can be lost,
delivered, or delivered again, in any order; a message of a type that is already
under way joins it. A sent data packet is the business of `Reorder`.

A tunnel has its two send buffers as sequences, the write watcher (`watch`), its
socket (`open`), and time as counts of runs of `mlvpn_rtun_check_timeout`:
`silent` since the last keepalive, `due` and `quiet` for the two waits of a second
(whether a second has passed between two runs a second apart is left open).

| action | code |
|---|---|
| `TuntapRead` | `mlvpn_tuntap_generic_read`, by filter or by round robin |
| `Write` | `mlvpn_rtun_write`: one `mlvpn_rtun_send` from each buffer, each sent, dropped (EAGAIN) or failed |
| `Read` | `mlvpn_rtun_read` of AUTH, AUTH_OK, KEEPALIVE, DISCONNECT |
| `CheckTimeout` | `mlvpn_rtun_check_timeout` with `mlvpn_rtun_tick_connect` and the start of the watcher |
| `SocketError`, `ReloadMoved`, `Quit` | read error; SIGHUP with an address changed or left out; SIGTERM |
| `Crash`, `Restart`, `Lose` | external |

The server learns the client's address from each valid packet; here the messages
to a former address are among those that `Lose` drops.

### Wrr, Wire, Tuntap: the way of a packet

`Wrr` is the choice of the tunnel: `tunval` as in `wrr.c`, with 100 / weight as a
whole number of `Unit`s (rounding of `double` is left out). `Wire` is the header:
the sender numbers packets, which are lost, repeated, reordered, or numbered from
0 again after a restart; the receiver keeps `seq_vect` as the set of its bits.
The two shifts that C leaves undefined (by all 64 bits, and of an `int` by 31 or
more) have several outcomes, and `undefined` records that one was met. `base` is
the number below which the vector says "received" for packets before counting
began. Timestamps are a pure algorithm: `trip` is an arbitrary round trip,
`Measured` what the code computes for it. `Tuntap` is the circular buffer of
`buffer.c` on its indices, filled by `mlvpn_rtun_inject_tuntap` and emptied by
`tuntap_io_event`; the history variable `queue` is the sequence it stands for. The
send buffers of `Peers` are such sequences.

The three share no state; `MCTraffic` composes them and explores each with the
others at rest.

### ConfigFile and Config: the configuration

`ConfigFile` is the reader of `configlib.c`, a line being a sequence of tokens
(brackets, `=`, quote, `#`, space, a word, a character that is not ASCII), one fold
per function of the code; next to it stands what a line means, without reading it
from left to right. `ConfigList` is the list it makes of a file and how values are
looked up in it. `Config` is `mlvpn_config`, over such lists: the daemon is a record, each part of
the function maps it to what it is afterwards, in the order of the code (clear,
sections in file order, tunnels that left the file, filters, weights). `Start`,
`Reload`, `ReloadFails`, `RtunStart` (which resolves and opens, so that a tunnel
has an address or not when it is dropped), `TunnelUp` and `TunnelDown` are the
actions; `d.up` is the set of connected tunnels, from which a load takes those
whose addresses differ (`SameAddresses`). An address that a section leaves out
differs from every address, because `mystr_eq` (`StrEq`) takes NULL for equal to
nothing. A missing mandatory option ends the daemon. `MCConfig` puts the two together: the lists are what the
reader makes of the text of its files.

### Privsep: parent and child

The parent's loop (`ppc`) and the child (`cpc`) in steps between the points where a
signal or the death of the other makes a difference, the two directions of the
socket pair, the status script, `SIGCHLD` pending or blocked, and dead processes
not yet waited for. A request is its command and its arguments; an answer is a
sequence of items of a kind, one per `must_write` or `send_fd`, so that a reader out
of step would be seen. `SigGotChld` can run between any two steps of the parent, in
particular between the test and the assignment of `increase_state`. The child
follows the order of `main`, then serves events, SIGHUP and SIGTERM. Either may be
killed at any time.

### Control: the control socket

One client slot, its two buffers, two watchers and the timeout. A libev watcher
has the descriptors under which it is filed (`reg`), because `ev_io_set` on an
active one, which `mlvpn_control_accept` does after an end of file, changes the
descriptor but not where it is filed. A line is a command, `quit`, or nothing; an
answer is two pieces, so that a write can be partial. Clients connect, shut down,
reset, or stay silent.

## What is checked

| run | module, config | result |
|---|---|---|
| `reorder` | `MCReorder`, `MCReorder.cfg` | `TypeOK`, `NoLoss`, `TimerCoversOwed`, `RingSound`, `InOrder`, `Delivered` hold |
| `recv_path` | `MCRecvPath`, `MCRecvPath.cfg` | `Refines`, `NeverFatal`, `PoolSound`, `ReleasedInOrder`, `HoldsForGap` hold |
| `links` | `MCLinks`, `MCLinks.cfg` | `OnlyConnectedChosen`, `HealthyLinksUsed`, `FallbackLast`, `DeviceFollowsLinks`, `ScriptsFollowLinks` hold |
| `peers_live` | `MCPeersLive`, `MCPeersLive.cfg` | `NoStaleQueue`, `WatchMeansWork`, `NothingStuck`, `PeerLossNoticed`, `Reconnects` hold |
| `privsep` | `Privsep`, `MCPrivsep.cfg` | `InStep`, `NeverRefused`, `Answered`, `ParentFollows`, `Terminates` hold |
| `control` | `Control`, `MCControl.cfg` | `AnswersInOrder`, `AnswerMoves`, `SlotFreed` hold |
| `config` | `MCConfig`, `MCConfig.cfg` | `ConfigTypeOK`, `LineMeaning`, `FiltersAlive`, `HistoryFree`, `SameFileAgain` hold |
| `traffic` | `MCTraffic`, `MCTraffic.cfg` | `NoneStarved`, `NoLossHidden`, `HeardCounted`, `RttRight`, `HoldsNewest`, `WriterHasWork` hold |
| `flushed_once` | `MCReorder`, `MCReorderOnce.cfg` | `FlushedOnce` is violated |
| `recv_any_size` | `MCRecvPath`, `MCRecvPathAnySize.cfg` | `HoldsForGap` is violated |
| `lossy_used` | `MCLinks`, `MCLinksLossy.cfg` | `LossyUsedAnyway` is violated |
| `weight_shares` | `MCTraffic`, `MCTrafficShares.cfg` | `Balanced` is violated |

What the violated ones show:

- `FlushedOnce`: a packet outside the window is injected at once, but its pool
  entry is not released (`mlvpn.c:323`), so the next forced drain injects it again.
- `HoldsForGap` with a size of 3: positions are masked with `size - 1`, so a size
  that is not a power of two makes slots coincide; a packet that follows a missing
  one is released at once. The manual invites any value.
- `LossyUsedAnyway`: `switch_to_fallback_if_necessary` takes a disconnected tunnel
  for a usable one (`mlvpn.c:1173`) and empties the round robin although a lossy
  tunnel is connected.
- `Balanced` with weights 60 and 40: a deadline of 100 / weight that loses 1 with
  every choice (`wrr.c:76`) makes the two tunnels take turns, and they share half
  and half. The manual (`mlvpn.1.ronn:24`) says that
  packets are sent according to the capacity of the link.

Where a property holds only in part, or a document and the code part ways:

- `NoneStarved` is what the round robin does give: of n tunnels each has one of
  every ceil(100 / weight) + n - 2 packets, whichever of the others are ready. Where
  the shares are in proportion depends on the numbers (50, 25 and 25 are, 60 and 40
  are not), and weights are computed over all tunnels, so a subset shares in its own
  way: of 50, 25 and 25, the first two alone split 3 to 1.
- `AnswerMoves` says that the daemon goes on with an answer while it keeps the
  client. It may still give the client up: on `quit`, on an error, and when nothing
  was read from it for the time of the timeout (`control.c:328`), however much of
  an answer is left.
- `NoLossHidden` and `HeardCounted` end at the first undefined shift. After a
  restart of the sender the vector is frozen until its numbers pass `seq_last`, and
  a late packet is ignored while `seq_last` is below 63, where `seq_last - 63` wraps
  (`mlvpn.c:278`).
- `HistoryFree` leaves out what a reload keeps on purpose or by omission: addresses
  the new file does not give, the timeout and mode of a tunnel that exists, its
  weight, `ip4`, `mtu` (0 keeps the old one), the ring, and all options of
  `[general]` if it has no such section. `SameFileAgain` says that none of it moves
  by itself.
- By `SameFileAgain` a reload of the same file disconnects exactly the tunnels whose
  section leaves out `bindhost`, `bindport`, `remotehost` or `remoteport`
  (`config.c:361`, `tool.c:33`). `getting_started.rst:118` says that every
  established link is disconnected and reconnected.
- A failed reload leaves the filters and `fallback_available` cleared
  (`config.c:63`); a successful one restores them.
- A reload that changes `fallback_only` of a connected tunnel does not rebuild the
  round robin (`config.c:388`); the properties of `Links` leave such tunnels
  (`flipped`) out until the next reset.
- Dropping a tunnel whose address was never resolved sends through a NULL
  `addrinfo` (`mlvpn.c:585`); `Config` takes it for the end of the daemon.
- A reload to `reorder_buffer_size = 0` keeps the ring in use (`config.c:174`); the
  manual (`mlvpn.conf.5.ronn:85`) says 0 disables the reordering.
- A reload that changes an address leaves the socket open, and
  `mlvpn_rtun_tick_connect` resolves only without one (`mlvpn.c:1121`): the tunnel
  reconnects to the old address, where `getting_started.rst:118` speaks of links
  disconnected and reconnected.
- A fallback tunnel that becomes lossy while the normal ones are down leaves the
  round robin (`mlvpn.c:1173`), unlike `mlvpn.h:151`.
- Every packet is sent with `reorder = 1` (`mlvpn.c:525`); the comment at
  `tuntap_generic.c:13` says that filtered ones are not reordered.
- "Kill me if my root process dies !" (`mlvpn.c:1534`) is a single test at start-up;
  later only a request to the dead parent ends the child.
- In a control client's input everything read together with its first line is
  dropped (`control.c:505`), and "nothing to write. THIS IS A BUG" (`control.c:581`)
  is reached, without harm, when a client follows one that ended by end of file.
- Brackets anywhere in a line, a value included, make it a section, and a last line
  without a newline is not read (`configlib.c`).

### Bounds

- `MCReorder`: three pool entries and sizes 1 and 2, so that the pool runs out
  while the ring holds packets; 16 sequence numbers, of which the one below the
  wrap and three above it arrive, in any order and any number of times, so that
  every offset class (in the window, just beyond, far beyond, behind) occurs across
  the wrap. The history is finite, so no step is bounded.
- `MCRecvPath`: four entries and sizes 1 and 4. A ring of 4 is the smallest in
  which a forced move skips a gap and then moves several packets to `ready_buf`.
  Of 32 numbers 29, 1, 2, 3 and 4 arrive: after 29 the window starts three places
  before 1, across the wrap, so a later packet makes it give up one, two or three
  places, and three packets and a fourth fill `ready_buf` to its last place.
  `UpToRenaming` (a VIEW) identifies states that differ in which entry holds a
  packet, and ignores the dead slots of the empty `ready_buf`.
- `MCLinks`: two client tunnels and one server, all possible configurations on
  every reload; the clients are symmetric. The properties relate at most two
  tunnels, and a third gives a bystander.
- `MCPeersLive`: two packets in each buffer, so that either can overflow and either
  can stop the watcher of the other; the least timeout that `config.c` allows; user
  traffic and reloads that take the tunnel down at the client only, as the buffers of
  the two ends do not interact; two faults of any kind at any time (`MaxFaults`), a
  loss, a duplicate, an error, a full buffer, a reload, a crash, which leave the two
  ends in every combination of states that two of them can produce. The proofs of
  `NoStaleQueue` and `WatchMeansWork` bound neither sizes nor faults.
- `MCPrivsep`: answers of up to two addresses (`MaxAddrs`): none, one, several.
  Requests and signals are not bounded.
- `MCControl`: two clients, so that one can follow, or find the slot taken by, the
  other; two commands per connection (`MaxLines`), the second answered while pieces
  of the first wait; a timeout of two.
- `MCConfig`: all lines of up to five of eight tokens, and any sequence of reloads
  of nine files that differ in the order of sections, mode, tunnels, fallback,
  addresses (all, or only those that are mandatory), bandwidth and filters, among
  them two without a mandatory option, one without `[general]` and an empty one; at most two filters (`MaxFilters`), so that
  the limit is met.
- `MCTraffic`: six sets of weights of two to four tunnels, equal and not (60 and 40,
  30 and 70, 90 and 10, 50, 30 and 20, 10, 20 and 70, 40, 30, 20 and 10), and the
  weights of 1 that tunnels without a bandwidth have; any of them ready; twelve
  choices of a tunnel (`MaxChosen`), several rounds of each; a vector of 4 bits and
  an `int` of 3 with numbers up to 7 (`MaxSeq`), past the width, and two packets
  under way (`MaxFlight`); a clock of 16 values and all round trips on it; a buffer
  of three packets, whose four slots wrap.

### Fairness

`reorder` assumes weak fairness of the drain timeout: libev fires a timer that
stays active. Each stored packet restarts the timer (`ev_timer_again`), so `Delivered`
speaks of behaviours in which arrivals pause at last. Without a pause a packet
behind a gap waits until the window fills.

`peers_live` assumes weak fairness of writing to a socket that can be written and
of reading what has arrived, and strong fairness of the one second timer: libev
starves no watcher, and traffic does not stop the clock. `Settled` and `turn` say
that control messages arrive within the second and that both clocks run at the
same speed; without that a timeout of two seconds says nothing about the peer.
A crashed process may or may not be restarted.

`privsep` assumes that each process goes on with what it has begun (weak fairness
of its steps), that a pending and unblocked signal is delivered, that scripts end,
and, with strong fairness, that the child's loop comes to a pending TERM and a
handler ends after finitely many tunnels. Nothing forces signals, requests or
deaths to happen.

`control` assumes that the one second timer fires and that a filed write watcher is
called. Clients are not fair: `SlotFreed` speaks of clients that do not send for
ever.

## What is proved

The theorems hold for all values of the constants that satisfy the assumptions
below. Each invariant rests on an inductive one, named here, with the reason it is
needed.

### The receive path

`ReorderProofs`, for all pools, sizes, number spaces at least eight times the
largest size, and all arrivals:

- `TypeCorrect`, `NothingLost`, `WaitIsTimed`, `RingIsSound`: `TypeOK`, `NoLoss`,
  `TimerCoversOwed`, `RingSound` are invariants;
- `OrderedRelease`: `InOrder`, the ring releases packets in order.

The inductive invariant is their conjunction with `LastSound`: `minSeq` is
between 1 and `2 * size` places after `last`, while `last` is known, and exactly 1
unless a packet waits that keeps the sum below that bound. Without it nothing
connects what was released before to what will be. `RingSound` is needed
for `NoLoss`: a released entry must hold the packet that is counted as injected.

`RecvPathTheorems`, for the code with its rings, masks, loops and lists, and for
every size, a power of two or not:

- `FreeFindsItsEntry` (`NeverFatal`): `mlvpn_freebuffer_free` finds what it is given;
- `PoolStaysSound` (`PoolSound`): the lists share out the pool, `ready_buf` is empty
  between two handlers.

The inductive invariant `IInv` says that the two lists split the pool (`Split`) and
that `order_buf` points to used entries, to each at most once (`RingOK`). Inside a
handler `ready_buf` takes part too: its head and tail run through a cycle of `Turn`
places, which for a size like 6 is shorter than the buffer. What a loop preserves
is shown for one pass and carried over all of them by `LoopInvariant`; `Pigeonhole`
shows that the array of drained packets is large enough.

The argument has two halves that meet in `RingFacts`, a module of definitions only:
19 facts about `Insert`, `Drain` and the lists of the pool, in terms of the buffers
alone. `RingProofs` proves them (`RingsBehave`); `RecvPathProofs` proves, under the
hypothesis `RingFacts`, what the handlers preserve; `RecvPathTheorems` puts the two
together, and its theorems have no such hypothesis.

The same module, for sizes that are powers of two (`PowersOfTwo`: the mask is the
remainder), without which `recv_any_size` shows the statements to be false:

- `ImplementsWindow` (`Refines`): `RecvPath` implements `Reorder`;
- `WaitsForGap` (`HoldsForGap`): nothing behind a missing packet is released for a
  packet that fits in the window;
- `DrainsInOrder` (`ReleasedInOrder`): a drain injects in ascending order, after
  everything released before;
- `RingsLoseNothing`: `NoLoss` and `TimerCoversOwed` of `Reorder` hold here.

The inductive invariant `RInv` adds to `IInv` that `pkt` gives a packet to exactly
the used entries (`Holds`) and that each entry of `order_buf` is as many places
after the head as its packet is after `min` (`PlacedIn`, `SlotsOK`), the head itself
being empty. The loops need more: after k passes of `fill_overflow` (`FillAt`) or of
`drain` (`DrainAt`) the head has moved a places, `order_buf` holds exactly the
entries from there on, and `ready_buf` or the output holds the others in ascending
order without a hole (`LineOK`). At the end of the loops these give `IsInserted` and
`IsDrained`, which speak of sets of packets and distances as `Reorder` does. Each of
the actions is then a step of `Reorder` (`StepRefines`). For the last two theorems
the invariant of `ReorderProofs` is carried over through the mapping
(`WindowProofs`).

### The other parts

`LinksProofs`, for every finite set of tunnel names: `TypeCorrect`,
`ChosenIsConnected` (`OnlyConnectedChosen`), `HealthyFirst` (`HealthyLinksUsed`),
`FallbackIsLast` (`FallbackLast`), `DeviceTellsTruth` (`DeviceFollowsLinks`) and
`ScriptsTellTruth` (`ScriptsFollowLinks`).

The inductive invariant adds that a name without a tunnel is `DISCONNECTED`.
Lemmas say what `StatusUp`, `StatusDown` and `Switch` establish; each action of
`Next` is one of these and some bookkeeping.

`TunnelProofs`, of `Peers`, for all capacities and timeouts: `TypeCorrect`, `NothingStale`
(`NoStaleQueue`) and `WatcherWorks` (`WatchMeansWork`). The inductive invariant is
their conjunction, a predicate `Good` of one tunnel: each helper that computes a
new tunnel (send, status up and down, keepalive, challenge) has a lemma that it
preserves `Good`, and each action applies one or two helpers to one tunnel.

`TunnelProofs`, of `Config`, for all sets of files with any sections, names and
values, any number of filters there is room for and any sequence of loads, failed
ones included:

- `ConfigTypeCorrect` (`ConfigTypeOK`): timeouts, tolerances and the number of filters
  stay within their bounds;
- `FiltersStayAlive` (`FiltersAlive`): no filter outlives its tunnel;
- `ConfigForgets` (`HistoryFree`): what a load leaves is what a start with the same file
  leaves;
- `ReloadIsIdle` (`SameFileAgain`): loading the file in use changes no option and
  nothing of a tunnel but its status, and disconnects exactly the tunnels whose
  section leaves an address out.

The inductive invariant `ConfigInv` says that a daemon that is alive has the tunnels
of its file and no others, that options and tunnels are as the sections read
(`Settled`), that the tolerances are those of a start (`LossesOf`: they depend on
whether `[general]` came before the section) and that the weights are up to date
(`Weighted`). A failed load keeps all of this and loses the filters and the fallback,
which is why they are said of daemons without one only (`Whole`). `Settled` and
`Weighted` are needed for `ReloadIsIdle`: nothing is set to another value only if it
has the file's value now. It is also why a tunnel stays connected: its addresses are
those of the section, where the section gives them (`AddressesIs`); `UpAfter` follows
the status from section to section.

The step is `Along`: a load from any daemon and one from none, side by side. Both
meet the same sections; after each line they agree on the locals, on the fallback and
on all tunnels whose sections have come, and both are alive or neither is. The loops
over the lines and over the filters are recursive functions; `LoopExists` shows that
they are the sequence of their passes, and `EveryPass` carries a property from pass to
pass. Where the mode needs an address that the file does not give, both end; a dropped
tunnel without an address ends only the one that has it, which is why the statements
are about living daemons.

`PrivsepProofs`, for answers with any number of addresses: `InStepAlways` (`InStep`)
and `NeverRefusedAlways` (`NeverRefused`). The inductive invariant describes what is
under way between two living processes (`Talking`): either the commands without an
answer that the child has run ahead of and the items of its request sent so far
(`Asking`), or a request being served (`Served`), or an answer partly written and
partly read, which together are the answer the child waits for. Of a child whose
parent is dead it says that what is left is a beginning of that answer (`Orphan`).
`SET_RUNNING_STATE` and `RELOAD_RESOLVER`, which have no answer, are the hard part:
the parent may be two commands behind, and its state is still the old one.

`DaemonProofs`, of `Control`, for all sets of connections, timeouts and numbers of commands:
`TypeCorrect`, `OwnAnswers` (`AnswersInOrder`) and `NoAnswerStuck` (`AnswerMoves`). The
inductive invariant adds `Fresh`, a connection that has not been accepted has
been asked and sent nothing, and `Serving`, what is known of the watchers, the
connection and the unfinished line while there is a client, and that an HTTP client
whose command was parsed is to be closed after the write. An active watcher is filed
somewhere (`Watcher`): that is what keeps an answer moving for a client that follows
one whose watcher was left active. The sequence lemmas
(one more answer at the end, pieces that move from `wbuf` to the client) carry the
argument.

`DaemonProofs`, of `MCTraffic`, for all weights, widths of the vector and of the clock, numbers of
packets and sizes of the buffer: `TrafficTypeCorrect`, `LossIsSeen` (`NoLossHidden`),
`ArrivalIsSeen` (`HeardCounted`), `RttIsUnderWay` (`RttRight`), `BufferIsQueue`
(`HoldsNewest`) and `WriterWorks` (`WriterHasWork`). For the vector the invariant adds
that nothing heard is newer than `seqLast`, so that a shift moves every bit to where
the property looks for it. `RttRight` is arithmetic: `ClockAtEnd` says where the
wrapped clock stands when the answer comes, the reserved value having cost one or
not. For the buffer the remainders are replaced by case distinctions (`Place`,
`Way`); `Lies` says that the queue lies between the indices in these terms, and is
shown to be equivalent to `HoldsNewest`.

### Assumptions, and what is only model-checked

The assumptions are those named in the modules: sizes, widths and timeouts are
numbers (positive where the code allocates or divides by them), the special values
are not members of the sets they stand beside, and the number space is large
against the window, as 64 bits are. `PoolAssumption`: the entries of the pool are
distinct and no more than the array of a drain holds, 512 and 1024 in the code.
`AndAssumption`: masking with `size - 1` gives a position of the buffer, and a head
that starts at 0 goes round; TLC evaluates it with the real `&` for the sizes of both
configurations of `MCRecvPath`, and `MaskIsModulo` that `PowersOfTwo` holds of exactly
the powers of two among them.

Only model-checked:

- the liveness properties (`Delivered`, `NothingStuck`, `PeerLossNoticed`,
  `Reconnects`, `Answered`, `ParentFollows`, `Terminates`, `SlotFreed`): the prover
  does not do fairness;
- `LineMeaning`: what the reader computes character by character, against a
  definition with sets of positions, needs induction over the line for every operator
  on either side;
- `NoneStarved`: for the two to four tunnels of the run; no inductive argument was
  found, and nothing is claimed for more tunnels, where the term n - 2 may be too
  small.

## Not modelled

- `crypto.c` wraps libsodium; a packet that does not decrypt is dropped like a lost
  one. `log.c`, `vis.c`, `setproctitle.c`, `systemd.c`, `strlcpy.c`, `strlcat.c`
  and `closefrom.c` have no protocol state.
- The parent of `privsep.c` ends when an argument is longer than its buffer, or
  empty where that is not allowed (an over-long `statuscommand` at line 304, and likewise for the other
  requests). Arguments have no length in `Privsep`: `NeverRefused` is about the
  requests and their order.
- Opening a device (`tuntap_linux.c`, `tuntap_bsd.c`, `tuntap_darwin.c`) is a sequence
  of system calls; its result is an input of `Privsep`.
- Smoothing of round trip times, the period of the drain timer that follows from it
  (`mlvpn_rtun_adjust_reorder_timeout`) and bandwidth counters are floating point
  arithmetic; what depends on them takes any outcome.
- Texts: log messages, the answers of the control socket and the growth of their
  buffer (`control.c:554`), command lines, the process title. A failing `fcntl` in
  `mlvpn_control_accept` is left out.
- The writer of `configlib.c` and accessors nothing calls.
- A dropped tunnel keeps its memory and its socket (`mlvpn_rtun_drop`); leaks are not
  counted.
- Matching of filters is libpcap's; `Peers` lets any packet match.
