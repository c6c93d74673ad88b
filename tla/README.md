# Formal verification of android-awdl

This directory holds TLA+ models of the AWDL daemon in `src/jni/src` (an Android
port of OWL, with the prefix `apple_p2p`), the TLC configurations that check
them, and theorems about them with TLAPS proofs.

The daemon lets a device take part in an ad-hoc network of Apple devices. Nodes
announce themselves in action frames, elect a master by rank, follow it in a
sync tree, hop through a sequence of sixteen time slots, and send each other's
data frames in the slots in which the receiver listens.

## 1. The system

One process, one thread: a libev loop (`main.c:155`) runs callbacks one after
the other. No callback is interrupted; which of those that are due runs next,
and how late a timer is, is open. There are no tests. Assertions are compiled in.

| component | state | operations | talks to |
|---|---|---|---|
| election (`election.c`) | root, parent, height and rank of the node's tree | `init`, `run`, `is_sync_master` | reads the peer table; read by frame building and synchronisation |
| peer table (`peers.c`) | per peer: last update, election state, channel sequence, what has been told so far, `is_valid` | `add`, `get`, `remove` by age, iterate | filled by the receive path, emptied by the cleanup timer, calls back into netlink |
| hash map (`hashmap.c`) | slots, size | `put` (grows), `get`, iterate | under the peer table |
| receive path (`rx.c`, `radiotap.c`) | none of its own | radiotap header; action frame: signal filter, peer, TLVs; data frame: header check, to the host | peer table, synchronisation, host interface |
| synchronisation (`sync.c`) | last update, counter of availability windows | slot and time to the next slot, error, update from the master's frames | read by schedule and channel timers |
| schedule (`schedule.c`) | none | when a frame may be sent | transmit path |
| transmit path (`core.c`) | `next` (one unicast frame), multicast queue, two one-shot timers | read the host interface, send unicast, send multicast | host interface, queue, schedule, radio |
| circular buffer (`circular_buffer.c`) | `buffer`, `head`, `tail`, `full` | `put`, `put2`, `get`/peek, `reset` | multicast queue |
| action timers (`core.c`) | three timers | send PSF, send MIF, switch channel | frame building, synchronisation |
| cleanup timer (`core.c:303`) | repeating timer | drop old peers, then elect | peer table, election |
| frame building (`tx.c`, `response.c`, `frame.c`, `wire.c`) | sequence numbers | TLVs, headers, checked reads and writes | everything that sends or parses |
| netlink (`netutils.c`, over libnl) | two sockets that block, with their numbering | link, monitor mode, channel, neighbours | kernel; called by start-up, channel timer and peer table |
| start-up and devices (`main.c`, `io.c`) | descriptors, address | take over the device, open it and the host interface; read, write | netlink, libpcap, kernel |

Components share state only through `struct daemon_state` and call each other
directly. The hard parts are: callbacks that arm, finish and feed each other
(transmit path); timers that fire late against slots with guards; announcements
that are lost and go stale while elections run on them; daemons that restart
with empty tables; unsigned, 16-bit and 32-bit arithmetic on clocks and heights;
calls into the kernel whose failure nobody notices, and whose answers then come
out of step; and a device that is taken over in whatever state it is found.

What makes each component correct:

- election: the result depends on the table only, not on the order in which it
  is walked, and follows the best eligible peer;
- network: ranks are true, nobody follows itself, a parent is a valid peer, a
  stable network agrees on a master that is there;
- peer table: silent peers go, others stay, and the kernel's neighbours are the
  valid peers;
- transmit path: no frame is lost, duplicated, overtaken, sent outside its
  window, or left waiting without a timer, and every frame leaves in the end;
- circular buffer: a bounded first-in first-out queue;
- hash map: a finite map, with an iterator that yields every key once; the count
  of entries is their number;
- synchronisation: a clock lags behind the one it was taken from by no more than
  delays and rounding, whatever wraps; MIFs are due in the middle of a window;
  adjustments are noticed;
- receive path: what `tx.c` writes is what `rx.c` stores, the election sees no
  mixture of two frames, and the host gets all frames of an A-MSDU or none;
- netlink: no request waits for an answer that never comes;
- start-up: the event loop runs only on a device that is ready, however often the
  daemon was killed before, and whatever failed without being noticed.

`PROJECT.json` lists the hazards at their lines with the properties that cover
them.

## 2. Modules

| module | models | composed with |
|---|---|---|
| `Election` | operators: comparison, checks, adoption, outcome of a run (pure) | |
| `ElectionRun` | one run of `apple_p2p_election_run`, a peer per step, in any order | `Election` |
| `AwdlNet` | a network of nodes that run this code, and foreign devices | `Election` |
| `AwdlNetRounds` | the same network when radio and timers behave | `AwdlNet` |
| `BoundedQueue` | what `circular_buffer.h` promises | |
| `CircularBuffer` | head, tail and full flag; refines `BoundedQueue` | `BoundedQueue` |
| `TxPath` | the transmit path of one node | `BoundedQueue` (its multicast queue) |
| `PeerTable` | the peer table of one node, the clock, the kernel's neighbours | |
| `FiniteMap` | what `hashmap.h` promises | |
| `HashMap` | probe chains, growth, removal, iterator; refines `FiniteMap` | `FiniteMap` |
| `Sync` | the synchronised clocks of several nodes, MIF and channel timers | |
| `Frames` | the layout of frames, TLVs and service responses, and checked reads (pure) | |
| `Radiotap` | the header in front of a frame, and its parser (pure) | `Frames` |
| `Reception` | `apple_p2p_rx` of one node, from the radio to table, clock and host | `Frames`, `Radiotap` |
| `Netlink` | one request at a time over two sockets, libnl's numbering, the kernel | |
| `Startup` | the daemon from `main` to its loop, what the loop asks of the kernel, kills and starts | `Netlink` |
| `ElectionProofs` | theorems about the operators, a run, and the network | `ElectionRun`, `AwdlNet` |
| `ReceptionInvariant` | the invariant of `Reception` and the claims about its loops, without proofs | `Reception` |
| `SyncProofs`, `PeerTableProofs`, `HashMapProofs`, `TxPathProofs`, `CircularBufferProofs`, `StartupProofs`, `ReceptionProofs` | theorems | the module of the name |
| `MC...` | values of constants for TLC | |

The layers meet as follows. `ElectionRun` shows, by TLC and by proof, that a run
of the loop ends in an element of `Election!Outcomes`, and that there is only
one; `AwdlNet` then takes the whole cleanup callback as one step that uses
`Outcomes`. `CircularBuffer` implements `BoundedQueue`, and `TxPath` uses
`BoundedQueue!PushedAll` for its queue: what a loop of `circular_buf_put` leaves,
as the lemma `PushedOneByOne` of `CircularBufferProofs` says. So what a full queue
would do is part of the model and "never overwritten" is something to check. `PeerTable`
takes the map as a function, which `HashMap` implements, its failing put included:
`NoMemory` may lose any of the other peers, as `FiniteMap!PutFails` does.

Some modules contain operators whose comment begins with "Fault:". They are no
part of any specification. Each is a plausible mistake in the operator it stands
in front of, and `PROJECT.json` says which property notices when it takes that
operator's place; this shows that the properties depend on the code being as it
is.

### How state and actions correspond to the code

- `ElectionRun`: `master_state` is the pointer of that name, given as the
  address of what it points to; `todo` is what the iterator still has to yield.
  Actions: `Start` (lines 50-55 of `election.c`), `Visit` (one turn of the
  loop), `Adopt` (87-93), `Again` (the next cleanup). The node arrives with what
  an earlier run left in `state`.
- `AwdlNet`: `election[n]` and `peers[n]` are the daemon's structures;
  `up`, `on` and `counter` are the world. `Announce` is the sending of an action
  frame together with `apple_p2p_rx_action` at every node that hears it: any
  subset. `CleanPeers` is the whole of `apple_p2p_clean_peers`. A frame in flight
  has no state of its own, because a frame that arrives later than it was built
  is at most one radio transmission old; staleness comes from the tables.
  Ages are counted in clean intervals. Nodes running this code have their
  initial counter for ever (nothing in the code raises `self_counter`), but may
  differ in `Metric`; in the shipped program it is 60 for all, which is one of
  the values.
- `PeerTable`: `table[p]` keeps of an entry what decides its fate: last update,
  whether version and device class are both known (`described`), `sent_mif` and
  `is_valid`. `kernel` is the neighbour table. The history variables `desynced` and
  `orphans` hold the peers whose last netlink request failed, and the valid ones that
  a failed rehash (`hashmap.c:126`) took out of the table without a callback, until a
  request about them is made again. `RxAction` is the whole handler,
  both calls of `apple_p2p_peer_add` included, with frames that are malformed
  before or after their version TLV. `CleanPeers` computes the cutoff in
  unsigned arithmetic. `Clock` reproduces the widths: `tv_sec * 1000000` as a
  long of `LongRange` values, whose overflow may wrap (and extend the sign) or
  not (`wraps`), as the behaviour is undefined.
- `TxPath`: `next`, `mcast`, `ucTimer`, `mcTimer`, `fed` are `state->next`,
  `tx_queue_multicast`, the two timers and the pending event of `read_host`.
  `host`, `sent` and `gone` are the interface, the radio and the drops.
  Callbacks call each other, so each is an operator from state to state, and the
  actions `HostDeviceReady`, `UnicastTimer` and `MulticastTimer` apply them.
  Both sync offsets and the sequence of the node itself are constant in the code
  (`peers.c:53`, `state.c:41`), so `meets[p]` is the set of slots in which peer
  `p` is on the node's channel. `Resync` moves the clock anywhere, which covers
  every value `apple_p2p_sync_update_last` can compute.
- `CircularBuffer`: one variable per field and one action per function; `ret`
  is what the last call returned. `Contents` is the refinement mapping.
- `HashMap`: `slots`, `tableSize`, `size` are the fields of the map, `it` the
  index of the iterator. `hashmap_put` and `hashmap_rehash` call each other
  recursively; as every level only puts one entry after another, the recursion is
  the list `pending`: `Grow` puts the entries of the old table in front of it,
  `Place` takes one off, `GrowFails` is the failing allocation, at which all
  levels return and what was pending is lost (`hashmap.c:126`). `FiniteMap` says
  so: a put that runs out of memory may take other entries with it. The table of
  the abstract map shows a put with its last step.
- `Sync`: one variable per field of `struct apple_p2p_sync_state`, per node;
  `now[n]` is its local clock. `Announcement` computes the parameters as `tx.c`
  does, `Receive` is `apple_p2p_handle_sync_params_tlv` and
  `apple_p2p_sync_update_last`, and frames take up to `MaxDelay`. Elections are
  left open: any node may become the parent of any other at any time. Counter,
  `unsigned long` and `uint64_t` wrap at `AwRange`, `LongRange`, `WordRange`.
  `syncs` counts all adjustments, for the bound. `free`, `origin`, `hops`, `shifted`
  are history variables: what the clock of a node would show had it never been moved, whose such clock a node follows, and
  whether it moved since its MIF timer was set. All nodes' clocks run equally
  fast. An adjustment by less than the threshold may be counted as an error when
  only one side's window counter has wrapped; this goes into the statistics only.
- `Reception`: one step is one call of `apple_p2p_receive_frame`, with everything
  it calls; `Return` is the return to the event loop. A byte is a triple: the
  field, the version of the sender's state, and its place in the field, or a
  number where the receiver computes with it; so that a field read at a wrong
  offset, or from another announcement, is seen as such. Frames come from this
  implementation (`ActionBody`, from `tx.c`) and from two other makes; they may
  be cut or carry a checksum. `Radiotap` walks the words of the radiotap header
  bit by bit as `ieee80211_radiotap_iterator_next` does, with padding, further
  words, namespaces and fields that are not known; `Headers` are layouts that
  radios make, at several signals, and `SentTap` is the daemon's own. `flags`,
  `rssi` and `next_ns_data` are not initialised (`rx.c:451`): `Held` is what they
  may hold. A delivery always has `EtherMaxLen` bytes as in the code, of
  which those not written are whatever memory held. `follows` is open: any
  election may have made the peer our parent or not.
- `Netlink`: `call` is the request in progress, `sock[s]` the fields of `struct
  nl_sock` that count, with the answers that wait in the kernel. `Send` is
  `nl_complete_msg` and `nl_send`; the kernel carries a request out, and answers
  it, within the system call. `Receive` is one turn of `recvmsgs`: an answer with
  another number than expected is dropped and is an error. `BuildFails`,
  `SendFails`, `ReceiveFails` and the kernel's refusals are the failures, at most
  `MaxFailures` between two starts. A request that failed to be sent has used its
  number up; one whose answer was not read leaves the answer behind: from then on
  the numbers are out of step for ever, and every later request fails after it has
  been carried out. Some callers release pointers that they have not set when the
  first allocation fails (`netutils.c:138`): such a call may return or crash.
- `Startup`: `at` is where the daemon is, mostly the call it has made; `io` is
  `struct io_state`. `LinkUpdown` is `link_updown`, two requests; `Started` is the
  assertion in `ev_io_start`. In the loop, `SwitchChannel` and `Neighbor` are what
  the channel timer and the peer table ask for; everything else the loop does is
  in other modules. `Restart` may come at any time: the device keeps what has been
  done to it, the host interface and its neighbours go with the process.

## 3. Runs

| run | instance | checks |
|---|---|---|
| `election` | 3 peers on both sides of the node's address; ranks below, equal, above; heights 0, 1, limit, 2^32-1 (scaled) | `TypeOK`, `CandidateIsBest`, `ResultIsTheOutcome` |
| `net` | 3 nodes of equal rank, height limit 3 | `TypeOK`, `ParentIsValidPeer`, `NeverFollowsItself`, `EqualRankIsOneHop` |
| `cycle` | 2 nodes, 1 foreign device | `NoSyncCycle`, violated |
| `converge` | 3 nodes, 1 foreign device, in rounds, 2 changes or lost frames, height limit 2 | `RankBelongsToMaster`, `EventuallyAgreed` |
| `cbuf` | 3 places, 2 items | `TypeOK`, `ImplementsQueue` |
| `tx` | 3 slots of 7, guards 2 (multicast) and 3, queue of 2, 3 frames, 2 changes, timers late by 1 | `TypeOK`, `NoFrameStranded`, `EveryFrameOnce`, `SentInOrder`, `SentInWindow`, `EveryFrameLeaves` |
| `peers` | 2 peers, half-second units, clock far from its limit, 2 failures | `TypeOK`, `KernelMirrorsTable`, `SilentIsRemoved`, `RemovedWasSilent` |
| `hashmap` | 4 keys in chains of 2, tables of 4 to 32 places, 1 failure | `TypeOK`, `SizeIsCount`, `EveryEntryInChain`, `ImplementsMap` |
| `sync` | 2 nodes, TU of 2 us, 4 TU in a window, all counters wrap | `TypeOK`, `BehindByHops`, `MifInMiddle`, `MovesAreCounted` |
| `rx` | 4 kinds of action frames, 2 versions of a sender's state, 7 layouts of the radiotap header at signals on and below both thresholds, data frames and A-MSDUs, 10 places of a cut | `TypeOK`, `StoredAsAnnounced`, `HeardIfNear`, `ElectionFromOneFrame`, `DeliveredAsSent` |
| `startup` | every device and option, 2 failures a start, 2 starts, 10 requests | `TypeOK`, `LoopMeansReady`, `NeverBlocks`, `RightIfNothingFails` |
| `clock` | 1 peer, uptime up to and beyond the limit of a long | `RemovedWasSilent`, violated |

Why the bounds are enough to see the interesting cases:

- `election`: three peers are a best one, a rival, and one that must not matter,
  in every order; every branch of the loop is taken, the wrapped height included.
- `net`: three nodes, because a node sees itself as a follower's parent but not
  as its grandparent; all have the same rank, as the shipped metric is 60 for all,
  so that heights and addresses decide.
- `converge`: here a foreign master of higher rank comes, goes and raises its
  counter (up to `MaxCounter`), so a node follows through another, and a restarted
  node meets stale announcements of itself. Passing the name of a departed master round needs three nodes, as
  the check on the direct parent stops two. The height limit is 10 in the code;
  2 is reached and enforced (without the limit TLC finds the name going round for
  ever). Two changes are an arrival and a departure, a crash and a restart, a frame
  that one of the nodes misses (`RLoss`), or any two of these, at any moment of a
  round; heights are kept in numbers up to `MaxUint32`, which wrap. More losses are
  the matter of the theorem `RankIsTrue`, whose network may lose every frame.
- `tx`: two multicast frames wait in the queue together, so that it matters from
  which end they are taken, and the third frame meets the queue full while another
  waits; how a deeper queue behaves is proved once for all (`cbuf`). The
  sequence has a slot before, at and after the multicast slot; the
  peer shares none or two neighbouring slots, so that each of the two has one
  edge behind which the peer listens and one behind which it does not. A peer that
  has not been learned stands for strangers, too. The slot
  length leaves room between the guards for one late timer in each of the slots
  of a round, and not more (with a multicast guard of 3 `EveryFrameLeaves` fails, see
  below); the ratio and the order of the code's guards (16 of 64 TU for multicast, 3
  for unicast frames) are not kept, neither is used.
- `peers`: a timeout of two clean intervals as in the code, uptimes long enough
  for a peer to be heard, expire and be heard again. Two failures of netlink or of
  memory may happen at any point, so that a peer can be lost from the table, come back,
  and have its request fail. The two peers are symmetric.
- `hashmap`: the hashes of the four keys make two keys share all places of their
  chains, a chain wrap around the end of the table, and a table that is growing
  grow once more (4 places to 16 in one call). Removals leave holes anywhere.
- `sync`: an extended window has 8 us; the window counter wraps after two of
  them, `unsigned long` with it, the clock after four, so every wrap happens many
  times and next to every other event. As in the code each width is a multiple
  of the one below it, which is an assumption of the module. Two nodes may take
  each other as parent in turn, so that a time passes through up to `MaxSyncs`
  hops.
- `rx`: two versions of the sender's state are the least in which a mixture
  shows. Names are shorter than, equal to and longer than their room; A-MSDUs
  hold one to three subframes that need padding or not, of known and unknown
  senders, and one of another protocol; a frame is cut inside each header, the
  radiotap header included, and behind each of the TLVs that fill the entry. The
  header layouts are the daemon's own, a plain one, two words for two antennas
  behind a time stamp, a vendor's data before the signal, a field that is not
  known behind or between the others, and none of the fields that count; the
  signal is at the threshold, just below it, at the one for peers that are known, and
  just below that one (-65, -66, -70, -71). A vendor's data has three bytes. The sequence of channels has 2
  entries in place of 16: the lengths are computed from it everywhere.
- `startup`: every combination of `-N`, a device, a savefile or nothing behind
  `-i`, a link up or down, in managed or monitor mode. One failure puts the numbers
  of a socket out of step, the second meets it so; ten requests on a socket are a
  whole start and three changes of the neighbour in the loop. Two starts are one that
  left the device in any state and one that finds it so. Deadlock is not checked:
  a daemon that has stopped for the last time stays so.
- `MaxLate` is the lateness of timers.

Fairness:

- `converge`: in each clean interval every device sends once and every daemon cleans
  its table; everybody hears the frame but for up to `MaxChanges` losses in all. The code sends MIFs every 64 TU and cleans every
  second, so an interval holds about fifteen MIFs; what is assumed is that one of
  them gets through. `RSpec` asks of the interval's frames, cleanups and end only
  that something of it goes on happening: the timers are re-armed at the end of
  their own callbacks (`core.c:182`, `core.c:318`).
- `tx`: libev runs every callback that is due, time passes, and a peer that
  shares no slot is not heard from again and expires. With timers that are later
  than the multicast guard, or late enough at each of the retries between two
  multicast slots to drift out of the window, TLC finds behaviours in which a
  multicast frame waits for ever: a retry is one whole slot later (`core.c:246`),
  so lateness adds up. In the code the window is 32 TU and at most ten retries
  lie between two multicast slots, so each may be about 3 TU late. The property
  is claimed within that bound.

What the runs found:

- `cycle`: the check "do not allow cycles in sync tree" (`election.c:69`) does
  not keep two nodes from following each other. It looks at the peer's last
  announcement in the table, which can be older than the peer's present parent.
  The cycle ends when the next announcement arrives; what holds at all times is
  `NeverFollowsItself`: no node is part of a tree whose root it is.
- `clock`: `clock_time_us` multiplies seconds by a million in a `long`, which has
  32 bits in the build for `armeabi-v7a`. About 36 minutes after boot the reading
  jumps and all peers are dropped, those heard just now included; `state.c:83`
  already wonders about the type.
- `startup`: `link_down` asks for a flag named "down" (`netutils.c:435`), which
  `rtnl_link_str2flags` does not know, so the request changes nothing. A device
  whose link is up in managed mode stays up, the kernel refuses to change its
  mode, and the daemon exits; it starts on a device that is down or that an earlier
  run has set up. `Suitable` says so, and `RightIfNothingFails` that this is exact.
- `startup`: that the result of opening the device is lost (`io.c:293`) never lets
  the loop run without it, but only thanks to the assertion in `ev_io_start`.
- `rx`: with several antennas the signal of the last is the one that is compared
  with the threshold (`rx.c:421`).

## 4. Proofs

All proofs are checked by TLAPS for every value of the constants that the named
assumptions allow, and TLC evaluates those assumptions on the instances:

- `HeightAssumption`: the height limit is below the largest `uint32_t`;
  `NetAssumption`, `NodeAssumption`: addresses and metrics are naturals, nodes and
  foreign devices are disjoint;
- `BufferAssumption`: the capacity is positive, as the code asserts;
- `HashMapAssumption`: hashes are naturals, the first table and a chain are not empty;
- `VendorAssumption`: the data of a vendor leaves the header's length within 16 bits;
- `TableAssumption`: durations are positive, `long` is even in range and narrower
  than the word;
- `SyncAssumption`: an extended window has four windows, as `sync.c:8` sets it (an
  adjustment clears the last two bits of the counter, whatever the number of windows);
  the counter holds whole rounds of the slots; `unsigned long` and the word are
  multiples of what they must hold;
- `TxAssumption`: two guards fit into a slot (3 and 16 of 64 TU in the code), the
  queue has room for a frame;
- `NetlinkAssumption`, `StartupAssumption`: the bounds of the model are naturals;
- `ReceptionAssumption`: the number of channels fits a byte and is positive, a frame for
  the host has room for its Ethernet header, signals are signed bytes and flags are
  bytes, the daemon's own header has the flags and the signal it writes;
  `PayloadAssumption`: an Ethernet frame is no longer than the buffer for it (a longer
  one would be handed on without its data, as nobody looks whether the write
  succeeded), and an A-MSDU has at most the sixteen subframes for which
  `apple_p2p_receive_frame` has buffers.

Each theorem that is not an invariant on its own rests on a stronger one, which is
inductive:

- `ElectionProofs`: `Preferred` is a strict total order up to the address, which the
  other proofs, of a run and of the network, rest on. `CandidateIsBest` strengthened with the types is inductive:
  the candidate is the maximum of what has been visited (`CandidateBest`). At the end
  it is the maximum of all eligible peers, and a maximum is unique, hence
  `ElectionCorrect`: whatever the order, one outcome.
  Of the network, the invariant `NetInv` says of every announcement `r` of a
  device `a`, in force or remembered by anyone, that its rank belongs to its
  root and that, when `a` runs this code and follows somebody, `r` outranks `a`,
  or has `a`'s rank, is one hop away and has a higher address (`InfoOK`). This is
  stable because it does not mention the present state of other nodes, only
  constants, so stale copies satisfy it too. `NeverFollowsItself` alone is not
  inductive: it says nothing of announcements still on their way through tables.
  From it follow `RankIsTrue`, `NoSelfFollowing`, `OneHopAmongEquals`,
  `ParentStaysValid`.
- `SyncProofs`: the heart is `PositionFacts`: counter, window, remainder and the three
  widths together are `PositionOf`, the microseconds since `last_update` from where the
  counter then was, reduced to the cycle. What the code computes thus does not change
  when anything wraps. `SyncInv` adds to `BehindByHops` the same bound for
  announcements on their way, which grow older and have been rounded to a TU
  (`FramesBehind`); that the counter is a multiple of four after every adjustment
  (`Aligned`), without which the clock would move on an adjustment to its own position;
  that nobody follows a daemon that has not started (`Running`), as its free clock
  begins anew when it does; and for `MifInMiddle` that timer and position add up to
  the middle of a window (`Aimed`). Only an adjustment takes `FramesBehind` to
  `BehindByHops`: it takes over the announced position exactly (`AdjustedPosition`).
  `MifsInMiddle` has one hypothesis, that timers are not late by half an extended
  window; later than that no timer can be in the middle. `MovesAreNoticed` rests on
  `ErrorFacts`, that the computed error is the true one but for the rounding, and on
  half a cycle being a whole number of TUs: the wrapped difference is then within the
  threshold when the other is.
- `PeerTableProofs`: `KernelMirrorsTable` is inductive with the types, whatever the
  clock reads: that the table and the kernel agree does not depend on when a peer
  expires, only on each way into and out of the table making its callback once
  (`KernelAgrees`). The one way out that makes none, a rehash that fails half-way, is
  told apart by `orphans`: their neighbours may stay in the kernel, but a valid peer
  always has its own. When a peer expires does depend on the clock. `TimeInv` says that
  `last_update` is the uptime at which the peer was last heard and that what has
  passed since is at most the timeout and the part of the clean interval that is over.
  It holds under three hypotheses, which `SilentRemoved` and `NobodyElseRemoved`
  state: the daemon is started no earlier after boot than a timeout (otherwise the
  cutoff is negative and wraps), the word holds the uptime, and `NoOverflow`: a build
  whose `long` wraps runs for less than half its range. The last is what the run
  `clock` shows to be needed, on the same specification. `NobodyElseRemoved` excepts a
  put that runs out of memory, and nothing else.
- `HashMapProofs`: `HashInv` adds to `SizeIsCount` and `EveryEntryInChain` that keys
  are distinct in the table and the entries under way together (`DistinctKeys`), and
  that no put is under way during an iteration. Without the first neither is
  inductive: an entry that found its own key in the new table would not be counted,
  and a removal would leave the second one to be found. The chains are circular in a
  table that changes its size, so `EveryEntryInChain` rests on facts about
  remainders that are proved for every size. `TableIsMap` is the refinement of
  `FiniteMap`: `Put` (the call), `Grow`, and every `Place` but the last are steps
  that the map does not take, the last `Place` is its put, and `GrowFails` its
  `PutFails`, which keeps what is in the table. What the iterator has not yielded
  are the keys of the places ahead of its index. That the entries move in the order
  of their places needs the sequence to exist (`AscendingFacts`), by induction over
  the size of the table.
- `TxPathProofs`: `TxInv` takes the three properties of state together with the order
  of all frames (`Queued`): those sent, before those in the node, before those still
  with the host, for each kind, with multicast frames only in the queue and unicast
  ones only in `next`. `SentInOrder` alone says nothing of a frame that is yet to be
  sent. The callbacks are operators from state to state that call each other; each has
  a lemma that says it keeps the frames (`Kept`), their order, and adds to what was sent
  only what is in its window (`Extends`). The loop of `poll_host_device` stops at the
  least number of frames at which the queue is full, the host has no more, or a unicast
  frame has been read; that there is one is `LeastNumber`. `SentWhileHeard` is the
  step property from the same lemmas: a `can_send_in` of 0 means the window.
- `CircularBufferProofs`: `BufferInv` (types, and `full` only where the indices
  meet); `Geometry` relates index and position, and each operation is shown to be
  the queue's operation on `Contents`, hence `BufferIsQueue`.
- `StartupProofs`: `NeverBlocks` alone is not inductive:
  reading one answer may leave the request waiting for another. `Waiting` says that
  the last unread answer ends the answer to the request in progress, or that the
  first is the report of a lost one; so the acknowledgement that is waited for
  behind an object is there. `LoopMeansReady` needs that a successful result is
  that of the request it is returned for, which is false once answers lag behind.
  `Generic` says that on the generic socket, up to the end of `set_monitor_mode`,
  they do not: `resolve` must have succeeded, and nothing but it has used the
  socket. `Progress` carries the mode, the link and the descriptors on from there
  to the assertion in `ev_io_start`, which lets neither be missing. Answers on the
  route socket may lag: nothing of the two properties rests on their results.
  `StartupTypeCorrect` needs more than types, as the type invariant bounds the
  numbers of requests and answers: `OrderInv` adds that answers wait in the order of
  their numbers, all below the next one, so that the number expected next is too.
  `RightWithoutFailure` holds in a start in which nothing has failed yet, and rests on
  `RightInv`: what waits on the socket of the request in progress is exactly the rest of
  its answers, and nothing waits on the other (`Prompt`); every request that the kernel
  does not refuse succeeds (`Successful`), and only setting the mode can be refused;
  hence the device that was found decides the way that is taken (`Device`), and the
  neighbour and the channel follow what the daemon has asked for (`Believed`).

- `ReceptionProofs`, with its definitions in `ReceptionInvariant`: the loops over a
  header's words, a frame's TLVs and an A-MSDU's subframes are recursive functions.
  What they return is not computed by induction: an element that breaks a claim is
  taken where least is left of the frame (`MeasureInduction`), and one turn of the loop
  then contradicts it.
  For `RankedByOneFrame`, every frame is a buffer of bytes with names (`Buffer`), and
  a frame cut anywhere still reads as a list of TLVs that the sender has
  written, the last one possibly cut (`Honest`, `Readable`, `Chains`). Each handler
  either refuses a TLV or takes over its fields together and keeps the rest
  (`RankedIfKnown`); frames that are no announcement leave the entry alone
  (`Harmless`). `ElectionFromOneFrame` is inductive with the types, as every entry
  begins with no ranking field at all.
  `HeardByItsSignal` is about the layouts of `Tap` that give a signal, with any flags
  and signal, any length of the vendor's data and any thresholds; other words and
  fields are not covered. It needs what the parser has found at its end for each of
  them: the walk is followed word by word and bit by bit (`Walk`), with a
  lemma for each kind of field (`FieldMoves`, `OtherMoves`, `VendorMoves`,
  `WordMoves`), up to `HeadersTell`: the flags and the signal of the layout, whatever
  their values, and what was held before where the layout has none. The rest is that
  a whole announcement passes the checks in front of the filter (`WholeFrame`,
  `AnnouncementBytes`), and that every result other than `RxIgnoreRssi` excludes it.
  For `DeliveredInOrder`, the places of the subframes in an aggregate are fixed first
  (`Laid`, `AggregateLayout`), and so are the frames among the first n that the host is
  to get (`Selects`). At each place the receiver finds the subframe that was put there,
  or too few bytes (`SubframeArrived`). From the back, by the same argument of a least
  counterexample: what the receiver's loop brings from place n on continues the first n
  (`Follow`, also if the aggregate is cut), and if nothing is cut it is all of the rest,
  or nothing if one of them is no frame of the protocol (`Complete`).

Three modules prove `LeastNumber` (a set of naturals that is not empty has a least
element) from the well-foundedness of the inclusion of finite sets; arguments by a
least counterexample take the place of the induction theorems, which the
prover cannot instantiate.

Only model-checked: of `Reception`, `StoredAsAnnounced`, which lists what every handler
has read from every TLV of the whole frame. It speaks of the values at the end of a loop
over some ten kinds of TLVs, each of which has a layout of its own; the run `rx` checks
it for every announcement, header and state of the sender that it has. And what rests on
fairness (`EventuallyAgreed`, `EveryFrameLeaves`), which is out of the prover's reach.

## 5. Not modelled

- The vendored libraries, which make up most of `src/jni` (libpcap twice, libev,
  libnl twice): the program's own code has some 4 800 lines in `src/jni/src`. What it
  uses of them is modelled as it is used; of libnl, the numbering and reading of
  answers is modelled from its source.
- The value of checksums, IEEE 802.11 sequence numbers.
- The text of service responses: of 8 and 18 fixed strings some are there, by their
  lengths. Host names so long that they do not fit `domain[64]` in `response.c`.
- Writes: `wire.c` checks them as it does reads, but the senders do not look at the
  result; the buffers are larger than what is written.
- A-MSDUs with more subframes than the sixteen for which `apple_p2p_receive_frame`
  has buffers: `PayloadAssumption` excludes them.
- In `AwdlNet` and `TxPath`, peers that are lost when memory runs out (`hashmap.c:126`):
  `HashMap` and `PeerTable` have that failure.
- Another try after setting the channel has failed (`core.c:283`): there is none in the
  code and none is promised, so `Startup` has the failure but no property is about what
  follows; `RightIfNothingFails` says only that it takes a failure to get there.
- In `AwdlNet`, devices that announce version 1 of the election only; `Reception`
  has them.
- Channel sequences with more than one channel: the daemon's is fixed
  (`state.c:41`), so its channel timer has nothing to do after the first time.
- Parsing of options, a missing `-i` (the name is then not initialised), `-D`,
  which closes the first three descriptors, and the system calls that configure
  the tun device. With an empty `-h` the host's descriptor is not set, and the
  daemon either stops at the assertion or goes on with any descriptor.
- Other programs that change the device while the daemon runs.
- The list of supported channels that `is_channel_available` reads: its result is
  not used.
- Logging, statistics other than the sync error, `SIGSTATS`. `apple/corewlan.m`
  is not built for Android.
- Memory that is never freed: the iterator of every election (`election.c:53`),
  the buffers of a bad A-MSDU. No state of the protocol depends on it.
- Failing transmissions: the result of `pcap_inject` changes no state
  (`core.c:208`); the loss is that of any radio frame.

## 6. Plan

Done: all modules above, with their runs, and the proofs for election, network,
synchronisation, peer table, hash map, transmit path, circular buffer, netlink with
start-up, and of the receive path its types, the fields for the election, the signal
filter and the delivery of data frames and A-MSDUs. Left: a proof of
`StoredAsAnnounced`, for which `ReceptionProofs` has the lemmas on bytes, reads and
loops.
