------------------------------ MODULE Startup ------------------------------
(***************************************************************************)
(* The daemon from its start to its event loop (main.c, apple_p2p_init,    *)
(* apple_p2p_schedule, io.c): it takes over the device, opens it and the   *)
(* host's interface, and asserts in ev_io_start that both are open.  Then  *)
(* the channel timer and the peer table make their requests to the kernel. *)
(* The daemon may be killed at any time and started again.                 *)
(***************************************************************************)
EXTENDS Netlink

CONSTANTS
  MaxStarts,    \* bound: starts of the daemon
  MaxRequests   \* bound: requests on the route socket in one of them

ASSUME StartupAssumption == MaxStarts \in Nat \ {0} /\ MaxRequests \in Nat

VARIABLES
  at,        \* what the daemon does
  options,   \* what wlan names, -N, and whether host is the name of an interface
  io,        \* struct io_state: the descriptors, and whether the address is known
  current,   \* channel.current is the channel of the sequence
  wanted,    \* the peer is in the table, hence should be a neighbour
  found,     \* history: the kernel at the start
  starts     \* of the daemon

vars == << netlinkVars, at, options, io, current, wanted, found, starts >>

Options == [ wlan : { "device", "file", "nothing" }, no_monitor_mode : BOOLEAN, host : BOOLEAN ]
NewIo == [ wlan_is_file |-> FALSE, wlan_fd |-> "unset", if_ether_addr |-> "unset",
           host_fd |-> "unset" ]

Stopped == { "exit", "crash", "abort" }
-----------------------------------------------------------------------------
Goto(place) == at' = place /\ UNCHANGED << sock, call, kernel, failures >>
Call(req, place) == call' = Request(req) /\ at' = place /\ UNCHANGED << sock, kernel, failures >>
Fails == Failing /\ at' = "exit" /\ UNCHANGED << sock, call, kernel >>

KeepIo == UNCHANGED << options, io, current, wanted, found, starts >>

(* A call has returned, without a crash. *)
Back(place, req) == at = place /\ Returned(req) /\ call.result # "crash"
Ok == call.result = "ok"

Init ==
  /\ sock = [ on \in Sockets |-> NewSocket ] /\ call = NoCall /\ failures = 0
  /\ kernel \in [ up : BOOLEAN, mode : { "managed", "monitor" }, tuned : { FALSE },
                  neighbor : { FALSE } ]
  /\ at = "netutils_init" /\ options \in Options /\ io = NewIo
  /\ current = FALSE /\ wanted = FALSE
  /\ found = kernel /\ starts = 1

(* A call that ran out of memory has used a pointer that was not set.      *)
Crash == call.result = "crash" /\ at \notin Stopped /\ Goto("crash") /\ KeepIo

NetutilsInit ==
  /\ \/ at = "netutils_init" /\ (Call("resolve", "nl80211_init") \/ Fails)
     \/ Back("nl80211_init", "resolve") /\ Goto(IF Ok THEN "wlan" ELSE "exit")
  /\ KeepIo

(* io_state_init_wlan, up to link_down.                                    *)
OpenSavefile ==
  /\ at = "wlan" /\ options.wlan = "file"
  /\ io' = [ io EXCEPT !.wlan_is_file = TRUE, !.wlan_fd = "open" ]
  /\ Goto("host")
  /\ UNCHANGED << options, current, wanted, found, starts >>

FindDevice ==
  /\ at = "wlan"
  /\ \/ options.wlan = "device" /\ Call("get", "link_down")
     \/ options.wlan = "nothing" /\ Goto("exit")
     \/ options.wlan = "file" /\ Fails
  /\ KeepIo

(* link_updown: the link is read, and changed; that the change may have    *)
(* failed is not seen.  A successful answer without a link is used.        *)
LinkUpdown(direction) ==
  /\ Back(direction, "get")
  /\ IF ~Ok THEN Goto("exit") ELSE IF ~call.object THEN Goto("crash")
     ELSE Call(direction, direction)
  /\ KeepIo

LinkDown ==
  \/ LinkUpdown("link_down")
  \/ /\ Back("link_down", "link_down")
     /\ IF options.no_monitor_mode THEN Call("get", "link_up")
        ELSE Call("set_monitor_mode", "set_monitor_mode")
     /\ KeepIo

SetMonitorMode ==
  /\ Back("set_monitor_mode", "set_monitor_mode")
  /\ IF Ok THEN Call("get", "link_up") ELSE Goto("exit")
  /\ KeepIo

LinkUp ==
  \/ LinkUpdown("link_up")
  \/ Back("link_up", "link_up") /\ Goto("open device") /\ KeepIo

(* pcap opens a device whose link is up, and finds radiotap headers in     *)
(* monitor mode only.  If it does not, the result is that of link_up.      *)
OpenNonblockingDevice ==
  /\ at = "open device"
  /\ LET opens == kernel.up /\ kernel.mode # "managed"
     IN  \/ /\ opens /\ Call("get", "address")
            /\ io' = [ io EXCEPT !.wlan_fd = "open" ]
         \/ /\ ~opens /\ Goto("host")
            /\ io' = [ io EXCEPT !.wlan_fd = "failed" ]
         \/ /\ Failing /\ at' = "host" /\ UNCHANGED << sock, call, kernel >>
            /\ io' = [ io EXCEPT !.wlan_fd = "failed" ]
  /\ UNCHANGED << options, current, wanted, found, starts >>

LinkEtherAddrGet ==
  /\ Back("address", "get")
  /\ Goto(IF ~Ok THEN "exit" ELSE IF ~call.object THEN "crash" ELSE "host")
  /\ io' = IF Ok /\ call.object THEN [ io EXCEPT !.if_ether_addr = "known" ] ELSE io
  /\ UNCHANGED << options, current, wanted, found, starts >>

(* io_state_init_host and the rest of apple_p2p_init, for which the name   *)
(* of the host is read.                                                    *)
InitHost ==
  /\ at = "host"
  /\ \/ Goto("schedule") /\ io' = IF options.host THEN [ io EXCEPT !.host_fd = "open" ] ELSE io
     \/ Fails /\ UNCHANGED io
  /\ UNCHANGED << options, current, wanted, found, starts >>

(* Fault: assertions are compiled out.                                     *)
StartedWithoutAssertions == { "loop" }

(* ev_io_start asserts that a descriptor is not negative; one that is not  *)
(* set may be anything.                                                    *)
Started ==
  IF io.wlan_fd = "failed" THEN { "abort" }
  ELSE IF io.host_fd = "unset" THEN { "abort", "loop" }
  ELSE { "loop" }

Schedule == at = "schedule" /\ (\E place \in Started : Goto(place)) /\ KeepIo

(* apple_p2p_switch_channel: the results are not looked at.                *)
SwitchChannel ==
  \/ /\ at = "loop" /\ ~current /\ ~io.wlan_is_file
     /\ Call("is_channel_available", "switch channel")
     /\ KeepIo
  \/ /\ Back("switch channel", "is_channel_available")
     /\ Call("set_channel", "switch channel")
     /\ KeepIo
  \/ /\ \/ Back("switch channel", "set_channel")
        \/ at = "loop" /\ ~current /\ io.wlan_is_file
     /\ Goto("loop")
     /\ current' = TRUE
     /\ UNCHANGED << options, io, wanted, found, starts >>

(* The callbacks of the peer table; their results are not looked at.       *)
Neighbor ==
  \/ /\ at = "loop" /\ sock["route"].next < MaxRequests
     /\ Call(IF wanted THEN "neighbor_remove" ELSE "neighbor_add", "neighbor")
     /\ wanted' = ~wanted
     /\ UNCHANGED << options, io, current, found, starts >>
  \/ \E req \in { "neighbor_add", "neighbor_remove" } : Back("neighbor", req)
     /\ Goto("loop") /\ KeepIo

(* The daemon stops or is killed, and starts again; its host interface,    *)
(* and with it the neighbour, are gone.                                    *)
Restart ==
  /\ starts < MaxStarts /\ starts' = starts + 1
  /\ kernel' = [ kernel EXCEPT !.neighbor = FALSE ]
  /\ found' = kernel'
  /\ sock' = [ on \in Sockets |-> NewSocket ] /\ call' = NoCall /\ failures' = 0
  /\ at' = "netutils_init" /\ io' = NewIo
  /\ current' = FALSE /\ wanted' = FALSE
  /\ UNCHANGED options

NetlinkRequest ==
  at \notin Stopped /\ NetlinkStep
    /\ UNCHANGED << at, options, io, current, wanted, found, starts >>

Next ==
  \/ NetutilsInit \/ OpenSavefile \/ FindDevice \/ LinkDown \/ SetMonitorMode \/ LinkUp
  \/ OpenNonblockingDevice \/ LinkEtherAddrGet \/ InitHost \/ Schedule
  \/ SwitchChannel \/ Neighbor \/ NetlinkRequest \/ Crash \/ Restart

Spec == Init /\ [][Next]_vars
-----------------------------------------------------------------------------
Places == { "netutils_init", "nl80211_init", "wlan", "link_down", "set_monitor_mode", "link_up",
            "open device", "address", "host", "schedule", "loop", "switch channel", "neighbor" }
            \cup Stopped
Running == { "loop", "switch channel", "neighbor" }

(* Types, and the order of the answers.                                    *)
TypeOK ==
  /\ NetlinkTypeOK
  /\ at \in Places /\ options \in Options /\ starts \in 1 .. MaxStarts
  /\ io.wlan_fd \in { "unset", "open", "failed" } /\ io.host_fd \in { "unset", "open" }
  /\ io.if_ether_addr = "known" => io.wlan_fd = "open"
  /\ current \in BOOLEAN /\ wanted \in BOOLEAN /\ found \in Kernel

(* When the loop runs on a device, the device is up, in active monitor     *)
(* mode unless told otherwise (io.c:277) and then in some monitor mode,    *)
(* open, and its address is known; the host's interface is open if one is  *)
(* named.  So it is although the result of opening the device is lost      *)
(* (io.c:293) and those of changing the link are (netutils.c:437).         *)
LoopMeansReady ==
  (at \in Running /\ ~io.wlan_is_file) =>
    /\ kernel.up
    /\ kernel.mode # "managed"
    /\ ~options.no_monitor_mode => kernel.mode = "active"
    /\ io.wlan_fd = "open" /\ io.if_ether_addr = "known"
    /\ options.host => io.host_fd = "open"

(* A single thread waits for answers on sockets that block: whenever it    *)
(* does, an answer is there or will be, whatever has failed before and     *)
(* however far behind the answers are (netutils.c:219).                    *)
NeverBlocks ==
  call.at \in { "receive", "ack" } /\ at \notin Stopped => sock[SocketOf(call.req)].queue # << >>

(* What the daemon can start on: a file; a device in monitor mode with -N; *)
(* a device whose link is down; or one that an earlier run has set up.     *)
Suitable ==
  \/ options.wlan = "file"
  \/ /\ options.wlan = "device"
     /\ IF options.no_monitor_mode THEN found.mode # "managed"
                                   ELSE ~found.up \/ found.mode = "active"

(* As long as nothing fails, the daemon runs exactly where it can; every   *)
(* answer is read, and what it keeps of the kernel's state is right: the   *)
(* channel (core.c:283) and the neighbour (core.c:295).  A device whose    *)
(* link is up cannot be put into monitor mode, as link_down does not take  *)
(* it down (netutils.c:435).                                               *)
RightIfNothingFails ==
  (failures = 0 /\ options.host) =>
    /\ at \in Stopped => ~Suitable
    /\ at \in Running => Suitable
    /\ at = "loop" =>
         /\ \A on \in Sockets : sock[on].queue = << >> /\ sock[on].expect = sock[on].next
         /\ kernel.neighbor = wanted
         /\ (current /\ ~io.wlan_is_file) => kernel.tuned
=============================================================================
