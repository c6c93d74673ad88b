------------------------------ MODULE Netlink ------------------------------
(***************************************************************************)
(* Requests to the kernel (netutils.c) over two netlink sockets, with what *)
(* libnl does for them: numbering, answers that wait to be read, the check *)
(* of their numbers, and what is left behind when one of the steps fails.  *)
(*                                                                         *)
(* The kernel carries out a request while it is sent.  One request is in   *)
(* progress at a time; whoever made it goes on when it has returned.       *)
(***************************************************************************)
EXTENDS Integers, SequencesExt

CONSTANT MaxFailures   \* bound: what fails between two starts of the daemon

ASSUME NetlinkAssumption == MaxFailures \in Nat

VARIABLES
  sock,      \* per socket: number of the next request, number of the answer
             \* that is expected, and the answers that are unread
  call,      \* the request in progress, and what has become of it
  kernel,    \* link and mode of the device, its channel, a neighbour
  failures   \* since the start of the daemon

netlinkVars == << sock, call, kernel, failures >>

Sockets == { "route", "generic" }
NewSocket == [ next |-> 1, expect |-> 1, queue |-> << >> ]

(* The calls of netutils.c; link_updown makes two of them.                 *)
Requests == { "resolve", "get", "link_down", "link_up", "set_monitor_mode",
              "is_channel_available", "set_channel", "neighbor_add", "neighbor_remove" }

SocketOf(req) ==
  IF req \in { "get", "link_down", "link_up", "neighbor_add", "neighbor_remove" }
    THEN "route" ELSE "generic"

NoCall == [ req |-> "none", at |-> "done", object |-> FALSE, retried |-> FALSE,
            result |-> "none" ]
Request(req) == [ NoCall EXCEPT !.req = req, !.at = "send" ]

Return(c, result) == [ c EXCEPT !.at = "done", !.result = result ]
Returned(req) == call.req = req /\ call.at = "done"

Failing == failures < MaxFailures /\ failures' = failures + 1
-----------------------------------------------------------------------------
(* The kernel.  Its interface types are managed, monitor, and active       *)
(* monitor, which set_monitor_mode asks for.                               *)
Kernel == [ up : BOOLEAN, mode : { "managed", "monitor", "active" },
            tuned : BOOLEAN, neighbor : BOOLEAN ]

(* The type of an interface changes only while its link is down.           *)
Refused(req) == req = "set_monitor_mode" /\ kernel.up /\ kernel.mode # "active"

(* link_down names a flag that rtnl_link_str2flags does not know, and so   *)
(* asks for no change: the link keeps the flags that it had.               *)
Effect(req, k) ==
  CASE req = "link_up"          -> [ k EXCEPT !.up = TRUE ]
    [] req = "set_monitor_mode" -> [ k EXCEPT !.mode = "active" ]
    [] req = "set_channel"      -> [ k EXCEPT !.tuned = TRUE ]
    [] req = "neighbor_add"     -> [ k EXCEPT !.neighbor = TRUE ]
    [] req = "neighbor_remove"  -> [ k EXCEPT !.neighbor = FALSE ]
    [] OTHER                    -> k

(* What is answered to a request that is carried out.                      *)
Replies(req) ==
  CASE req \in { "get", "resolve" }   -> << "object", "ack" >>
    [] req = "is_channel_available"   -> << "part", "part", "done" >>
    [] OTHER                          -> << "ack" >>

Answers(s, kinds) == [ i \in DOMAIN kinds |-> [ seq |-> s.next, kind |-> kinds[i] ] ]

(* Without memory for an acknowledgement, the next read of the socket      *)
(* reports an error, before anything that is unread.                       *)
LostAnswer == [ seq |-> 0, kind |-> "lost" ]
-----------------------------------------------------------------------------
(* Fault: the number of a request is used again.                           *)
SentAgain(s, answers) == [ s EXCEPT !.queue = @ \o answers ]

(* nl_complete_msg, nl_send: the number is used up, whatever comes of it.  *)
Sent(s, answers) == [ s EXCEPT !.next = @ + 1, !.queue = @ \o answers ]

Send ==
  /\ call.at = "send"
  /\ LET on == SocketOf(call.req)
         s == sock[on]
         carriedOut == /\ ~Refused(call.req)
                       /\ kernel' = Effect(call.req, kernel)
         answered(kinds) == sock' = [ sock EXCEPT ![on] = Sent(s, Answers(s, kinds)) ]
     IN  \/ carriedOut /\ answered(Replies(call.req)) /\ UNCHANGED failures
         \/ Refused(call.req) /\ answered(<< "error" >>) /\ UNCHANGED << kernel, failures >>
         \* The kernel refuses for a reason of its own.
         \/ \E kind \in { "error", "unsupported" } :
              Failing /\ answered(<< kind >>) /\ UNCHANGED kernel
         \/ /\ Last(Replies(call.req)) = "ack"
            /\ Failing /\ carriedOut
            /\ sock' = [ sock EXCEPT ![on] =
                 [ Sent(s, Answers(s, Front(Replies(call.req)))) EXCEPT
                     !.queue = << LostAnswer >> \o @ ] ]
  /\ call' = [ call EXCEPT !.at = "receive" ]

(* The message cannot be allocated; four callers then pass pointers on     *)
(* that they have not set.                                                 *)
BuildFails ==
  /\ call.at = "send" /\ Failing
  /\ call' \in { Return(call, "failed") }
       \cup (IF call.req \in { "link_down", "link_up", "is_channel_available",
                               "neighbor_add", "neighbor_remove" }
               THEN { Return(call, "crash") } ELSE {})
  /\ UNCHANGED << sock, kernel >>

SendFails ==
  /\ call.at = "send" /\ Failing
  /\ sock' = [ sock EXCEPT ![SocketOf(call.req)] = Sent(@, << >>) ]
  /\ call' = Return(call, "failed")
  /\ UNCHANGED kernel
-----------------------------------------------------------------------------
(* An answer has been read that is no error.  The answers to two requests  *)
(* are followed by an acknowledgement.                                     *)
After(c, kind) ==
  IF c.at = "receive" /\ (c.req = "resolve" \/ (c.req = "get" /\ kind = "object"))
    THEN [ c EXCEPT !.at = "ack", !.object = kind = "object" ]
    ELSE Return(c, IF c.req = "resolve" /\ ~c.object THEN "failed" ELSE "ok")

(* Fault: the result of reading the answer is not looked at.               *)
AfterErrorGoingOn(c) == After(c, "error")

(* Reading has failed.  rtnl_link_get_kernel does not look at the result   *)
(* of waiting for the acknowledgement.                                     *)
AfterError(c) == Return(c, IF c.req = "get" /\ c.at = "ack" THEN "ok" ELSE "failed")

(* Fault: the end of a dump is not counted as the end of an answer.        *)
EndsAnswerButDone(kind) == kind \in { "ack", "error", "unsupported" }

(* What ends an answer (recvmsgs).                                         *)
EndsAnswer(kind) == kind \in { "ack", "error", "unsupported", "done" }

(* One turn of recvmsgs: an answer with another number than the one that   *)
(* is expected is an error, and is dropped.                                *)
Receive ==
  /\ call.at \in { "receive", "ack" }
  /\ LET on == SocketOf(call.req)
         a == Head(sock[on].queue)
         expected == a.seq = sock[on].expect
         retry == /\ a.kind = "unsupported" /\ expected
                  /\ call.req \in { "link_down", "link_up" } /\ ~call.retried
     IN  /\ sock[on].queue # << >>
         /\ sock' = [ sock EXCEPT ![on].queue = Tail(@),
              ![on].expect = IF expected /\ EndsAnswer(a.kind) THEN @ + 1 ELSE @ ]
         /\ call' = IF expected /\ a.kind = "part" THEN call
                    ELSE IF retry THEN [ call EXCEPT !.at = "send", !.retried = TRUE ]
                    ELSE IF expected /\ a.kind \notin { "error", "unsupported" }
                      THEN After(call, a.kind)
                      ELSE AfterError(call)
  /\ UNCHANGED << kernel, failures >>

(* There is no memory to read the answer, or none for what was read.       *)
ReceiveFails ==
  /\ call.at \in { "receive", "ack" } /\ Failing
  /\ LET on == SocketOf(call.req)
     IN  \/ UNCHANGED sock
         \/ /\ sock[on].queue # << >>
            /\ sock' = [ sock EXCEPT ![on].queue = Tail(@) ]
  /\ call' = AfterError(call)
  /\ UNCHANGED kernel

NetlinkStep == Send \/ BuildFails \/ SendFails \/ Receive \/ ReceiveFails
-----------------------------------------------------------------------------
(* Answers come in the order of their requests, and none is expected that  *)
(* has not been asked for.                                                 *)
NetlinkTypeOK ==
  /\ DOMAIN sock = Sockets
  /\ \A on \in Sockets :
       /\ sock[on].expect \in 1 .. sock[on].next
       /\ \A i \in DOMAIN sock[on].queue :
            sock[on].queue[i].kind # "lost" =>
              /\ sock[on].queue[i].seq < sock[on].next
              /\ \A j \in 1 .. i : sock[on].queue[j].seq <= sock[on].queue[i].seq
  /\ call.req \in Requests \cup { "none" }
  /\ call.at \in { "send", "receive", "ack", "done" }
  /\ call.result \in { "none", "ok", "failed", "crash" }
  /\ kernel \in Kernel
  /\ failures \in 0 .. MaxFailures
=============================================================================
