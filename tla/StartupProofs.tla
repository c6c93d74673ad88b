--------------------------- MODULE StartupProofs ---------------------------
(***************************************************************************)
(* However often the daemon is started, and whatever fails, it waits only  *)
(* for answers that come, which come in the order of the requests, and its *)
(* loop runs only on a device that is ready.  As long as nothing fails, it *)
(* runs wherever it can, and what it keeps of the kernel's state is right. *)
(***************************************************************************)
EXTENDS Startup, SequenceTheorems, TLAPS

Kinds == { "object", "ack", "part", "done", "error", "unsupported" }
Answer == [ seq : Nat \ { 0 }, kind : Kinds ] \cup { LostAnswer }

SockType == [ next : Nat \ { 0 }, expect : Nat \ { 0 }, queue : Seq(Answer) ]
CallType == [ req : Requests \cup { "none" }, at : { "send", "receive", "ack", "done" },
              object : BOOLEAN, retried : BOOLEAN,
              result : { "none", "ok", "failed", "crash" } ]
IoType == [ wlan_is_file : BOOLEAN, wlan_fd : { "unset", "open", "failed" },
            if_ether_addr : { "unset", "known" }, host_fd : { "unset", "open" } ]

Types ==
  /\ sock \in [ Sockets -> SockType ]
  /\ call \in CallType
  /\ kernel \in Kernel
  /\ at \in Places
  /\ options \in Options
  /\ io \in IoType

(* Which requests each place waits for; at the others, there is none.      *)
Asks(place) ==
  CASE place = "nl80211_init"     -> { "resolve" }
    [] place = "link_down"        -> { "get", "link_down" }
    [] place = "set_monitor_mode" -> { "set_monitor_mode" }
    [] place = "link_up"          -> { "get", "link_up" }
    [] place = "address"          -> { "get" }
    [] place = "switch channel"   -> { "is_channel_available", "set_channel" }
    [] place = "neighbor"         -> { "neighbor_add", "neighbor_remove" }
    [] OTHER                      -> { }

Sited ==
  /\ IF Asks(at) = { } THEN call.at = "done" ELSE call.req \in Asks(at)
  /\ call.at # "done" => call.result = "none" /\ call.req \in Requests

(* The last of the answers ends the answer to the request in progress, or  *)
(* reading the first reports that it got lost.                             *)
Waiting ==
  call.at \in { "receive", "ack" } =>
    LET queue == sock[SocketOf(call.req)].queue
    IN  /\ queue # << >>
        /\ \/ EndsAnswer(queue[Len(queue)].kind)
           \/ call.at = "receive" /\ queue[1] = LostAnswer

(* Until the device is in monitor mode, the answers on the generic socket  *)
(* are in step: only those to the request in progress may be unread.       *)
InStep(s) == s.queue = << >> /\ s.expect = s.next

Unread(s, kind) ==
  /\ Len(s.queue) = 1
  /\ s.queue[1] = [ seq |-> s.expect, kind |-> kind ]
  /\ s.next = s.expect + 1

Resolving(s) ==
  \/ call.at = "send" /\ InStep(s)
  \/ /\ call.at = "receive"
     /\ \/ Unread(s, "error") \/ Unread(s, "unsupported")
        \/ s.queue # << >> /\ s.queue[1] = LostAnswer
        \/ /\ Len(s.queue) = 2 /\ s.next = s.expect + 1
           /\ s.queue[1] = [ seq |-> s.expect, kind |-> "object" ]
           /\ s.queue[2] = [ seq |-> s.expect, kind |-> "ack" ]
  \/ call.at = "ack" /\ Unread(s, "ack")
  \/ call.at = "done" /\ (call.result = "ok" => InStep(s))

SettingMode(s) ==
  \/ call.at = "send" /\ InStep(s)
  \/ /\ call.at = "receive"
     /\ \/ Unread(s, "error") \/ Unread(s, "unsupported")
        \/ s.queue # << >> /\ s.queue[1] = LostAnswer
        \/ Unread(s, "ack") /\ kernel.mode = "active"
  \/ call.at = "done" /\ (call.result = "ok" => kernel.mode = "active")

Generic ==
  /\ at \in { "netutils_init", "wlan", "link_down" } => InStep(sock["generic"])
  /\ at = "nl80211_init" => Resolving(sock["generic"])
  /\ at = "set_monitor_mode" => SettingMode(sock["generic"])

DeviceReady ==
  /\ kernel.up /\ kernel.mode # "managed"
  /\ io.wlan_fd = "open"

(* How far the device has been set up.                                     *)
Progress ==
  /\ (/\ ~io.wlan_is_file /\ ~options.no_monitor_mode
      /\ at \in { "link_up", "open device", "address", "host", "schedule" } \cup Running)
        => kernel.mode = "active"
  /\ at = "address" => DeviceReady
  /\ (/\ ~io.wlan_is_file /\ io.wlan_fd # "failed"
      /\ at \in { "host", "schedule" } \cup Running)
        => DeviceReady /\ io.if_ether_addr = "known"
  /\ at \in { "schedule" } \cup Running => (options.host => io.host_fd = "open")
  /\ at \in Running => io.wlan_fd # "failed"

StartupInv == Types /\ Sited /\ Waiting /\ Generic /\ Progress
-----------------------------------------------------------------------------
LEMMA AnswersFacts ==
  ASSUME NEW s \in SockType, NEW kinds \in Seq(Kinds)
  PROVE  /\ Answers(s, kinds) \in Seq(Answer)
         /\ Len(Answers(s, kinds)) = Len(kinds)
         /\ \A i \in 1 .. Len(kinds) : Answers(s, kinds)[i] = [ seq |-> s.next, kind |-> kinds[i] ]
<1>1. \A i \in 1 .. Len(kinds) : [ seq |-> s.next, kind |-> kinds[i] ] \in Answer
  BY DEF Answer, SockType
<1>2. QED
  BY <1>1 DEF Answers

LEMMA SentFacts ==
  ASSUME NEW s \in SockType, NEW answers \in Seq(Answer)
  PROVE  /\ Sent(s, answers) \in SockType
         /\ Sent(s, answers).next = s.next + 1
         /\ Sent(s, answers).expect = s.expect
         /\ Sent(s, answers).queue = s.queue \o answers
<1>1. s.queue \in Seq(Answer) /\ s.next \in Nat \ { 0 } /\ s.expect \in Nat \ { 0 }
  BY DEF SockType
<1>2. s.queue \o answers \in Seq(Answer) /\ s.next + 1 \in Nat \ { 0 }
  BY <1>1
<1>3. Sent(s, answers) \in SockType
  BY <1>1, <1>2, Zenon DEF Sent, SockType
<1>4. /\ Sent(s, answers).next = s.next + 1
      /\ Sent(s, answers).expect = s.expect
      /\ Sent(s, answers).queue = s.queue \o answers
  BY Zenon DEF Sent, SockType
<1>5. QED
  BY <1>3, <1>4

LEMMA RepliesFacts ==
  ASSUME NEW req \in Requests
  PROVE  /\ Replies(req) \in Seq(Kinds)
         /\ Len(Replies(req)) > 0
         /\ EndsAnswer(Replies(req)[Len(Replies(req))])
<1>1. << "object", "ack" >> \in Seq(Kinds) /\ << "part", "part", "done" >> \in Seq(Kinds)
      /\ << "ack" >> \in Seq(Kinds)
  BY DEF Kinds
<1>2. Replies(req) \in { << "object", "ack" >>, << "part", "part", "done" >>, << "ack" >> }
  BY Zenon DEF Replies, Requests
<1>3. CASE Replies(req) = << "object", "ack" >>
  BY <1>1, <1>3 DEF EndsAnswer
<1>4. CASE Replies(req) = << "part", "part", "done" >>
  BY <1>1, <1>4 DEF EndsAnswer
<1>5. CASE Replies(req) = << "ack" >>
  BY <1>1, <1>5 DEF EndsAnswer
<1>6. QED
  BY <1>2, <1>3, <1>4, <1>5

LEMMA EffectFacts ==
  ASSUME NEW req \in Requests, NEW k \in Kernel
  PROVE  /\ Effect(req, k) \in Kernel
         /\ k.up => Effect(req, k).up
         /\ Effect(req, k).mode = IF req = "set_monitor_mode" THEN "active" ELSE k.mode
<1>1. CASE req = "set_monitor_mode"
  BY <1>1 DEF Effect, Kernel
<1>2. CASE req = "link_up"
  BY <1>2 DEF Effect, Kernel
<1>3. CASE req = "set_channel"
  BY <1>3 DEF Effect, Kernel
<1>4. CASE req = "neighbor_add"
  BY <1>4 DEF Effect, Kernel
<1>5. CASE req = "neighbor_remove"
  BY <1>5 DEF Effect, Kernel
<1>6. CASE req \in { "resolve", "get", "link_down", "is_channel_available" }
  BY <1>6 DEF Effect, Kernel
<1>7. QED
  BY <1>1, <1>2, <1>3, <1>4, <1>5, <1>6 DEF Requests

(* The sockets and the request that a step is about.                       *)
LEMMA InProgress ==
  ASSUME Types, Sited, call.at # "done"
  PROVE  /\ call.req \in Requests
         /\ SocketOf(call.req) \in Sockets
         /\ sock[SocketOf(call.req)] \in SockType
<1>1. call.req \in Requests
  BY DEF Sited
<1>2. SocketOf(call.req) \in Sockets
  BY DEF SocketOf, Sockets
<1>3. QED
  BY <1>1, <1>2 DEF Types

KindsFor(req) == { Replies(req), << "error" >>, << "unsupported" >> }

LEMMA KindsFacts ==
  ASSUME NEW req \in Requests, NEW kinds \in KindsFor(req)
  PROVE  kinds \in Seq(Kinds) /\ Len(kinds) > 0 /\ EndsAnswer(kinds[Len(kinds)])
<1>1. CASE kinds = Replies(req)
  BY <1>1, RepliesFacts
<1>2. CASE kinds \in { << "error" >>, << "unsupported" >> }
  BY <1>2 DEF Kinds, EndsAnswer
<1>3. QED
  BY <1>1, <1>2 DEF KindsFor

(* What sending leaves on the socket: the answers behind those that wait,  *)
(* or the report of a lost one in front.                                   *)
LEMMA SendOutcome ==
  ASSUME Types, Sited, Send
  PROVE  LET on == SocketOf(call.req)
         IN  /\ sock' \in [ Sockets -> SockType ]
             /\ \A other \in Sockets \ { on } : sock'[other] = sock[other]
             /\ kernel' \in { kernel, Effect(call.req, kernel) }
             /\ \/ sock'[on].queue # << >> /\ sock'[on].queue[1] = LostAnswer
                \/ \E kinds \in KindsFor(call.req) :
                     /\ sock'[on] = Sent(sock[on], Answers(sock[on], kinds))
                     /\ kinds = Replies(call.req) => kernel' = Effect(call.req, kernel)
<1> DEFINE on == SocketOf(call.req)
           s == sock[on]
           answered(kinds) == sock' = [ sock EXCEPT ![on] = Sent(s, Answers(s, kinds)) ]
           lost == [ Sent(s, Answers(s, Front(Replies(call.req)))) EXCEPT
                       !.queue = << LostAnswer >> \o @ ]
<1>1. call.at = "send"
  BY DEF Send
<1>2. call.req \in Requests /\ on \in Sockets /\ s \in SockType
  BY <1>1, InProgress
<1>3. ASSUME NEW kinds \in KindsFor(call.req), answered(kinds)
      PROVE  /\ sock' \in [ Sockets -> SockType ]
             /\ \A other \in Sockets \ { on } : sock'[other] = sock[other]
             /\ sock'[on] = Sent(s, Answers(s, kinds))
  <2>1. Answers(s, kinds) \in Seq(Answer)
    BY <1>2, KindsFacts, AnswersFacts
  <2>2. Sent(s, Answers(s, kinds)) \in SockType
    BY <1>2, <2>1, SentFacts
  <2>3. QED
    BY <1>2, <1>3, <2>2 DEF Types
<1>4. ASSUME sock' = [ sock EXCEPT ![on] = lost ]
      PROVE  /\ sock' \in [ Sockets -> SockType ]
             /\ \A other \in Sockets \ { on } : sock'[other] = sock[other]
             /\ sock'[on].queue # << >> /\ sock'[on].queue[1] = LostAnswer
  <2> DEFINE kinds == Front(Replies(call.req))
             t == Sent(s, Answers(s, kinds))
  <2>1. kinds \in Seq(Kinds)
    BY <1>2, RepliesFacts DEF Front
  <2>2. t \in SockType
    BY <1>2, <2>1, AnswersFacts, SentFacts
  <2> HIDE DEF t
  <2>3. << LostAnswer >> \o t.queue \in Seq(Answer)
    BY <2>2 DEF SockType, Answer
  <2>4. [ t EXCEPT !.queue = << LostAnswer >> \o @ ] \in SockType
        /\ [ t EXCEPT !.queue = << LostAnswer >> \o @ ].queue = << LostAnswer >> \o t.queue
    BY <2>2, <2>3 DEF SockType
  <2>5. lost = [ t EXCEPT !.queue = << LostAnswer >> \o @ ]
    BY DEF t
  <2>6. << LostAnswer >> \o t.queue # << >> /\ (<< LostAnswer >> \o t.queue)[1] = LostAnswer
    BY <2>2 DEF SockType
  <2> HIDE DEF lost
  <2>7. lost \in SockType /\ lost.queue # << >> /\ lost.queue[1] = LostAnswer
    BY <2>4, <2>5, <2>6
  <2>8. QED
    BY <1>2, <1>4, <2>7 DEF Types
<1>5. Replies(call.req) \in KindsFor(call.req) /\ << "error" >> \in KindsFor(call.req)
      /\ << "unsupported" >> \in KindsFor(call.req)
  BY DEF KindsFor
<1>6. << "error" >> # Replies(call.req) /\ << "unsupported" >> # Replies(call.req)
  BY <1>2 DEF Replies, Requests
<1>7. CASE kernel' = Effect(call.req, kernel) /\ answered(Replies(call.req))
  BY <1>3, <1>5, <1>7
<1>8. CASE kernel' = kernel /\ answered(<< "error" >>)
  BY <1>3, <1>5, <1>6, <1>8
<1>9. CASE kernel' = kernel /\ answered(<< "unsupported" >>)
  BY <1>3, <1>5, <1>6, <1>9
<1>10. CASE kernel' = Effect(call.req, kernel) /\ sock' = [ sock EXCEPT ![on] = lost ]
  BY <1>4, <1>10
<1>11. QED
  BY <1>7, <1>8, <1>9, <1>10 DEF Send

LEMMA SendWaits ==
  ASSUME Types, Sited, Send
  PROVE  call' = [ call EXCEPT !.at = "receive" ] /\ call' \in CallType /\ Waiting'
<1> DEFINE on == SocketOf(call.req)
           s == sock[on]
<1>1. call.req \in Requests /\ on \in Sockets /\ s \in SockType
  BY InProgress DEF Send
<1>2. /\ call' = [ call EXCEPT !.at = "receive" ]
      /\ call' \in CallType /\ call'.at = "receive" /\ call'.req = call.req
  BY DEF Send, Types, CallType
<1>3. CASE sock'[on].queue # << >> /\ sock'[on].queue[1] = LostAnswer
  BY <1>2, <1>3 DEF Waiting
<1>4. ASSUME NEW kinds \in KindsFor(call.req),
             sock'[on] = Sent(s, Answers(s, kinds))
      PROVE  Waiting'
  <2> DEFINE answers == Answers(s, kinds)
             queue == s.queue \o answers
  <2>1. kinds \in Seq(Kinds) /\ Len(kinds) > 0 /\ EndsAnswer(kinds[Len(kinds)])
    BY <1>1, KindsFacts
  <2>2. answers \in Seq(Answer) /\ Len(answers) = Len(kinds)
        /\ answers[Len(answers)].kind = kinds[Len(kinds)]
    <3>1. /\ answers \in Seq(Answer) /\ Len(answers) = Len(kinds)
          /\ \A i \in 1 .. Len(kinds) : answers[i] = [ seq |-> s.next, kind |-> kinds[i] ]
      BY <1>1, <2>1, AnswersFacts
    <3>2. Len(kinds) \in 1 .. Len(kinds)
      BY <2>1
    <3>3. answers[Len(answers)] = [ seq |-> s.next, kind |-> kinds[Len(kinds)] ]
      BY <3>1, <3>2
    <3>4. QED
      BY <3>1, <3>3
  <2>3. sock'[on].queue = queue
    BY <1>1, <1>4, <2>2, SentFacts
  <2> HIDE DEF answers
  <2>4. queue # << >> /\ queue[Len(queue)] = answers[Len(answers)]
    BY <1>1, <2>1, <2>2 DEF SockType
  <2>5. EndsAnswer(queue[Len(queue)].kind)
    BY <2>1, <2>2, <2>4
  <2>6. QED
    BY <1>2, <2>3, <2>4, <2>5 DEF Waiting
<1>5. QED
  BY <1>2, <1>3, <1>4, SendOutcome

(* What reading leaves.                                                    *)
LEMMA ReceiveOutcome ==
  ASSUME Types, Sited, Receive
  PROVE  LET on == SocketOf(call.req)
             a == sock[on].queue[1]
             ends == a.seq = sock[on].expect /\ EndsAnswer(a.kind)
         IN  /\ sock[on].queue # << >>
             /\ a \in Answer
             /\ sock' \in [ Sockets -> SockType ]
             /\ \A other \in Sockets \ { on } : sock'[other] = sock[other]
             /\ sock'[on].next = sock[on].next
             /\ sock'[on].expect = IF ends THEN sock[on].expect + 1 ELSE sock[on].expect
             /\ sock'[on].queue = Tail(sock[on].queue)
<1> DEFINE on == SocketOf(call.req)
           s == sock[on]
           a == Head(s.queue)
           expect == IF a.seq = s.expect /\ EndsAnswer(a.kind) THEN s.expect + 1 ELSE s.expect
<1>1. call.at \in { "receive", "ack" } /\ s.queue # << >>
  BY DEF Receive
<1>2. call.req \in Requests /\ on \in Sockets /\ s \in SockType
  BY <1>1, InProgress
<1>3. a = s.queue[1] /\ a \in Answer /\ Tail(s.queue) \in Seq(Answer) /\ expect \in Nat \ { 0 }
  BY <1>1, <1>2 DEF SockType
<1>4. sock' = [ sock EXCEPT ![on].queue = Tail(@), ![on].expect = IF a.seq = s.expect /\ EndsAnswer(a.kind) THEN @ + 1 ELSE @ ]
  BY DEF Receive
<1>5. sock'[on] \in SockType
      /\ sock'[on].next = s.next /\ sock'[on].expect = expect /\ sock'[on].queue = Tail(s.queue)
  BY <1>2, <1>3, <1>4, Zenon DEF Types, SockType
<1>6. \A other \in Sockets \ { on } : sock'[other] = sock[other]
  BY <1>2, <1>4, Zenon DEF Types
<1>7. sock' \in [ Sockets -> SockType ]
  <2>1. DOMAIN sock' = Sockets /\ sock' = [ x \in Sockets |-> sock'[x] ]
    BY <1>4 DEF Types
  <2>2. \A x \in Sockets : sock'[x] \in SockType
    BY <1>5, <1>6 DEF Types
  <2>3. QED
    BY <2>1, <2>2
<1>8. QED
  BY <1>1, <1>3, <1>5, <1>6, <1>7

(* What becomes of the request.                                            *)
LEMMA ReturnFacts ==
  ASSUME NEW c \in CallType, NEW result \in { "ok", "failed", "crash" }
  PROVE  /\ Return(c, result) \in CallType
         /\ Return(c, result).req = c.req
         /\ Return(c, result).at = "done"
         /\ Return(c, result).result = result
BY Zenon DEF Return, CallType

LEMMA AfterFacts ==
  ASSUME NEW c \in CallType, NEW kind
  PROVE  /\ After(c, kind) \in CallType
         /\ After(c, kind).req = c.req
         /\ IF c.at = "receive" /\ (c.req = "resolve" \/ (c.req = "get" /\ kind = "object"))
              THEN After(c, kind).at = "ack" /\ After(c, kind).result = c.result
              ELSE After(c, kind).at = "done"
<1>1. CASE c.at = "receive" /\ (c.req = "resolve" \/ (c.req = "get" /\ kind = "object"))
  BY <1>1, Zenon DEF After, CallType
<1>2. CASE ~(c.at = "receive" /\ (c.req = "resolve" \/ (c.req = "get" /\ kind = "object")))
  <2> DEFINE result == IF c.req = "resolve" /\ ~c.object THEN "failed" ELSE "ok"
  <2>1. result \in { "ok", "failed", "crash" }
    OBVIOUS
  <2>2. After(c, kind) = Return(c, result)
    BY <1>2 DEF After
  <2> HIDE DEF result
  <2>3. QED
    BY <1>2, <2>1, <2>2, ReturnFacts
<1>3. QED
  BY <1>1, <1>2

LEMMA AfterErrorFacts ==
  ASSUME NEW c \in CallType
  PROVE  /\ AfterError(c) \in CallType
         /\ AfterError(c).req = c.req
         /\ AfterError(c).at = "done"
         /\ AfterError(c).result = IF c.req = "get" /\ c.at = "ack" THEN "ok" ELSE "failed"
BY ReturnFacts DEF AfterError

LEMMA ReceiveReturns ==
  ASSUME Types, Sited, Receive
  PROVE  LET s == sock[SocketOf(call.req)]
             a == s.queue[1]
             expected == a.seq = s.expect
         IN  /\ call' \in CallType
             /\ call'.req = call.req
             /\ call'.at # "done" => call'.result = "none"
             /\ \/ call'.at = "send" /\ call'.req \in { "link_down", "link_up" }
                \/ call' = call /\ a.kind = "part"
                \/ /\ call.at = "receive" /\ call'.at = "ack"
                   /\ expected /\ a.kind \notin { "error", "unsupported" }
                   /\ call.req = "resolve" \/ a.kind = "object"
                \/ call'.at = "done" /\ call'.result = "failed"
                \/ call'.at = "done" /\ call.req = "get" /\ call.at = "ack"
                \/ /\ call'.at = "done" /\ expected /\ a.kind \notin { "error", "unsupported" }
                   /\ call.req = "resolve" => call.at = "ack"
<1> DEFINE s == sock[SocketOf(call.req)]
           a == s.queue[1]
           expected == a.seq = s.expect
<1>1. call \in CallType /\ call.at \in { "receive", "ack" } /\ call.result = "none"
      /\ a = Head(s.queue)
  BY InProgress DEF Types, Sited, Receive, SockType
<1>2. CASE expected /\ a.kind = "part" /\ call' = call
  BY <1>1, <1>2
<1>3. CASE call.req \in { "link_down", "link_up" } /\ call' = [ call EXCEPT !.at = "send", !.retried = TRUE ]
  <2>1. call' \in CallType /\ call'.at = "send" /\ call'.req = call.req /\ call'.result = call.result
    BY <1>1, <1>3, Zenon DEF CallType
  <2>2. QED
    BY <1>1, <1>3, <2>1
<1>4. CASE expected /\ a.kind \notin { "error", "unsupported" } /\ call' = After(call, a.kind)
  BY <1>1, <1>4, AfterFacts
<1>5. CASE call' = AfterError(call)
  BY <1>1, <1>5, AfterErrorFacts
<1>6. QED
  BY <1>1, <1>2, <1>3, <1>4, <1>5 DEF Receive

LEMMA TailEnds ==
  ASSUME NEW q \in Seq(Answer), q # << >>,
         EndsAnswer(q[Len(q)].kind), ~EndsAnswer(q[1].kind)
  PROVE  Tail(q) # << >> /\ EndsAnswer(Tail(q)[Len(Tail(q))].kind)
<1>1. Len(q) # 1
  OBVIOUS
<1>2. Len(q) > 1
  BY <1>1
<1>3. Len(Tail(q)) = Len(q) - 1 /\ Tail(q)[Len(q) - 1] = q[Len(q)]
  BY <1>2
<1>4. Tail(q)[Len(Tail(q))] = q[Len(q)]
  BY <1>3
<1>5. Tail(q) # << >>
  <2>1. Len(Tail(q)) # 0
    BY <1>2, <1>3
  <2>2. Len(<< >>) = 0
    OBVIOUS
  <2>3. QED
    BY <2>1, <2>2
<1>6. QED
  BY <1>4, <1>5

(* Waiting is over once the last answer has been read.  The case to look   *)
(* at is the wait for an acknowledgement behind another answer.            *)
LEMMA ReceiveWaits ==
  ASSUME Types, Sited, Waiting, Receive,
         (call.req = "resolve" /\ call.at = "receive")
           => sock["generic"].queue[1].kind \in { "object", "error", "unsupported", "lost" }
  PROVE  Waiting'
<1> DEFINE on == SocketOf(call.req)
           s == sock[on]
           q == s.queue
           a == q[1]
<1>1. call.at \in { "receive", "ack" } /\ call.req \in Requests /\ s \in SockType
  BY InProgress DEF Receive
<1>2. q \in Seq(Answer) /\ q # << >> /\ sock'[on].queue = Tail(q) /\ call'.req = call.req
  BY <1>1, ReceiveOutcome, ReceiveReturns DEF SockType
<1>3. EndsAnswer(q[Len(q)].kind) \/ a = LostAnswer
  BY <1>1 DEF Waiting
<1>4. LostAnswer.seq = 0 /\ LostAnswer.kind = "lost" /\ s.expect # 0
  BY <1>1 DEF LostAnswer, SockType
<1>5. ASSUME ~EndsAnswer(a.kind), a # LostAnswer
      PROVE  Waiting'
  BY <1>2, <1>3, <1>5, TailEnds DEF Waiting
<1>6. CASE call'.at \in { "send", "done" }
  BY <1>6 DEF Waiting
<1>7. CASE call' = call /\ a.kind = "part"
  BY <1>4, <1>5, <1>7 DEF EndsAnswer
<1>8. CASE /\ call.at = "receive" /\ a.seq = s.expect /\ a.kind \notin { "error", "unsupported" }
           /\ call.req = "resolve" \/ a.kind = "object"
  <2>1. call.req = "resolve" => on = "generic"
    BY DEF SocketOf
  <2>2. a # LostAnswer
    BY <1>4, <1>8
  <2>3. a.kind \in { "object", "lost" }
    BY <1>8, <2>1
  <2>4. QED
    BY <1>5, <2>2, <2>3 DEF EndsAnswer
<1>9. QED
  BY <1>6, <1>7, <1>8, ReceiveReturns

(* The three ways in which a request returns without an answer.            *)
LEMMA FailureReturns ==
  ASSUME Types, Sited, BuildFails \/ SendFails \/ ReceiveFails
  PROVE  /\ call.at # "done"
         /\ sock' \in [ Sockets -> SockType ]
         /\ \A other \in Sockets \ { SocketOf(call.req) } : sock'[other] = sock[other]
         /\ kernel' = kernel
         /\ call' \in CallType /\ call'.req = call.req /\ call'.at = "done"
         /\ call'.result = "ok" => call.req = "get"
<1> DEFINE on == SocketOf(call.req)
<1>1. call.at # "done" /\ call \in CallType
  BY DEF BuildFails, SendFails, ReceiveFails, Types
<1>2. on \in Sockets /\ sock[on] \in SockType
  BY <1>1, InProgress
<1>3. CASE BuildFails
  <2>1. call' = Return(call, "failed") \/ call' = Return(call, "crash")
    BY <1>3 DEF BuildFails
  <2>2. QED
    BY <1>1, <1>3, <2>1, ReturnFacts DEF BuildFails, Types
<1>4. CASE SendFails
  <2>1. << >> \in Seq(Answer)
    OBVIOUS
  <2>2. Sent(sock[on], << >>) \in SockType
    BY <1>2, <2>1, SentFacts
  <2>3. sock' = [ sock EXCEPT ![on] = Sent(sock[on], << >>) ]
    BY <1>4 DEF SendFails
  <2>4. QED
    BY <1>1, <1>2, <1>4, <2>2, <2>3, ReturnFacts DEF SendFails, Types
<1>5. CASE ReceiveFails
  <2>1. ASSUME sock[on].queue # << >>, sock' = [ sock EXCEPT ![on].queue = Tail(@) ]
        PROVE  /\ sock' \in [ Sockets -> SockType ]
               /\ \A other \in Sockets \ { on } : sock'[other] = sock[other]
    <3>1. Tail(sock[on].queue) \in Seq(Answer)
      BY <1>2, <2>1 DEF SockType
    <3>2. sock'[on] \in SockType /\ \A other \in Sockets \ { on } : sock'[other] = sock[other]
      BY <1>2, <2>1, <3>1, Zenon DEF Types, SockType
    <3>3. DOMAIN sock' = Sockets /\ sock' = [ x \in Sockets |-> sock'[x] ]
      BY <2>1 DEF Types
    <3>4. \A x \in Sockets : sock'[x] \in SockType
      BY <3>2 DEF Types
    <3>5. QED
      BY <3>2, <3>3, <3>4
  <2>2. \/ sock' = sock
        \/ sock[on].queue # << >> /\ sock' = [ sock EXCEPT ![on].queue = Tail(@) ]
    BY <1>2, <1>5 DEF ReceiveFails
  <2>3. call' = AfterError(call) /\ kernel' = kernel
    BY <1>5 DEF ReceiveFails
  <2>4. QED
    BY <1>1, <2>1, <2>2, <2>3, AfterErrorFacts DEF Types
<1>6. QED
  BY <1>3, <1>4, <1>5

(* The kernel only ever comes closer to what the loop needs.               *)
LEMMA KernelGrows ==
  ASSUME Types, Sited, NetlinkStep
  PROVE  /\ kernel' \in Kernel
         /\ kernel.up => kernel'.up
         /\ kernel'.mode \in { kernel.mode, "active" }
<1>1. CASE Send
  <2>1. call.req \in Requests
    BY <1>1, InProgress DEF Send
  <2>2. kernel' \in { kernel, Effect(call.req, kernel) }
    BY <1>1, SendOutcome
  <2>3. QED
    BY <2>1, <2>2, EffectFacts DEF Types
<1>2. CASE Receive
  BY <1>2 DEF Receive, Types
<1>3. CASE BuildFails \/ SendFails \/ ReceiveFails
  BY <1>3, FailureReturns DEF Types
<1>4. QED
  BY <1>1, <1>2, <1>3 DEF NetlinkStep

(* One answer, sent on a socket that is in step.                           *)
LEMMA SentOne ==
  ASSUME NEW s \in SockType, InStep(s), NEW kind \in Kinds,
         NEW t, t = Sent(s, Answers(s, << kind >>))
  PROVE  Unread(t, kind)
<1> DEFINE kinds == << kind >>
<1>1. kinds \in Seq(Kinds) /\ Len(kinds) = 1 /\ kinds[1] = kind
  OBVIOUS
<1>2. t = Sent(s, Answers(s, kinds))
  OBVIOUS
<1> HIDE DEF kinds
<1>3. 1 \in 1 .. Len(kinds)
  BY <1>1
<1>4. /\ Answers(s, kinds) \in Seq(Answer) /\ Len(Answers(s, kinds)) = 1
      /\ Answers(s, kinds)[1] = [ seq |-> s.next, kind |-> kind ]
  BY <1>1, <1>3, AnswersFacts
<1>5. t.next = s.next + 1 /\ t.expect = s.expect /\ t.queue = s.queue \o Answers(s, kinds)
  BY <1>2, <1>4, SentFacts
<1>6. s.queue = << >> /\ s.expect = s.next
  BY DEF InStep
<1>7. t.queue = Answers(s, kinds)
  BY <1>4, <1>5, <1>6
<1>8. QED
  BY <1>4, <1>5, <1>6, <1>7 DEF Unread

(* What happens to an only answer that is read.                            *)
LEMMA ReadOne ==
  ASSUME Types, Sited, Receive, NEW kind \in Kinds, Unread(sock[SocketOf(call.req)], kind)
  PROVE  /\ sock[SocketOf(call.req)].queue[1].kind = kind
         /\ EndsAnswer(kind) => InStep(sock'[SocketOf(call.req)])
<1> DEFINE on == SocketOf(call.req)
           s == sock[on]
<1>1. s \in SockType
  BY InProgress DEF Receive
<1>2. Len(s.queue) = 1 /\ s.queue[1] = [ seq |-> s.expect, kind |-> kind ] /\ s.next = s.expect + 1
  BY DEF Unread
<1>3. s.queue[1].kind = kind /\ s.queue[1].seq = s.expect
  BY <1>2
<1>4. Tail(s.queue) = << >>
  <2>1. s.queue \in Seq(Answer)
    BY <1>1 DEF SockType
  <2>2. Tail(s.queue) \in Seq(Answer) /\ Len(Tail(s.queue)) = 0
    BY <1>2, <2>1
  <2>3. QED
    BY <2>2, EmptySeq
<1>5. QED
  BY <1>2, <1>3, <1>4, ReceiveOutcome DEF InStep

LEMMA ResolvingStep ==
  ASSUME Types, Sited, at = "nl80211_init", Resolving(sock["generic"]), NetlinkStep
  PROVE  Resolving(sock["generic"])'
<1> DEFINE s == sock["generic"]
           t == sock'["generic"]
<1>1. call.req = "resolve" /\ SocketOf(call.req) = "generic" /\ "resolve" \in Requests
  BY DEF Sited, Asks, SocketOf, Requests
<1>2. s \in SockType
  BY DEF Types, Sockets
<1>3. CASE Send
  <2>1. call'.at = "receive" /\ InStep(s)
    BY <1>3, SendWaits DEF Send, Resolving, Types, CallType
  <2>2. CASE t.queue # << >> /\ t.queue[1] = LostAnswer
    BY <2>1, <2>2 DEF Resolving
  <2>3. CASE t = Sent(s, Answers(s, << "error" >>))
    BY <1>2, <2>1, <2>3, SentOne DEF Resolving, Kinds
  <2>4. CASE t = Sent(s, Answers(s, << "unsupported" >>))
    BY <1>2, <2>1, <2>4, SentOne DEF Resolving, Kinds
  <2>5. CASE t = Sent(s, Answers(s, << "object", "ack" >>))
    <3> DEFINE kinds == << "object", "ack" >>
               answers == Answers(s, kinds)
    <3>1. kinds \in Seq(Kinds) /\ Len(kinds) = 2 /\ kinds[1] = "object" /\ kinds[2] = "ack"
      BY DEF Kinds
    <3> HIDE DEF kinds
    <3>2. /\ answers \in Seq(Answer) /\ Len(answers) = 2
          /\ answers[1] = [ seq |-> s.next, kind |-> "object" ]
          /\ answers[2] = [ seq |-> s.next, kind |-> "ack" ]
      BY <1>2, <3>1, AnswersFacts
    <3>3. t.next = s.next + 1 /\ t.expect = s.expect /\ t.queue = s.queue \o answers
      BY <1>2, <2>5, <3>2, SentFacts DEF kinds
    <3>4. s.queue = << >> /\ s.expect = s.next
      BY <2>1 DEF InStep
    <3>5. t.queue = answers
      BY <3>2, <3>3, <3>4
    <3>6. QED
      BY <2>1, <3>2, <3>3, <3>4, <3>5 DEF Resolving
  <2>6. Replies("resolve") = << "object", "ack" >>
    BY DEF Replies
  <2>7. QED
    BY <1>1, <1>3, <2>2, <2>3, <2>4, <2>5, <2>6, SendOutcome DEF KindsFor
<1>4. CASE Receive
  <2>1. call.at \in { "receive", "ack" } /\ s.expect # 0
        /\ LostAnswer.seq = 0 /\ LostAnswer.kind = "lost"
    BY <1>2, <1>4 DEF Receive, SockType, LostAnswer
  <2>2. CASE call'.at = "done" /\ call'.result = "failed"
    BY <2>2 DEF Resolving
  <2>3. CASE Unread(s, "error") \/ Unread(s, "unsupported")
    <3>1. s.queue[1].kind \in { "error", "unsupported" }
      BY <2>3 DEF Unread
    <3>2. QED
      BY <1>1, <1>4, <2>2, <3>1, ReceiveReturns
  <2>4. CASE s.queue # << >> /\ s.queue[1] = LostAnswer
    BY <1>1, <1>4, <2>1, <2>2, <2>4, ReceiveReturns
  <2>5. CASE /\ call.at = "receive" /\ Len(s.queue) = 2 /\ s.next = s.expect + 1
             /\ s.queue[1] = [ seq |-> s.expect, kind |-> "object" ]
             /\ s.queue[2] = [ seq |-> s.expect, kind |-> "ack" ]
    <3>1. s.queue[1].kind = "object" /\ ~EndsAnswer("object")
      BY <2>5 DEF EndsAnswer
    <3>2. call'.at = "ack" \/ (call'.at = "done" /\ call'.result = "failed")
      BY <1>1, <1>4, <2>5, <3>1, ReceiveReturns
    <3>3. t.next = s.next /\ t.expect = s.expect /\ t.queue = Tail(s.queue)
      BY <1>1, <1>4, <3>1, ReceiveOutcome
    <3>4. Len(Tail(s.queue)) = 1 /\ Tail(s.queue)[1] = s.queue[2]
      BY <1>2, <2>5 DEF SockType
    <3>5. Unread(t, "ack")
      BY <2>5, <3>3, <3>4 DEF Unread
    <3>6. QED
      BY <2>2, <3>2, <3>5 DEF Resolving
  <2>6. CASE call.at = "ack" /\ Unread(s, "ack")
    <3>1. InStep(t) /\ s.queue[1].kind = "ack"
      BY <1>1, <1>4, <2>6, ReadOne DEF Kinds, EndsAnswer
    <3>2. call'.at = "done"
      BY <1>1, <1>4, <2>6, <3>1, ReceiveReturns
    <3>3. QED
      BY <3>1, <3>2 DEF Resolving
  <2>7. QED
    BY <2>1, <2>3, <2>4, <2>5, <2>6 DEF Resolving
<1>5. CASE BuildFails \/ SendFails \/ ReceiveFails
  BY <1>1, <1>5, FailureReturns DEF Resolving
<1>6. QED
  BY <1>3, <1>4, <1>5 DEF NetlinkStep

LEMMA SettingModeStep ==
  ASSUME Types, Sited, at = "set_monitor_mode", SettingMode(sock["generic"]), NetlinkStep
  PROVE  SettingMode(sock["generic"])'
<1> DEFINE s == sock["generic"]
           t == sock'["generic"]
<1>1. call.req = "set_monitor_mode" /\ SocketOf(call.req) = "generic"
      /\ "set_monitor_mode" \in Requests
  BY DEF Sited, Asks, SocketOf, Requests
<1>2. s \in SockType
  BY DEF Types, Sockets
<1>3. CASE Send
  <2>1. call'.at = "receive" /\ InStep(s)
    BY <1>3, SendWaits DEF Send, SettingMode, Types, CallType
  <2>2. CASE t.queue # << >> /\ t.queue[1] = LostAnswer
    BY <2>1, <2>2 DEF SettingMode
  <2>3. CASE t = Sent(s, Answers(s, << "error" >>))
    BY <1>2, <2>1, <2>3, SentOne DEF SettingMode, Kinds
  <2>4. CASE t = Sent(s, Answers(s, << "unsupported" >>))
    BY <1>2, <2>1, <2>4, SentOne DEF SettingMode, Kinds
  <2>5. CASE t = Sent(s, Answers(s, << "ack" >>)) /\ kernel' = Effect(call.req, kernel)
    <3>1. kernel'.mode = "active"
      BY <1>1, <2>5, EffectFacts DEF Types
    <3>2. Unread(t, "ack")
      BY <1>2, <2>1, <2>5, SentOne DEF Kinds
    <3>3. QED
      BY <2>1, <3>1, <3>2 DEF SettingMode
  <2>6. Replies("set_monitor_mode") = << "ack" >>
    BY DEF Replies
  <2>7. QED
    BY <1>1, <1>3, <2>2, <2>3, <2>4, <2>5, <2>6, SendOutcome DEF KindsFor
<1>4. CASE Receive
  <2>1. call.at \in { "receive", "ack" } /\ s.expect # 0
        /\ LostAnswer.seq = 0 /\ LostAnswer.kind = "lost" /\ kernel' = kernel
    BY <1>2, <1>4 DEF Receive, SockType, LostAnswer
  <2>2. CASE call'.at = "done" /\ call'.result = "failed"
    BY <2>2 DEF SettingMode
  <2>3. CASE Unread(s, "error") \/ Unread(s, "unsupported")
    <3>1. s.queue[1].kind \in { "error", "unsupported" }
      BY <2>3 DEF Unread
    <3>2. QED
      BY <1>1, <1>4, <2>2, <3>1, ReceiveReturns
  <2>4. CASE s.queue # << >> /\ s.queue[1] = LostAnswer
    BY <1>1, <1>4, <2>1, <2>2, <2>4, ReceiveReturns
  <2>5. CASE Unread(s, "ack") /\ kernel.mode = "active"
    <3>1. s.queue[1].kind = "ack"
      BY <2>5 DEF Unread
    <3>2. call'.at = "done"
      BY <1>1, <1>4, <3>1, ReceiveReturns
    <3>3. QED
      BY <2>1, <2>5, <3>2 DEF SettingMode
  <2>6. QED
    BY <2>1, <2>3, <2>4, <2>5 DEF SettingMode
<1>5. CASE BuildFails \/ SendFails \/ ReceiveFails
  BY <1>1, <1>5, FailureReturns DEF SettingMode
<1>6. QED
  BY <1>3, <1>4, <1>5 DEF NetlinkStep

(* A step of a request stays with the request.                             *)
LEMMA RequestStep ==
  ASSUME Types, Sited, NetlinkStep
  PROVE  /\ call.at # "done" /\ call.req \in Requests
         /\ sock' \in [ Sockets -> SockType ]
         /\ \A other \in Sockets \ { SocketOf(call.req) } : sock'[other] = sock[other]
         /\ call' \in CallType /\ call'.req = call.req
         /\ call'.at # "done" => call'.result = "none"
<1>1. CASE Send
  <2>1. call.at = "send" /\ call.result = "none" /\ call \in CallType
    BY <1>1 DEF Send, Sited, Types
  <2>2. call'.req = call.req /\ call'.result = call.result
    BY <1>1, <2>1, SendWaits, Zenon DEF CallType
  <2>3. QED
    BY <1>1, <2>1, <2>2, InProgress, SendOutcome, SendWaits
<1>2. CASE Receive
  BY <1>2, InProgress, ReceiveOutcome, ReceiveReturns DEF Receive
<1>3. CASE BuildFails \/ SendFails \/ ReceiveFails
  BY <1>3, InProgress, FailureReturns
<1>4. QED
  BY <1>1, <1>2, <1>3 DEF NetlinkStep

LEMMA NetlinkRequestStep ==
  ASSUME StartupInv, NetlinkRequest
  PROVE  StartupInv'
<1>1. /\ NetlinkStep /\ at' = at /\ options' = options /\ io' = io
      /\ Types /\ Sited /\ Waiting /\ Generic /\ Progress
  BY DEF NetlinkRequest, StartupInv
<1>2. Types'
  BY <1>1, RequestStep, KernelGrows DEF Types
<1>3. Asks(at) # { } /\ call.req \in Asks(at)
  BY <1>1, RequestStep DEF Sited
<1>4. Sited'
  BY <1>1, <1>3, RequestStep DEF Sited
<1>5. Generic'
  <2>1. at \notin { "netutils_init", "wlan" }
    BY <1>3 DEF Asks
  <2>2. CASE at = "link_down"
    <3>1. SocketOf(call.req) = "route"
      BY <1>3, <2>2 DEF Asks, SocketOf
    <3>2. sock'["generic"] = sock["generic"]
      BY <1>1, <3>1, RequestStep DEF Sockets
    <3>3. QED
      BY <1>1, <2>2, <3>2 DEF Generic
  <2>3. CASE at = "nl80211_init"
    BY <1>1, <2>3, ResolvingStep DEF Generic
  <2>4. CASE at = "set_monitor_mode"
    BY <1>1, <2>4, SettingModeStep DEF Generic
  <2>5. QED
    BY <1>1, <2>1, <2>2, <2>3, <2>4 DEF Generic
<1>6. Waiting'
  <2>1. CASE Send
    BY <1>1, <2>1, SendWaits
  <2>2. CASE Receive
    <3>1. ASSUME call.req = "resolve", call.at = "receive"
          PROVE  sock["generic"].queue[1].kind \in { "object", "error", "unsupported", "lost" }
      <4>1. at = "nl80211_init"
        BY <1>1, <1>3, <3>1 DEF Asks, Types, Places
      <4>2. QED
        BY <1>1, <3>1, <4>1 DEF Generic, Resolving, Unread, LostAnswer
    <3>2. QED
      BY <1>1, <2>2, <3>1, ReceiveWaits
  <2>3. CASE BuildFails \/ SendFails \/ ReceiveFails
    BY <1>1, <2>3, FailureReturns DEF Waiting
  <2>4. QED
    BY <1>1, <2>1, <2>2, <2>3 DEF NetlinkStep
<1>7. Progress'
  BY <1>1, KernelGrows DEF Progress, DeviceReady
<1>8. QED
  BY <1>2, <1>4, <1>5, <1>6, <1>7 DEF StartupInv
-----------------------------------------------------------------------------
(* The places at which no request is in progress, and those that make one. *)
LEMMA AsksFacts ==
  /\ \A place \in { "netutils_init", "wlan", "open device", "host", "schedule", "loop" }
       \cup Stopped : Asks(place) = { }
  /\ Asks("nl80211_init") = { "resolve" }
  /\ Asks("link_down") = { "get", "link_down" }
  /\ Asks("set_monitor_mode") = { "set_monitor_mode" }
  /\ Asks("link_up") = { "get", "link_up" }
  /\ Asks("address") = { "get" }
  /\ Asks("switch channel") = { "is_channel_available", "set_channel" }
  /\ Asks("neighbor") = { "neighbor_add", "neighbor_remove" }
BY DEF Asks, Stopped

(* The daemon makes a request, or goes on without one.                     *)
LEMMA Calls ==
  ASSUME StartupInv, NEW place \in Places, NEW req \in Asks(place), req \in Requests,
         Call(req, place), options' = options, io' \in IoType
  PROVE  /\ Types' /\ Sited' /\ Waiting'
         /\ call'.at = "send" /\ sock' = sock /\ kernel' = kernel /\ at' = place
<1>1. /\ Request(req) \in CallType /\ Request(req).req = req
      /\ Request(req).at = "send" /\ Request(req).result = "none"
  <2>1. NoCall \in CallType /\ NoCall.result = "none"
    BY DEF NoCall, CallType
  <2>2. Request(req) = [ NoCall EXCEPT !.req = req, !.at = "send" ]
    BY DEF Request
  <2>3. QED
    BY <2>1, <2>2, Zenon DEF CallType
<1>2. call' = Request(req) /\ at' = place /\ sock' = sock /\ kernel' = kernel
  BY DEF Call
<1>3. Types'
  BY <1>1, <1>2 DEF StartupInv, Types
<1>4. Sited' /\ Waiting'
  BY <1>1, <1>2 DEF Sited, Waiting
<1>5. QED
  BY <1>1, <1>2, <1>3, <1>4

LEMMA Goes ==
  ASSUME StartupInv, call.at = "done", NEW place \in Places, Asks(place) = { },
         at' = place, UNCHANGED << sock, call, kernel >>, options' = options, io' \in IoType
  PROVE  Types' /\ Sited' /\ Waiting'
BY DEF StartupInv, Types, Sited, Waiting

(* At the end, nothing is promised.                                        *)
LEMMA Stops ==
  ASSUME StartupInv, call.at = "done", NEW place \in Stopped,
         at' = place, UNCHANGED << sock, call, kernel >>, options' = options, io' \in IoType
  PROVE  StartupInv'
<1>1. Types' /\ Sited' /\ Waiting'
  BY AsksFacts, Goes DEF Places
<1>2. Generic' /\ Progress'
  BY DEF Generic, Progress, Stopped, Running
<1>3. QED
  BY <1>1, <1>2 DEF StartupInv

LEMMA CrashStep == ASSUME StartupInv, Crash PROVE StartupInv'
<1>1. call.at = "done"
  BY DEF Crash, StartupInv, Sited
<1>2. at' = "crash" /\ UNCHANGED << sock, call, kernel, options, io >> /\ io \in IoType
  BY DEF Crash, Goto, KeepIo, StartupInv, Types
<1>3. QED
  BY <1>1, <1>2, Stops DEF Stopped

LEMMA NetutilsInitStep == ASSUME StartupInv, NetutilsInit PROVE StartupInv'
<1>1. UNCHANGED << options, io >> /\ io \in IoType
      /\ Types /\ Sited /\ Waiting /\ Generic /\ Progress
  BY DEF NetutilsInit, KeepIo, StartupInv, Types
<1>2. CASE at = "netutils_init" /\ Call("resolve", "nl80211_init")
  <2>1. Types' /\ Sited' /\ Waiting' /\ call'.at = "send" /\ sock' = sock /\ at' = "nl80211_init"
    BY <1>1, <1>2, AsksFacts, Calls DEF Places, Requests
  <2>2. Generic'
    BY <1>1, <1>2, <2>1 DEF Generic, Resolving
  <2>3. Progress'
    BY <2>1 DEF Progress, Running
  <2>4. QED
    BY <2>1, <2>2, <2>3 DEF StartupInv
<1>3. CASE at = "netutils_init" /\ Fails
  <2>1. call.at = "done"
    BY <1>1, <1>3, AsksFacts DEF Sited
  <2>2. QED
    BY <1>1, <1>3, <2>1, Stops DEF Fails, Stopped
<1>4. CASE at = "nl80211_init" /\ call.at = "done" /\ Goto(IF Ok THEN "wlan" ELSE "exit")
  <2>1. CASE Ok
    <3>1. at' = "wlan" /\ UNCHANGED << sock, call, kernel >>
      BY <1>4, <2>1 DEF Goto
    <3>2. Types' /\ Sited' /\ Waiting'
      BY <1>1, <1>4, <3>1, AsksFacts, Goes DEF Places
    <3>3. Generic'
      BY <1>1, <1>4, <2>1, <3>1 DEF Generic, Resolving, Ok
    <3>4. Progress'
      BY <3>1 DEF Progress, Running
    <3>5. QED
      BY <3>2, <3>3, <3>4 DEF StartupInv
  <2>2. CASE ~Ok
    BY <1>1, <1>4, <2>2, Stops DEF Goto, Stopped
  <2>3. QED
    BY <2>1, <2>2
<1>5. QED
  BY <1>2, <1>3, <1>4 DEF NetutilsInit, Back, Returned

LEMMA OpenSavefileStep == ASSUME StartupInv, OpenSavefile PROVE StartupInv'
<1>1. at = "wlan" /\ at' = "host" /\ UNCHANGED << sock, call, kernel, options >>
      /\ io' = [ io EXCEPT !.wlan_is_file = TRUE, !.wlan_fd = "open" ]
  BY DEF OpenSavefile, Goto
<1>2. Types /\ Sited /\ io \in IoType
  BY DEF StartupInv, Types
<1>3. io' \in IoType /\ io'.wlan_is_file
  BY <1>1, <1>2, Zenon DEF IoType
<1>4. Types' /\ Sited' /\ Waiting'
  BY <1>1, <1>2, <1>3, AsksFacts, Goes DEF Places, Sited
<1>5. Generic' /\ Progress'
  BY <1>1, <1>3 DEF Generic, Progress, Running
<1>6. QED
  BY <1>4, <1>5 DEF StartupInv

LEMMA FindDeviceStep == ASSUME StartupInv, FindDevice PROVE StartupInv'
<1>1. UNCHANGED << options, io >> /\ io \in IoType /\ at = "wlan"
      /\ Types /\ Sited /\ Waiting /\ Generic /\ Progress
  BY DEF FindDevice, KeepIo, StartupInv, Types
<1>2. CASE Call("get", "link_down")
  <2>1. Types' /\ Sited' /\ Waiting' /\ sock' = sock /\ at' = "link_down"
    BY <1>1, <1>2, AsksFacts, Calls DEF Places, Requests
  <2>2. Generic' /\ Progress'
    BY <1>1, <2>1 DEF Generic, Progress, Running
  <2>3. QED
    BY <2>1, <2>2 DEF StartupInv
<1>3. CASE Goto("exit") \/ Fails
  <2>1. call.at = "done"
    BY <1>1, AsksFacts DEF Sited
  <2>2. QED
    BY <1>1, <1>3, <2>1, Stops DEF Goto, Fails, Stopped
<1>4. QED
  BY <1>2, <1>3 DEF FindDevice

(* link_updown, for either direction.                                      *)
LEMMA LinkUpdownStep ==
  ASSUME StartupInv, NEW direction \in { "link_down", "link_up" }, LinkUpdown(direction)
  PROVE  StartupInv'
<1>1. UNCHANGED << options, io >> /\ io \in IoType /\ at = direction /\ call.at = "done"
      /\ Types /\ Sited /\ Waiting /\ Generic /\ Progress
  BY DEF LinkUpdown, Back, Returned, KeepIo, StartupInv, Types
<1>2. CASE Call(direction, direction)
  <2>1. /\ Types' /\ Sited' /\ Waiting'
        /\ sock' = sock /\ kernel' = kernel /\ at' = direction
    BY <1>1, <1>2, AsksFacts, Calls DEF Places, Requests
  <2>2. Generic' /\ Progress'
    BY <1>1, <2>1 DEF Generic, Progress, Running
  <2>3. QED
    BY <2>1, <2>2 DEF StartupInv
<1>3. CASE Goto("exit") \/ Goto("crash")
  BY <1>1, <1>3, Stops DEF Goto, Stopped
<1>4. QED
  BY <1>2, <1>3 DEF LinkUpdown

LEMMA LinkDownStep == ASSUME StartupInv, LinkDown PROVE StartupInv'
<1>1. CASE LinkUpdown("link_down")
  BY <1>1, LinkUpdownStep
<1>2. CASE /\ Back("link_down", "link_down")
           /\ IF options.no_monitor_mode THEN Call("get", "link_up")
              ELSE Call("set_monitor_mode", "set_monitor_mode")
           /\ KeepIo
  <2>1. UNCHANGED << options, io >> /\ io \in IoType /\ at = "link_down"
        /\ Types /\ Sited /\ Waiting /\ Generic /\ Progress
    BY <1>2 DEF Back, KeepIo, StartupInv, Types
  <2>2. CASE options.no_monitor_mode /\ Call("get", "link_up")
    <3>1. Types' /\ Sited' /\ Waiting' /\ at' = "link_up"
      BY <2>1, <2>2, AsksFacts, Calls DEF Places, Requests
    <3>2. Generic' /\ Progress'
      BY <2>1, <2>2, <3>1 DEF Generic, Progress, Running
    <3>3. QED
      BY <3>1, <3>2 DEF StartupInv
  <2>3. CASE Call("set_monitor_mode", "set_monitor_mode")
    <3>1. /\ Types' /\ Sited' /\ Waiting'
          /\ call'.at = "send" /\ sock' = sock /\ at' = "set_monitor_mode"
      BY <2>1, <2>3, AsksFacts, Calls DEF Places, Requests
    <3>2. Generic' /\ Progress'
      BY <2>1, <3>1 DEF Generic, SettingMode, Progress, Running
    <3>3. QED
      BY <3>1, <3>2 DEF StartupInv
  <2>4. QED
    BY <1>2, <2>2, <2>3
<1>3. QED
  BY <1>1, <1>2 DEF LinkDown

LEMMA SetMonitorModeStep == ASSUME StartupInv, SetMonitorMode PROVE StartupInv'
<1>1. UNCHANGED << options, io >> /\ io \in IoType
      /\ at = "set_monitor_mode" /\ call.at = "done"
      /\ Types /\ Sited /\ Waiting /\ Generic /\ Progress
  BY DEF SetMonitorMode, Back, Returned, KeepIo, StartupInv, Types
<1>2. CASE Ok /\ Call("get", "link_up")
  <2>1. Types' /\ Sited' /\ Waiting' /\ kernel' = kernel /\ at' = "link_up"
    BY <1>1, <1>2, AsksFacts, Calls DEF Places, Requests
  <2>2. kernel.mode = "active"
    BY <1>1, <1>2 DEF Generic, SettingMode, Ok
  <2>3. Generic' /\ Progress'
    BY <2>1, <2>2 DEF Generic, Progress, Running
  <2>4. QED
    BY <2>1, <2>3 DEF StartupInv
<1>3. CASE Goto("exit")
  BY <1>1, <1>3, Stops DEF Goto, Stopped
<1>4. QED
  BY <1>2, <1>3 DEF SetMonitorMode

LEMMA LinkUpStep == ASSUME StartupInv, LinkUp PROVE StartupInv'
<1>1. CASE LinkUpdown("link_up")
  BY <1>1, LinkUpdownStep
<1>2. CASE Back("link_up", "link_up") /\ Goto("open device") /\ KeepIo
  <2>1. /\ UNCHANGED << sock, call, kernel, options, io >> /\ io \in IoType
        /\ at = "link_up" /\ call.at = "done" /\ at' = "open device" /\ Progress
    BY <1>2 DEF Back, Returned, Goto, KeepIo, StartupInv, Types
  <2>2. Types' /\ Sited' /\ Waiting'
    BY <2>1, AsksFacts, Goes DEF Places
  <2>3. Generic' /\ Progress'
    BY <2>1 DEF Generic, Progress, Running
  <2>4. QED
    BY <2>2, <2>3 DEF StartupInv
<1>3. QED
  BY <1>1, <1>2 DEF LinkUp

LEMMA OpenNonblockingDeviceStep == ASSUME StartupInv, OpenNonblockingDevice PROVE StartupInv'
<1>1. options' = options /\ io \in IoType /\ at = "open device" /\ call.at = "done"
      /\ Types /\ Progress
  BY AsksFacts DEF OpenNonblockingDevice, StartupInv, Types, Sited
<1>2. CASE /\ kernel.up /\ kernel.mode # "managed" /\ Call("get", "address")
           /\ io' = [ io EXCEPT !.wlan_fd = "open" ]
  <2>1. io' \in IoType /\ io'.wlan_fd = "open" /\ io'.wlan_is_file = io.wlan_is_file
    BY <1>1, <1>2, Zenon DEF IoType
  <2>2. Types' /\ Sited' /\ Waiting' /\ kernel' = kernel /\ at' = "address"
    BY <1>1, <1>2, <2>1, AsksFacts, Calls DEF Places, Requests
  <2>3. Generic' /\ Progress'
    BY <1>1, <1>2, <2>1, <2>2 DEF Generic, Progress, DeviceReady, Running
  <2>4. QED
    BY <2>2, <2>3 DEF StartupInv
<1>3. CASE at' = "host" /\ UNCHANGED << sock, call, kernel >>
           /\ io' = [ io EXCEPT !.wlan_fd = "failed" ]
  <2>1. io' \in IoType /\ io'.wlan_fd = "failed" /\ io'.wlan_is_file = io.wlan_is_file
    BY <1>1, <1>3, Zenon DEF IoType
  <2>2. Types' /\ Sited' /\ Waiting'
    BY <1>1, <1>3, <2>1, AsksFacts, Goes DEF Places
  <2>3. Generic' /\ Progress'
    BY <1>1, <1>3, <2>1 DEF Generic, Progress, Running
  <2>4. QED
    BY <2>2, <2>3 DEF StartupInv
<1>4. QED
  BY <1>2, <1>3 DEF OpenNonblockingDevice, Goto

LEMMA LinkEtherAddrGetStep == ASSUME StartupInv, LinkEtherAddrGet PROVE StartupInv'
<1>1. options' = options /\ io \in IoType /\ at = "address" /\ call.at = "done" /\ Progress
  BY DEF LinkEtherAddrGet, Back, Returned, StartupInv, Types
<1>2. /\ UNCHANGED << sock, call, kernel >> /\ at' \in { "exit", "crash", "host" }
      /\ at' = "host" => Ok /\ call.object
      /\ io' = IF Ok /\ call.object THEN [ io EXCEPT !.if_ether_addr = "known" ] ELSE io
  BY DEF LinkEtherAddrGet, Goto
<1>3. CASE at' = "host"
  <2>1. /\ io' \in IoType /\ io'.if_ether_addr = "known"
        /\ io'.wlan_fd = io.wlan_fd /\ io'.wlan_is_file = io.wlan_is_file
    BY <1>1, <1>2, <1>3, Zenon DEF IoType
  <2>2. Types' /\ Sited' /\ Waiting'
    BY <1>1, <1>2, <1>3, <2>1, AsksFacts, Goes DEF Places
  <2>3. Generic' /\ Progress'
    BY <1>1, <1>2, <1>3, <2>1 DEF Generic, Progress, DeviceReady, Running
  <2>4. QED
    BY <2>2, <2>3 DEF StartupInv
<1>4. CASE at' \in { "exit", "crash" }
  <2>1. io' \in IoType
    BY <1>1, <1>2, Zenon DEF IoType
  <2>2. QED
    BY <1>1, <1>2, <1>4, <2>1, Stops DEF Stopped
<1>5. QED
  BY <1>2, <1>3, <1>4

LEMMA InitHostStep == ASSUME StartupInv, InitHost PROVE StartupInv'
<1>1. options' = options /\ options \in Options /\ io \in IoType /\ at = "host" /\ call.at = "done"
      /\ Progress
  BY AsksFacts DEF InitHost, StartupInv, Types, Sited
<1>2. CASE Goto("schedule") /\ io' = IF options.host THEN [ io EXCEPT !.host_fd = "open" ] ELSE io
  <2>1. /\ io' \in IoType /\ io'.wlan_fd = io.wlan_fd /\ io'.wlan_is_file = io.wlan_is_file
        /\ io'.if_ether_addr = io.if_ether_addr
        /\ options.host => io'.host_fd = "open"
    <3>1. CASE options.host
      BY <1>1, <1>2, <3>1, Zenon DEF IoType
    <3>2. CASE ~options.host
      BY <1>1, <1>2, <3>2
    <3>3. QED
      BY <3>1, <3>2
  <2>2. at' = "schedule" /\ UNCHANGED << sock, call, kernel >>
    BY <1>2 DEF Goto
  <2>3. Types' /\ Sited' /\ Waiting'
    BY <1>1, <2>1, <2>2, AsksFacts, Goes DEF Places
  <2>4. Generic' /\ Progress'
    BY <1>1, <2>1, <2>2 DEF Generic, Progress, DeviceReady, Running
  <2>5. QED
    BY <2>3, <2>4 DEF StartupInv
<1>3. CASE Fails /\ io' = io
  BY <1>1, <1>3, Stops DEF Fails, Stopped
<1>4. QED
  BY <1>2, <1>3 DEF InitHost

(* The loop is entered with both descriptors, or not at all.               *)
LEMMA ScheduleStep == ASSUME StartupInv, Schedule PROVE StartupInv'
<1>1. UNCHANGED << sock, call, kernel, options, io >> /\ io \in IoType
      /\ at = "schedule" /\ call.at = "done" /\ Progress
  BY AsksFacts DEF Schedule, Goto, KeepIo, StartupInv, Types, Sited
<1>2. at' = "abort" \/ (at' = "loop" /\ io.wlan_fd # "failed")
  BY DEF Schedule, Started, Goto
<1>3. CASE at' = "abort"
  BY <1>1, <1>3, Stops DEF Stopped
<1>4. CASE at' = "loop" /\ io.wlan_fd # "failed"
  <2>1. Types' /\ Sited' /\ Waiting'
    BY <1>1, <1>4, AsksFacts, Goes DEF Places
  <2>2. Generic' /\ Progress'
    BY <1>1, <1>4 DEF Generic, Progress, DeviceReady, Running
  <2>3. QED
    BY <2>1, <2>2 DEF StartupInv
<1>5. QED
  BY <1>2, <1>3, <1>4

(* From one place of the loop to another.                                  *)
LEMMA LoopStep ==
  ASSUME StartupInv, at \in Running, at' \in Running,
         Types', Sited', Waiting', UNCHANGED << kernel, options, io >>
  PROVE  StartupInv'
<1>1. Generic' /\ Progress'
  BY DEF StartupInv, Generic, Progress, DeviceReady, Running
<1>2. QED
  BY <1>1 DEF StartupInv

LEMMA SwitchChannelStep == ASSUME StartupInv, SwitchChannel PROVE StartupInv'
<1>1. UNCHANGED << options, io >> /\ io \in IoType /\ at \in { "loop", "switch channel" }
      /\ call.at = "done"
  BY AsksFacts DEF SwitchChannel, Back, Returned, KeepIo, StartupInv, Types, Sited
<1>2. CASE \E req \in { "is_channel_available", "set_channel" } : Call(req, "switch channel")
  BY <1>1, <1>2, AsksFacts, Calls, LoopStep DEF Places, Requests, Running
<1>3. CASE Goto("loop")
  <2>1. at' = "loop" /\ UNCHANGED << sock, call, kernel >>
    BY <1>3 DEF Goto
  <2>2. QED
    BY <1>1, <2>1, AsksFacts, Goes, LoopStep DEF Places, Running
<1>4. QED
  BY <1>2, <1>3 DEF SwitchChannel

LEMMA NeighborStep == ASSUME StartupInv, Neighbor PROVE StartupInv'
<1>1. UNCHANGED << options, io >> /\ io \in IoType /\ at \in { "loop", "neighbor" }
      /\ call.at = "done"
  BY AsksFacts DEF Neighbor, Back, Returned, KeepIo, StartupInv, Types, Sited
<1>2. CASE \E req \in { "neighbor_add", "neighbor_remove" } : Call(req, "neighbor")
  BY <1>1, <1>2, AsksFacts, Calls, LoopStep DEF Places, Requests, Running
<1>3. CASE Goto("loop")
  <2>1. at' = "loop" /\ UNCHANGED << sock, call, kernel >>
    BY <1>3 DEF Goto
  <2>2. QED
    BY <1>1, <2>1, AsksFacts, Goes, LoopStep DEF Places, Running
<1>4. QED
  BY <1>2, <1>3 DEF Neighbor

(* A start, the first or another.                                          *)
LEMMA Starting ==
  ASSUME sock = [ on \in Sockets |-> NewSocket ], call = NoCall, at = "netutils_init", io = NewIo,
         kernel \in Kernel, options \in Options
  PROVE  StartupInv
<1>1. NewSocket \in SockType /\ InStep(NewSocket)
  BY DEF NewSocket, SockType, InStep
<1>2. NoCall \in CallType /\ NoCall.at = "done"
  BY DEF NoCall, CallType
<1>3. NewIo \in IoType
  BY DEF NewIo, IoType
<1>4. Types
  BY <1>1, <1>2, <1>3 DEF Types, Places
<1>5. Sited /\ Waiting
  BY <1>2, AsksFacts DEF Sited, Waiting
<1>6. Generic /\ Progress
  BY <1>1 DEF Generic, Progress, Running, Sockets
<1>7. QED
  BY <1>4, <1>5, <1>6 DEF StartupInv

LEMMA RestartStep == ASSUME StartupInv, Restart PROVE StartupInv'
<1>1. kernel \in Kernel /\ options \in Options
  BY DEF StartupInv, Types
<1>2. /\ sock' = [ on \in Sockets |-> NewSocket ] /\ call' = NoCall
      /\ at' = "netutils_init" /\ io' = NewIo /\ options' = options
      /\ kernel' = [ kernel EXCEPT !.neighbor = FALSE ]
  BY DEF Restart
<1>3. kernel' \in Kernel
  BY <1>1, <1>2 DEF Kernel
<1>4. NewSocket \in SockType /\ InStep(NewSocket)
  BY DEF NewSocket, SockType, InStep
<1>5. NoCall \in CallType /\ NoCall.at = "done"
  BY DEF NoCall, CallType
<1>6. NewIo \in IoType
  BY DEF NewIo, IoType
<1>7. Types'
  BY <1>1, <1>2, <1>3, <1>4, <1>5, <1>6 DEF Types, Places
<1>8. Sited' /\ Waiting'
  BY <1>2, <1>5, AsksFacts DEF Sited, Waiting
<1>9. Generic' /\ Progress'
  BY <1>2, <1>4 DEF Generic, Progress, Running, Sockets
<1>10. QED
  BY <1>7, <1>8, <1>9 DEF StartupInv
-----------------------------------------------------------------------------
LEMMA StartupInvInit == Init => StartupInv
<1>1. SUFFICES ASSUME Init PROVE StartupInv
  OBVIOUS
<1>2. kernel \in Kernel
  BY <1>1 DEF Init, Kernel
<1>3. QED
  BY <1>1, <1>2, Starting DEF Init

LEMMA StartupInvNext == StartupInv /\ [Next]_vars => StartupInv'
<1> SUFFICES ASSUME StartupInv, [Next]_vars PROVE StartupInv'
  OBVIOUS
<1>1. CASE UNCHANGED vars
  <2>1. UNCHANGED << sock, call, kernel, at, options, io >>
    BY <1>1 DEF vars, netlinkVars
  <2>2. Types' /\ Sited' /\ Waiting'
    BY <2>1 DEF StartupInv, Types, Sited, Waiting
  <2>3. Generic'
    BY <2>1 DEF StartupInv, Generic, Resolving, SettingMode
  <2>4. Progress'
    BY <2>1 DEF StartupInv, Progress, DeviceReady
  <2>5. QED
    BY <2>2, <2>3, <2>4 DEF StartupInv
<1>2. CASE NetutilsInit \/ OpenSavefile \/ FindDevice \/ LinkDown \/ SetMonitorMode \/ LinkUp
  BY <1>2, NetutilsInitStep, OpenSavefileStep, FindDeviceStep, LinkDownStep, SetMonitorModeStep,
     LinkUpStep
<1>3. CASE OpenNonblockingDevice \/ LinkEtherAddrGet \/ InitHost \/ Schedule
  BY <1>3, OpenNonblockingDeviceStep, LinkEtherAddrGetStep, InitHostStep, ScheduleStep
<1>4. CASE SwitchChannel \/ Neighbor \/ NetlinkRequest \/ Crash \/ Restart
  BY <1>4, SwitchChannelStep, NeighborStep, NetlinkRequestStep, CrashStep, RestartStep
<1>5. QED
  BY <1>1, <1>2, <1>3, <1>4 DEF Next

LEMMA StartupInvariant == Spec => []StartupInv
BY StartupInvInit, StartupInvNext, PTL DEF Spec

(* Whatever fails, an answer or the report of a lost one is there whenever *)
(* the thread waits on a socket (netutils.c:219).                          *)
THEOREM AnswersArrive == Spec => []NeverBlocks
<1>1. StartupInv => NeverBlocks
  BY DEF StartupInv, Waiting, NeverBlocks
<1>2. QED
  BY <1>1, StartupInvariant, PTL

(* The loop runs only on a device that is up, open, in the mode that was   *)
(* asked for and of known address, although the results of opening it and  *)
(* of changing its link are not looked at (io.c:293, netutils.c:437).      *)
THEOREM LoopOnReadyDevice == Spec => []LoopMeansReady
<1>1. StartupInv => LoopMeansReady
  BY DEF StartupInv, Progress, DeviceReady, LoopMeansReady, Running
<1>2. QED
  BY <1>1, StartupInvariant, PTL
-----------------------------------------------------------------------------
(* The types of the counters, and the order of the answers.  The address   *)
(* is asked for only once the device is open, and only then: what is known *)
(* of it cannot outlive a device that does not open.                       *)
Ordered(s) ==
  /\ s.expect <= s.next
  /\ \A i \in 1 .. Len(s.queue) : s.queue[i].kind # "lost" =>
       /\ s.queue[i].seq < s.next
       /\ \A j \in 1 .. i : s.queue[j].seq <= s.queue[i].seq

Opening == { "netutils_init", "nl80211_init", "wlan", "link_down", "set_monitor_mode", "link_up",
             "open device", "address" }

Addressed ==
  /\ at \in Opening => io.if_ether_addr = "unset"
  /\ io.if_ether_addr = "known" => io.wlan_fd = "open"

Counted ==
  /\ failures \in 0 .. MaxFailures /\ starts \in 1 .. MaxStarts
  /\ current \in BOOLEAN /\ wanted \in BOOLEAN /\ found \in Kernel

OrderInv ==
  /\ StartupInv
  /\ \A on \in Sockets : Ordered(sock[on])
  /\ Addressed
  /\ Counted

LEMMA AnswerFacts ==
  ASSUME NEW a \in Answer
  PROVE  a.seq \in Nat /\ (a.kind = "lost" => a.seq = 0) /\ (a.seq = 0 => a = LostAnswer)
BY DEF Answer, LostAnswer, Kinds

(* Answers with the number of the request behind those that wait.          *)
LEMMA SentOrdered ==
  ASSUME NEW s \in SockType, Ordered(s), NEW kinds \in Seq(Kinds)
  PROVE  Ordered(Sent(s, Answers(s, kinds)))
<1> DEFINE answers == Answers(s, kinds)
           t == Sent(s, answers)
           q == s.queue
           r == q \o answers
<1>1. /\ answers \in Seq(Answer) /\ Len(answers) = Len(kinds)
      /\ \A i \in 1 .. Len(kinds) : answers[i] = [ seq |-> s.next, kind |-> kinds[i] ]
  BY AnswersFacts
<1>2. t.next = s.next + 1 /\ t.expect = s.expect /\ t.queue = r
  BY <1>1, SentFacts
<1>3. q \in Seq(Answer) /\ s.next \in Nat /\ s.expect \in Nat
  BY DEF SockType
<1> HIDE DEF t, answers, q
<1>4. /\ Len(q) \in Nat /\ Len(answers) \in Nat /\ Len(r) = Len(q) + Len(answers)
      /\ \A i \in 1 .. Len(q) : r[i] = q[i]
      /\ \A i \in Len(q) + 1 .. Len(q) + Len(answers) : r[i] = answers[i - Len(q)]
  BY <1>1, <1>3
<1>5. ASSUME NEW i \in Len(q) + 1 .. Len(q) + Len(answers) PROVE r[i].seq = s.next
  <2> DEFINE x == i - Len(q)
  <2>1. x \in 1 .. Len(kinds) /\ r[i] = answers[x]
    BY <1>1, <1>4
  <2> HIDE DEF x
  <2>2. answers[x] = [ seq |-> s.next, kind |-> kinds[x] ]
    BY <1>1, <2>1, Zenon
  <2>3. QED
    BY <2>1, <2>2
<1>6. ASSUME NEW i \in 1 .. Len(q) PROVE r[i] = q[i] /\ q[i] \in Answer /\ q[i].seq \in Nat
  BY <1>3, <1>4, AnswerFacts
<1>7. ASSUME NEW i \in 1 .. Len(q) PROVE q[i].seq <= s.next
  <2>1. q[i].kind = "lost" => q[i].seq = 0
    BY <1>6, AnswerFacts
  <2>2. q[i].kind # "lost" => q[i].seq < s.next
    BY DEF Ordered, q
  <2>3. QED
    BY <1>3, <1>6, <2>1, <2>2
<1>8. ASSUME NEW i \in 1 .. Len(q), q[i].kind # "lost"
      PROVE  q[i].seq < s.next /\ \A j \in 1 .. i : q[j].seq <= q[i].seq
  BY <1>8 DEF Ordered, q
<1> HIDE DEF r
<1>9. \A i \in 1 .. Len(r) : i \in 1 .. Len(q) \/ i \in Len(q) + 1 .. Len(q) + Len(answers)
  BY <1>4
<1>10. ASSUME NEW i \in 1 .. Len(r), r[i].kind # "lost"
       PROVE  r[i].seq < s.next + 1 /\ \A j \in 1 .. i : r[j].seq <= r[i].seq
  <2>1. CASE i \in 1 .. Len(q)
    <3>1. r[i] = q[i] /\ \A j \in 1 .. i : j \in 1 .. Len(q) /\ r[j] = q[j]
      BY <1>4, <2>1
    <3>2. q[i].seq < s.next /\ \A j \in 1 .. i : q[j].seq <= q[i].seq
      BY <1>8, <1>10, <2>1, <3>1
    <3>3. q[i].seq < s.next + 1
      BY <1>3, <1>6, <2>1, <3>2
    <3>4. QED
      BY <3>1, <3>2, <3>3
  <2>2. CASE i \in Len(q) + 1 .. Len(q) + Len(answers)
    <3>1. r[i].seq = s.next
      BY <1>5, <2>2
    <3>2. \A j \in 1 .. i : j \in 1 .. Len(r)
      BY <1>4
    <3>3. \A j \in 1 .. i : r[j].seq <= s.next
      BY <1>3, <1>5, <1>6, <1>7, <1>9, <3>2
    <3>4. QED
      BY <1>3, <3>1, <3>3
  <2>3. QED
    BY <1>9, <2>1, <2>2
<1>11. t.expect <= t.next
  BY <1>2, <1>3 DEF Ordered
<1>12. QED
  BY <1>2, <1>10, <1>11 DEF Ordered, t, answers

(* The report of a lost answer comes first and has no number.              *)
LEMMA LostOrdered ==
  ASSUME NEW s \in SockType, Ordered(s), NEW t \in SockType,
         t.next = s.next, t.expect = s.expect, t.queue = << LostAnswer >> \o s.queue
  PROVE  Ordered(t)
<1> DEFINE q == s.queue
           r == t.queue
<1>1. q \in Seq(Answer) /\ s.next \in Nat /\ LostAnswer.seq = 0 /\ LostAnswer.kind = "lost"
  BY DEF SockType, LostAnswer
<1>2. LostAnswer \in Answer
  BY DEF Answer
<1>3. /\ Len(q) \in Nat /\ Len(r) = Len(q) + 1 /\ r[1] = LostAnswer
      /\ \A i \in 2 .. Len(q) + 1 : r[i] = q[i - 1]
  BY <1>1, <1>2
<1>4. ASSUME NEW i \in 1 .. Len(q) PROVE q[i] \in Answer /\ q[i].seq \in Nat
  BY <1>1, AnswerFacts
<1> HIDE DEF r
<1>5. ASSUME NEW i \in 1 .. Len(r), r[i].kind # "lost"
      PROVE  r[i].seq < s.next /\ \A j \in 1 .. i : r[j].seq <= r[i].seq
  <2> DEFINE x == i - 1
  <2>1. i # 1
    BY <1>1, <1>3, <1>5
  <2>2. x \in 1 .. Len(q) /\ r[i] = q[x] /\ \A j \in 2 .. i : j - 1 \in 1 .. x /\ r[j] = q[j - 1]
    <3>1. i \in 2 .. Len(q) + 1 /\ x \in 1 .. Len(q)
      BY <1>3, <2>1
    <3>2. \A j \in 2 .. i : j \in 2 .. Len(q) + 1 /\ j - 1 \in 1 .. x
      BY <1>3, <3>1
    <3> HIDE DEF q
    <3>3. QED
      BY <1>3, <3>1, <3>2
  <2> HIDE DEF x
  <2>3. q[x].seq < s.next /\ \A j \in 1 .. x : q[j].seq <= q[x].seq
    BY <1>5, <2>2 DEF Ordered, q
  <2>4. q[x].seq \in Nat
    BY <1>4, <2>2
  <2>5. ASSUME NEW j \in 1 .. i PROVE r[j].seq <= q[x].seq
    <3>1. CASE j = 1
      BY <1>1, <1>3, <2>4, <3>1
    <3>2. CASE j # 1
      <4> DEFINE y == j - 1
      <4>1. j \in 2 .. i
        BY <3>2
      <4>2. y \in 1 .. x /\ r[j] = q[y]
        BY <2>2, <4>1
      <4> HIDE DEF y
      <4>3. QED
        BY <2>3, <4>2
    <3>3. QED
      BY <3>1, <3>2
  <2>6. QED
    BY <2>2, <2>3, <2>5
<1>6. QED
  BY <1>5 DEF Ordered, r

(* Reading the first answer leaves the others in order.                    *)
LEMMA TailOrdered ==
  ASSUME NEW s \in SockType, Ordered(s), s.queue # << >>, NEW t \in SockType,
         t.next = s.next, t.expect <= s.next, t.queue = Tail(s.queue)
  PROVE  Ordered(t)
<1> DEFINE q == s.queue
           r == t.queue
<1>1. q \in Seq(Answer) /\ q # << >>
  BY DEF SockType
<1>2. /\ Len(q) \in Nat /\ Len(r) = Len(q) - 1 /\ Len(q) > 0
      /\ \A i \in 1 .. Len(q) - 1 : r[i] = q[i + 1]
  BY <1>1
<1> HIDE DEF r
<1>3. ASSUME NEW i \in 1 .. Len(r), r[i].kind # "lost"
      PROVE  r[i].seq < s.next /\ \A j \in 1 .. i : r[j].seq <= r[i].seq
  <2> DEFINE x == i + 1
  <2>1. x \in 1 .. Len(q) /\ r[i] = q[x] /\ \A j \in 1 .. i : j + 1 \in 1 .. x /\ r[j] = q[j + 1]
    BY <1>2
  <2> HIDE DEF x
  <2>2. q[x].seq < s.next /\ \A j \in 1 .. x : q[j].seq <= q[x].seq
    BY <1>3, <2>1 DEF Ordered, q
  <2>3. ASSUME NEW j \in 1 .. i PROVE r[j].seq <= q[x].seq
    <3> DEFINE y == j + 1
    <3>1. y \in 1 .. x /\ r[j] = q[y]
      BY <2>1
    <3> HIDE DEF y
    <3>2. QED
      BY <2>2, <3>1
  <2>4. QED
    BY <2>1, <2>2, <2>3
<1>4. QED
  BY <1>3 DEF Ordered, r

LEMMA SendOrdered ==
  ASSUME Types, Sited, \A on \in Sockets : Ordered(sock[on]), Send
  PROVE  \A on \in Sockets : Ordered(sock'[on])
<1> DEFINE on == SocketOf(call.req)
           s == sock[on]
           answered(kinds) == sock' = [ sock EXCEPT ![on] = Sent(s, Answers(s, kinds)) ]
           t == Sent(s, Answers(s, Front(Replies(call.req))))
           lost == [ t EXCEPT !.queue = << LostAnswer >> \o @ ]
<1>1. call.req \in Requests /\ on \in Sockets /\ s \in SockType /\ Ordered(s)
  BY InProgress DEF Send
<1>2. \A x \in Sockets \ { on } : sock'[x] = sock[x]
  BY SendOutcome
<1>3. ASSUME NEW kinds \in Seq(Kinds), answered(kinds) PROVE Ordered(sock'[on])
  <2>1. sock'[on] = Sent(s, Answers(s, kinds))
    BY <1>1, <1>3 DEF Types
  <2>2. QED
    BY <1>1, <2>1, SentOrdered
<1>4. ASSUME sock' = [ sock EXCEPT ![on] = lost ] PROVE Ordered(sock'[on])
  <2>1. Front(Replies(call.req)) \in Seq(Kinds)
    BY <1>1, RepliesFacts DEF Front
  <2>2. t \in SockType /\ Ordered(t)
    BY <1>1, <2>1, AnswersFacts, SentFacts, SentOrdered
  <2>3. sock'[on] = lost
    BY <1>1, <1>4 DEF Types
  <2> HIDE DEF t
  <2>4. lost.next = t.next /\ lost.expect = t.expect /\ lost.queue = << LostAnswer >> \o t.queue
    BY <2>2, Zenon DEF SockType
  <2>5. lost \in SockType
    BY <1>1, <2>3, SendOutcome
  <2> HIDE DEF lost
  <2>6. QED
    BY <2>2, <2>3, <2>4, <2>5, LostOrdered
<1>5. << "error" >> \in Seq(Kinds) /\ << "unsupported" >> \in Seq(Kinds)
      /\ Replies(call.req) \in Seq(Kinds)
  BY <1>1, RepliesFacts DEF Kinds
<1>6. Ordered(sock'[on])
  <2>1. \/ \E kinds \in { Replies(call.req), << "error" >>, << "unsupported" >> } : answered(kinds)
        \/ sock' = [ sock EXCEPT ![on] = lost ]
    BY DEF Send
  <2>2. QED
    BY <1>3, <1>4, <1>5, <2>1
<1>7. QED
  BY <1>1, <1>2, <1>6

LEMMA ReceiveOrdered ==
  ASSUME Types, Sited, \A on \in Sockets : Ordered(sock[on]), Receive
  PROVE  \A on \in Sockets : Ordered(sock'[on])
<1> DEFINE on == SocketOf(call.req)
           s == sock[on]
           a == s.queue[1]
           t == sock'[on]
<1>1. on \in Sockets /\ s \in SockType /\ Ordered(s)
  BY InProgress DEF Receive
<1>2. /\ s.queue # << >> /\ a \in Answer /\ t \in SockType
      /\ \A x \in Sockets \ { on } : sock'[x] = sock[x]
      /\ t.next = s.next /\ t.queue = Tail(s.queue)
      /\ t.expect = IF a.seq = s.expect /\ EndsAnswer(a.kind) THEN s.expect + 1 ELSE s.expect
  BY <1>1, ReceiveOutcome
<1>3. s.next \in Nat /\ s.expect \in Nat /\ s.expect <= s.next /\ 1 \in 1 .. Len(s.queue)
  BY <1>1, <1>2 DEF Ordered, SockType
<1>4. a.kind # "lost" => a.seq < s.next
  BY <1>1, <1>3 DEF Ordered
<1>5. t.expect <= s.next
  BY <1>2, <1>3, <1>4 DEF EndsAnswer
<1> HIDE DEF on
<1>6. QED
  BY <1>1, <1>2, <1>5, TailOrdered

LEMMA FailuresOrdered ==
  ASSUME Types, Sited, \A on \in Sockets : Ordered(sock[on]),
         BuildFails \/ SendFails \/ ReceiveFails
  PROVE  \A on \in Sockets : Ordered(sock'[on])
<1> DEFINE on == SocketOf(call.req)
           s == sock[on]
<1>1. on \in Sockets /\ s \in SockType /\ Ordered(s)
  BY InProgress DEF BuildFails, SendFails, ReceiveFails
<1>2. sock' \in [ Sockets -> SockType ] /\ \A x \in Sockets \ { on } : sock'[x] = sock[x]
  BY FailureReturns
<1>3. CASE BuildFails
  BY <1>3 DEF BuildFails
<1>4. CASE SendFails
  <2>1. << >> \in Seq(Kinds) /\ Answers(s, << >>) = << >>
    BY DEF Answers
  <2>2. sock'[on] = Sent(s, << >>)
    BY <1>1, <1>4 DEF SendFails, Types
  <2>3. Ordered(sock'[on])
    BY <1>1, <2>1, <2>2, SentOrdered
  <2>4. QED
    BY <1>1, <1>2, <2>3
<1>5. CASE ReceiveFails
  <2>1. CASE sock' = sock
    BY <2>1
  <2>2. CASE s.queue # << >> /\ sock' = [ sock EXCEPT ![on].queue = Tail(@) ]
    <3> DEFINE t == sock'[on]
    <3>1. t.next = s.next /\ t.expect = s.expect /\ t.queue = Tail(s.queue)
      BY <1>1, <2>2, Zenon DEF Types, SockType
    <3>2. t \in SockType /\ t.expect <= s.next
      BY <1>1, <1>2, <3>1 DEF Ordered
    <3> HIDE DEF t
    <3>3. Ordered(t)
      BY <1>1, <2>2, <3>1, <3>2, TailOrdered
    <3>4. QED
      BY <1>1, <1>2, <3>3 DEF t
  <2>3. QED
    BY <1>1, <1>5, <2>1, <2>2 DEF ReceiveFails
<1>6. QED
  BY <1>3, <1>4, <1>5

LEMMA NewOrdered == Ordered(NewSocket)
BY DEF Ordered, NewSocket

LEMMA CountsFacts ==
  ASSUME Counted, Failing
  PROVE  failures' \in 0 .. MaxFailures
BY NetlinkAssumption DEF Counted, Failing

(* Before the loop, and from one place of the loop to another.             *)
LEMMA KeepsCounts ==
  ASSUME Counted, failures' \in 0 .. MaxFailures, current' \in BOOLEAN, wanted' \in BOOLEAN,
         UNCHANGED << starts, found >>
  PROVE  Counted'
BY DEF Counted

LEMMA OpeningStep ==
  ASSUME OrderInv,
         NetutilsInit \/ OpenSavefile \/ FindDevice \/ LinkDown \/ SetMonitorMode \/ LinkUp
         \/ OpenNonblockingDevice \/ LinkEtherAddrGet \/ InitHost \/ Schedule
         \/ SwitchChannel \/ Neighbor \/ Crash
  PROVE  sock' = sock /\ Counted'
<1> USE DEF Goto, Call, Fails, KeepIo
<1>1. Counted /\ failures \in 0 .. MaxFailures /\ current \in BOOLEAN /\ wanted \in BOOLEAN
  BY DEF OrderInv, Counted
<1>2. CASE NetutilsInit \/ FindDevice \/ SetMonitorMode
  BY <1>1, <1>2, CountsFacts, KeepsCounts DEF NetutilsInit, FindDevice, SetMonitorMode
<1>3. CASE OpenSavefile
  BY <1>1, <1>3, KeepsCounts DEF OpenSavefile
<1>4. CASE LinkDown \/ LinkUp
  BY <1>1, <1>4, KeepsCounts DEF LinkDown, LinkUp, LinkUpdown
<1>5. CASE OpenNonblockingDevice
  BY <1>1, <1>5, CountsFacts, KeepsCounts DEF OpenNonblockingDevice
<1>6. CASE LinkEtherAddrGet
  BY <1>1, <1>6, KeepsCounts DEF LinkEtherAddrGet
<1>7. CASE InitHost \/ Schedule \/ Crash
  BY <1>1, <1>7, CountsFacts, KeepsCounts DEF InitHost, Schedule, Crash
<1>8. CASE SwitchChannel
  BY <1>1, <1>8, KeepsCounts DEF SwitchChannel
<1>9. CASE Neighbor
  BY <1>1, <1>9, KeepsCounts DEF Neighbor
<1>10. QED
  BY <1>2, <1>3, <1>4, <1>5, <1>6, <1>7, <1>8, <1>9

LEMMA AddressedStep ==
  ASSUME OrderInv, [Next]_vars
  PROVE  Addressed'
<1> USE DEF Goto, Call, Fails, KeepIo, Stopped
<1>1. /\ at \in Opening => io.if_ether_addr = "unset"
      /\ io.if_ether_addr = "known" => io.wlan_fd = "open"
      /\ io \in IoType /\ at \in Places /\ (at = "address" => io.wlan_fd = "open")
  BY DEF OrderInv, Addressed, StartupInv, Types, Progress, DeviceReady
<1>2. CASE io' = io /\ (at' \in Opening => at \in Opening)
  BY <1>1, <1>2 DEF Addressed
<1>3. CASE NetutilsInit \/ FindDevice \/ SetMonitorMode
  <2>1. io' = io /\ at \in Opening
    BY <1>3 DEF NetutilsInit, FindDevice, SetMonitorMode, Back, Opening
  <2>2. QED
    BY <1>2, <2>1
<1>4. CASE LinkDown \/ LinkUp
  <2>1. io' = io /\ at \in Opening
    BY <1>4 DEF LinkDown, LinkUp, LinkUpdown, Back, Opening
  <2>2. QED
    BY <1>2, <2>1
<1>5. CASE OpenSavefile
  <2>1. io' = [ io EXCEPT !.wlan_is_file = TRUE, !.wlan_fd = "open" ] /\ at = "wlan" /\ at' = "host"
    BY <1>5 DEF OpenSavefile
  <2>2. io'.if_ether_addr = io.if_ether_addr /\ io.if_ether_addr = "unset"
    BY <1>1, <2>1, Zenon DEF IoType, Opening
  <2>3. QED
    BY <2>1, <2>2 DEF Addressed, Opening
<1>6. CASE OpenNonblockingDevice
  <2>1. at = "open device" /\ \E fd : io' = [ io EXCEPT !.wlan_fd = fd ]
    BY <1>6 DEF OpenNonblockingDevice
  <2>2. io'.if_ether_addr = "unset"
    BY <1>1, <2>1 DEF IoType, Opening
  <2>3. QED
    BY <2>2 DEF Addressed
<1>7. CASE LinkEtherAddrGet
  <2>1. at = "address" /\ at' \in { "exit", "crash", "host" }
        /\ (io' = io \/ io' = [ io EXCEPT !.if_ether_addr = "known" ])
    BY <1>7 DEF LinkEtherAddrGet, Back
  <2>2. io'.wlan_fd = "open"
    BY <1>1, <2>1 DEF IoType
  <2>3. QED
    BY <2>1, <2>2 DEF Addressed, Opening
<1>8. CASE InitHost
  <2>1. at' \notin Opening /\ (io' = io \/ io' = [ io EXCEPT !.host_fd = "open" ])
    BY <1>8 DEF InitHost, Opening
  <2>2. io'.wlan_fd = io.wlan_fd /\ io'.if_ether_addr = io.if_ether_addr
    BY <1>1, <2>1 DEF IoType
  <2>3. QED
    BY <1>1, <2>1, <2>2 DEF Addressed
<1>9. CASE Schedule \/ Crash
  <2>1. io' = io /\ at' \notin Opening
    BY <1>9 DEF Schedule, Started, Crash, Opening
  <2>2. QED
    BY <1>2, <2>1
<1>10. CASE SwitchChannel \/ Neighbor
  <2>1. io' = io /\ at' \notin Opening
    BY <1>10 DEF SwitchChannel, Neighbor, Opening
  <2>2. QED
    BY <1>2, <2>1
<1>11. CASE NetlinkRequest
  BY <1>2, <1>11 DEF NetlinkRequest
<1>12. CASE Restart
  BY <1>12 DEF Restart, NewIo, Addressed
<1>13. CASE UNCHANGED vars
  BY <1>2, <1>13 DEF vars
<1>14. QED
  BY <1>3, <1>4, <1>5, <1>6, <1>7, <1>8, <1>9, <1>10, <1>11, <1>12, <1>13 DEF Next

LEMMA OrderInvNext == OrderInv /\ [Next]_vars => OrderInv'
<1> SUFFICES ASSUME OrderInv, [Next]_vars PROVE OrderInv'
  OBVIOUS
<1>1. StartupInv' /\ Addressed'
  BY StartupInvNext, AddressedStep DEF OrderInv
<1>2. /\ Types /\ Sited /\ Counted /\ kernel \in Kernel
      /\ \A on \in Sockets : Ordered(sock[on])
  BY DEF OrderInv, StartupInv, Types
<1>3. CASE NetlinkRequest
  <2>1. NetlinkStep /\ UNCHANGED << current, wanted, found, starts >>
    BY <1>3 DEF NetlinkRequest
  <2>2. \A on \in Sockets : Ordered(sock'[on])
    BY <1>2, <2>1, SendOrdered, ReceiveOrdered, FailuresOrdered DEF NetlinkStep
  <2>3. failures' = failures \/ Failing
    BY <2>1 DEF NetlinkStep, Send, BuildFails, SendFails, Receive, ReceiveFails
  <2>4. Counted'
    BY <1>2, <2>1, <2>3, CountsFacts, KeepsCounts DEF Counted
  <2>5. QED
    BY <1>1, <2>2, <2>4 DEF OrderInv
<1>4. CASE Restart
  <2>1. \A on \in Sockets : Ordered(sock'[on])
    BY <1>4, NewOrdered DEF Restart
  <2>2. kernel' \in Kernel
    BY <1>2, <1>4 DEF Restart, Kernel
  <2>3. Counted'
    <3>1. failures' = 0 /\ starts' = starts + 1 /\ starts < MaxStarts
          /\ current' = FALSE /\ wanted' = FALSE /\ found' = kernel'
      BY <1>4 DEF Restart
    <3>2. failures' \in 0 .. MaxFailures /\ starts' \in 1 .. MaxStarts
      BY <1>2, <3>1, NetlinkAssumption, StartupAssumption DEF Counted
    <3>3. QED
      BY <2>2, <3>1, <3>2, Zenon DEF Counted
  <2>4. QED
    BY <1>1, <2>1, <2>3 DEF OrderInv
<1>5. CASE UNCHANGED vars
  <2>1. Counted'
    BY <1>2, <1>5 DEF vars, netlinkVars, Counted
  <2>2. QED
    BY <1>1, <1>2, <1>5, <2>1 DEF OrderInv, vars, netlinkVars
<1>6. CASE sock' = sock /\ Counted'
  BY <1>1, <1>2, <1>6 DEF OrderInv
<1>7. QED
  BY <1>3, <1>4, <1>5, <1>6, OpeningStep DEF Next

LEMMA OrderInvInit == Init => OrderInv
<1> SUFFICES ASSUME Init PROVE OrderInv
  OBVIOUS
<1>1. StartupInv
  BY StartupInvInit
<1>2. \A on \in Sockets : Ordered(sock[on])
  BY NewOrdered DEF Init
<1>3. Addressed
  BY DEF Init, NewIo, Addressed
<1>4. Counted
  <2>1. failures = 0 /\ starts = 1 /\ current = FALSE /\ wanted = FALSE /\ found = kernel
    BY DEF Init
  <2>2. failures \in 0 .. MaxFailures /\ starts \in 1 .. MaxStarts
    BY <2>1, NetlinkAssumption, StartupAssumption
  <2>3. kernel \in Kernel
    BY <1>1 DEF StartupInv, Types
  <2>4. QED
    BY <2>1, <2>2, <2>3, Zenon DEF Counted
<1>5. QED
  BY <1>1, <1>2, <1>3, <1>4 DEF OrderInv

(* Types, and the order of the answers: on both sockets they come in the   *)
(* order of their requests and none is expected that has not been asked    *)
(* for, whatever was lost or not read.                                     *)
THEOREM StartupTypeCorrect == Spec => []TypeOK
<1>1. OrderInv => TypeOK
  <2> SUFFICES ASSUME OrderInv PROVE TypeOK
    OBVIOUS
  <2>1. StartupInv /\ Types /\ Addressed /\ Counted
    BY DEF OrderInv, StartupInv
  <2>2. ASSUME NEW on \in Sockets
        PROVE  /\ sock[on].expect \in 1 .. sock[on].next
               /\ \A i \in DOMAIN sock[on].queue :
                    sock[on].queue[i].kind # "lost" =>
                      /\ sock[on].queue[i].seq < sock[on].next
                      /\ \A j \in 1 .. i : sock[on].queue[j].seq <= sock[on].queue[i].seq
    <3>1. sock[on] \in SockType /\ Ordered(sock[on])
      BY <2>1 DEF OrderInv, Types
    <3>2. sock[on].queue \in Seq(Answer) /\ sock[on].next \in Nat /\ sock[on].expect \in Nat \ {0}
      BY <3>1 DEF SockType
    <3>3. DOMAIN sock[on].queue = 1 .. Len(sock[on].queue)
      BY <3>2
    <3>4. QED
      BY <3>1, <3>2, <3>3 DEF Ordered
  <2>3. NetlinkTypeOK
    BY <2>1, <2>2 DEF NetlinkTypeOK, Types, CallType, Counted
  <2>4. QED
    BY <2>1, <2>3 DEF TypeOK, Types, IoType, Addressed, Counted
<1>2. QED
  BY <1>1, OrderInvInit, OrderInvNext, PTL DEF Spec
-----------------------------------------------------------------------------
(* As long as nothing fails, answers are never left unread: those to the   *)
(* request in progress wait on its socket, what is still to come of them,  *)
(* and nothing else does.                                                  *)
Smooth == failures = 0 /\ options.host

ToRead(c) ==
  IF c.at = "ack" THEN { << "ack" >> }
  ELSE IF c.req \in { "get", "resolve" } THEN { << "object", "ack" >> }
  ELSE IF c.req = "is_channel_available"
    THEN { << "part", "part", "done" >>, << "part", "done" >>, << "done" >> }
  ELSE IF Refused(c.req) THEN { << "error" >> } ELSE { << "ack" >> }

Holds(s, kinds) ==
  /\ s.next = s.expect + 1
  /\ Len(s.queue) = Len(kinds)
  /\ \A i \in 1 .. Len(kinds) : s.queue[i] = [ seq |-> s.expect, kind |-> kinds[i] ]

Reading(on) == call.at \in { "receive", "ack" } /\ on = SocketOf(call.req)

Prompt ==
  \A on \in Sockets :
    IF Reading(on) THEN \E kinds \in ToRead(call) : Holds(sock[on], kinds)
                   ELSE InStep(sock[on])

(* The requests that the kernel does not refuse succeed.                   *)
Successful ==
  /\ call.at = "ack" => call.object /\ call.req \in { "get", "resolve" }
  /\ call.at = "done" =>
       \/ call = NoCall
       \/ call.result = IF Refused(call.req) THEN "failed" ELSE "ok"
  /\ call.at = "done" /\ call.req = "get" => call.object

(* What has become of the device that was found; whether it can be used    *)
(* decides on the way that is taken.                                       *)
Device ==
  /\ at \in Opening => ~io.wlan_is_file
  /\ at \in { "netutils_init", "nl80211_init", "wlan", "link_down" } => kernel = found
  /\ at \in { "link_down", "set_monitor_mode", "link_up", "open device", "address" }
       => options.wlan = "device"
  /\ at = "set_monitor_mode" =>
       /\ ~options.no_monitor_mode
       /\ IF call.at = "send" \/ Refused("set_monitor_mode")
            THEN kernel = found ELSE kernel.mode = "active" /\ Suitable
  /\ at \in { "link_up", "open device" } =>
       IF options.no_monitor_mode THEN kernel.mode = found.mode
                                  ELSE kernel.mode = "active" /\ Suitable
  /\ (at = "link_up" /\ call.req = "link_up" /\ call.at # "send") \/ at = "open device"
       => kernel.up
  /\ at \in { "address" } \cup Running => Suitable
  /\ at \in { "host", "schedule" } =>
       io.wlan_fd # "unset" /\ (io.wlan_fd = "open" <=> Suitable)
  /\ at = "schedule" => io.host_fd = "open"
  /\ at \in Stopped => ~Suitable

(* The neighbour and the channel are what the daemon takes them for, once  *)
(* the request that it makes has been carried out.                         *)
Believed ==
  /\ at \in Opening \cup { "host", "schedule" } => ~kernel.neighbor /\ ~wanted /\ ~current
  /\ at \in { "loop", "switch channel" } => kernel.neighbor = wanted
  /\ at = "neighbor" =>
       /\ call.req = IF wanted THEN "neighbor_add" ELSE "neighbor_remove"
       /\ call.at # "send" => kernel.neighbor = wanted
  /\ at \in Running /\ current /\ ~io.wlan_is_file => kernel.tuned
  /\ at = "switch channel" /\ call.req = "set_channel" /\ call.at # "send" => kernel.tuned

SmoothInv == Prompt /\ Successful /\ Device /\ Believed
RightInv == Smooth => SmoothInv

LEMMA EffectDetails ==
  ASSUME NEW req \in Requests, NEW k \in Kernel
  PROVE  /\ req \notin { "link_up", "set_monitor_mode", "set_channel", "neighbor_add", "neighbor_remove" }
              => Effect(req, k) = k
         /\ Effect(req, k).up <=> (k.up \/ req = "link_up")
         /\ Effect(req, k).tuned <=> (k.tuned \/ req = "set_channel")
         /\ req \notin { "neighbor_add", "neighbor_remove" } => Effect(req, k).neighbor = k.neighbor
         /\ req = "neighbor_add" => Effect(req, k).neighbor
         /\ req = "neighbor_remove" => ~Effect(req, k).neighbor
<1>1. CASE req = "set_monitor_mode"
  BY <1>1 DEF Effect, Kernel
<1>2. CASE req = "link_up"
  BY <1>2 DEF Effect, Kernel
<1>3. CASE req = "set_channel"
  BY <1>3 DEF Effect, Kernel
<1>4. CASE req = "neighbor_add"
  BY <1>4 DEF Effect, Kernel
<1>5. CASE req = "neighbor_remove"
  BY <1>5 DEF Effect, Kernel
<1>6. CASE req \in { "resolve", "get", "link_down", "is_channel_available" }
  BY <1>6 DEF Effect, Kernel
<1>7. QED
  BY <1>1, <1>2, <1>3, <1>4, <1>5, <1>6 DEF Requests

LEMMA NothingFailed ==
  ASSUME Counted, failures' = 0
  PROVE  ~Failing
BY NetlinkAssumption DEF Counted, Failing

(* All answers, sent on a socket that is in step.                          *)
LEMMA SentAll ==
  ASSUME NEW s \in SockType, InStep(s), NEW kinds \in Seq(Kinds)
  PROVE  Holds(Sent(s, Answers(s, kinds)), kinds)
<1> DEFINE answers == Answers(s, kinds)
           t == Sent(s, answers)
<1>1. /\ answers \in Seq(Answer) /\ Len(answers) = Len(kinds)
      /\ \A i \in 1 .. Len(kinds) : answers[i] = [ seq |-> s.next, kind |-> kinds[i] ]
  BY AnswersFacts
<1>2. t.next = s.next + 1 /\ t.expect = s.expect /\ t.queue = s.queue \o answers
  BY <1>1, SentFacts
<1>3. s.queue = << >> /\ s.expect = s.next
  BY DEF InStep
<1> HIDE DEF answers, t
<1>4. t.queue = answers
  BY <1>1, <1>2, <1>3
<1>5. QED
  BY <1>1, <1>2, <1>3, <1>4 DEF Holds, answers, t

(* The first of the answers that wait, and those that are left behind it.  *)
LEMMA ReadFirst ==
  ASSUME Types, Sited, Receive, NEW kinds \in Seq(Kinds), kinds # << >>,
         Holds(sock[SocketOf(call.req)], kinds)
  PROVE  LET on == SocketOf(call.req)
         IN  /\ sock[on].queue[1] = [ seq |-> sock[on].expect, kind |-> kinds[1] ]
             /\ EndsAnswer(kinds[1]) /\ Len(kinds) = 1 => InStep(sock'[on])
             /\ ~EndsAnswer(kinds[1]) => Holds(sock'[on], Tail(kinds))
<1> DEFINE on == SocketOf(call.req)
           s == sock[on]
           t == sock'[on]
<1>1. s \in SockType
  BY InProgress DEF Receive
<1>2. /\ s.next = s.expect + 1 /\ Len(s.queue) = Len(kinds) /\ s.queue \in Seq(Answer)
      /\ \A i \in 1 .. Len(kinds) : s.queue[i] = [ seq |-> s.expect, kind |-> kinds[i] ]
      /\ s.expect \in Nat
  BY <1>1 DEF Holds, SockType
<1>3. Len(kinds) \in Nat /\ Len(kinds) > 0
  BY EmptySeq
<1>4. s.queue[1] = [ seq |-> s.expect, kind |-> kinds[1] ]
  BY <1>2, <1>3
<1>5. s.queue[1].seq = s.expect /\ s.queue[1].kind = kinds[1]
  BY <1>4
<1>6. /\ t.next = s.next /\ t.queue = Tail(s.queue)
      /\ t.expect = IF EndsAnswer(kinds[1]) THEN s.expect + 1 ELSE s.expect
  BY <1>5, ReceiveOutcome
<1>7. ASSUME EndsAnswer(kinds[1]), Len(kinds) = 1 PROVE InStep(t)
  <2>1. Tail(s.queue) \in Seq(Answer) /\ Len(Tail(s.queue)) = 0
    BY <1>2, <1>7
  <2>2. Tail(s.queue) = << >>
    BY <2>1, EmptySeq
  <2>3. QED
    BY <1>2, <1>6, <1>7, <2>2 DEF InStep
<1>8. ASSUME ~EndsAnswer(kinds[1]) PROVE Holds(t, Tail(kinds))
  <2>1. Len(Tail(s.queue)) = Len(kinds) - 1 /\ Len(Tail(kinds)) = Len(kinds) - 1
    BY <1>2, <1>3
  <2>2. ASSUME NEW i \in 1 .. Len(kinds) - 1
        PROVE  t.queue[i] = [ seq |-> t.expect, kind |-> Tail(kinds)[i] ]
    <3>1. Tail(s.queue)[i] = s.queue[i + 1] /\ Tail(kinds)[i] = kinds[i + 1]
          /\ i + 1 \in 1 .. Len(kinds)
      BY <1>2, <1>3
    <3>2. QED
      BY <1>2, <1>6, <1>8, <3>1
  <2>3. QED
    BY <1>2, <1>6, <1>8, <2>1, <2>2 DEF Holds
<1>9. QED
  BY <1>4, <1>7, <1>8

LEMMA SmoothSend ==
  ASSUME Types, Sited, Counted, Prompt, Successful, Send, failures' = 0
  PROVE  /\ Prompt' /\ Successful'
         /\ call'.at = "receive" /\ call'.req = call.req
         /\ kernel' = IF Refused(call.req) THEN kernel ELSE Effect(call.req, kernel)
<1> DEFINE on == SocketOf(call.req)
           s == sock[on]
           kinds == IF Refused(call.req) THEN << "error" >> ELSE Replies(call.req)
<1>1. call.at = "send" /\ call.req \in Requests /\ on \in Sockets /\ s \in SockType
      /\ kernel \in Kernel
  BY InProgress DEF Send, Types
<1>2. \A other \in Sockets : InStep(sock[other])
  BY <1>1 DEF Prompt, Reading
<1>3. /\ kernel' = IF Refused(call.req) THEN kernel ELSE Effect(call.req, kernel)
      /\ sock' = [ sock EXCEPT ![on] = Sent(s, Answers(s, kinds)) ]
  BY NothingFailed DEF Send
<1>4. /\ call'.at = "receive" /\ call'.req = call.req
  BY DEF Send, Types, CallType
<1>5. Refused(call.req)' <=> Refused(call.req)
  BY <1>1, <1>3, <1>4, EffectFacts DEF Refused
<1>6. kinds \in Seq(Kinds)
  <2>1. << "error" >> \in Seq(Kinds)
    BY DEF Kinds
  <2>2. Replies(call.req) \in Seq(Kinds)
    BY <1>1, RepliesFacts
  <2>3. QED
    BY <2>1, <2>2
<1>7. kinds \in ToRead(call)'
  BY <1>1, <1>4, <1>5 DEF ToRead, Replies, Refused, Requests
<1>8. Holds(Sent(s, Answers(s, kinds)), kinds)
  BY <1>1, <1>2, <1>6, SentAll
<1> HIDE DEF kinds
<1>9. sock'[on] = Sent(s, Answers(s, kinds)) /\ \A other \in Sockets \ { on } : sock'[other] = sock[other]
  BY <1>1, <1>3 DEF Types
<1>10. Prompt'
  BY <1>2, <1>4, <1>7, <1>8, <1>9 DEF Prompt, Reading
<1>11. Successful'
  BY <1>4 DEF Successful
<1>12. QED
  BY <1>3, <1>4, <1>10, <1>11

(* A request that has been carried out or refused keeps being so, and its  *)
(* answers are those that were sent.                                       *)
LEMMA ToReadFacts ==
  ASSUME Types, Sited, Successful, call.at \in { "receive", "ack" }, NEW kinds \in ToRead(call)
  PROVE  /\ kinds \in Seq(Kinds) /\ kinds # << >>
         /\ \/ /\ kinds = << "ack" >> /\ ~Refused(call.req)
               /\ call.at = "receive" => call.req \notin { "get", "resolve", "is_channel_available" }
            \/ kinds = << "object", "ack" >> /\ call.at = "receive" /\ call.req \in { "get", "resolve" }
            \/ /\ kinds \in { << "part", "part", "done" >>, << "part", "done" >> }
               /\ call.at = "receive" /\ call.req = "is_channel_available"
            \/ kinds = << "done" >> /\ call.at = "receive" /\ call.req = "is_channel_available"
            \/ kinds = << "error" >> /\ call.at = "receive" /\ Refused(call.req)
<1> DEFINE lists == { << "ack" >>, << "object", "ack" >>, << "part", "part", "done" >>,
                      << "part", "done" >>, << "done" >>, << "error" >> }
<1>1. kinds \in lists
  BY DEF ToRead
<1>2. \A list \in lists : list \in Seq(Kinds) /\ list # << >>
  <2>1. /\ << "ack" >> \in Seq(Kinds) /\ << "done" >> \in Seq(Kinds) /\ << "error" >> \in Seq(Kinds)
        /\ << "ack" >> # << >> /\ << "done" >> # << >> /\ << "error" >> # << >>
    BY DEF Kinds
  <2>2. /\ << "object", "ack" >> \in Seq(Kinds) /\ << "part", "done" >> \in Seq(Kinds)
        /\ << "object", "ack" >> # << >> /\ << "part", "done" >> # << >>
    BY DEF Kinds
  <2>3. << "part", "part", "done" >> \in Seq(Kinds) /\ << "part", "part", "done" >> # << >>
    BY DEF Kinds
  <2>4. QED
    BY <2>1, <2>2, <2>3
<1>3. CASE call.at = "ack"
  BY <1>1, <1>2, <1>3 DEF ToRead, Successful, Refused
<1>4. CASE call.at = "receive"
  BY <1>1, <1>2, <1>4 DEF ToRead, Refused
<1>5. QED
  BY <1>3, <1>4

LEMMA SmoothReceive ==
  ASSUME Types, Sited, Prompt, Successful, Receive
  PROVE  /\ Prompt' /\ Successful'
         /\ call'.at # "send" /\ call'.req = call.req /\ kernel' = kernel
<1> DEFINE on == SocketOf(call.req)
           s == sock[on]
           a == s.queue[1]
<1>1. /\ call.at \in { "receive", "ack" } /\ call \in CallType /\ call.result = "none"
      /\ call.req \in Requests /\ on \in Sockets /\ s \in SockType /\ kernel' = kernel
  BY InProgress DEF Receive, Types, Sited
<1>2. PICK kinds \in ToRead(call) : Holds(s, kinds)
  BY <1>1 DEF Prompt, Reading
<1>3. /\ kinds \in Seq(Kinds) /\ kinds # << >>
  BY <1>1, <1>2, ToReadFacts
<1>4. /\ a = [ seq |-> s.expect, kind |-> kinds[1] ]
      /\ EndsAnswer(kinds[1]) /\ Len(kinds) = 1 => InStep(sock'[on])
      /\ ~EndsAnswer(kinds[1]) => Holds(sock'[on], Tail(kinds))
  BY <1>2, <1>3, ReadFirst
<1>5. /\ a.seq = s.expect /\ a.kind = kinds[1] /\ Head(s.queue) = a
  BY <1>1, <1>4, ReceiveOutcome DEF SockType
<1>6. /\ kinds[1] = "part" => call' = call
      /\ kinds[1] \in { "object", "ack", "done" } => call' = After(call, kinds[1])
      /\ kinds[1] = "error" => call' = AfterError(call)
  BY <1>5 DEF Receive
<1>7. \A other \in Sockets \ { on } : InStep(sock'[other])
  BY <1>1, ReceiveOutcome DEF Prompt, Reading
<1>8. ASSUME call'.req = call.req, call'.at = "done", InStep(sock'[on])
      PROVE  Prompt'
  BY <1>7, <1>8 DEF Prompt, Reading
<1>9. call'.req = call.req => (Refused(call.req)' <=> Refused(call.req))
  BY <1>1 DEF Refused
<1>10. CASE kinds = << "ack" >> /\ call.at = "ack"
  <2>1. call.req \in { "get", "resolve" } /\ call.object /\ EndsAnswer("ack")
    BY <1>10 DEF Successful, EndsAnswer
  <2>2. call' = Return(call, "ok")
    BY <1>6, <1>10, <2>1 DEF After
  <2>3. call'.req = call.req /\ call'.at = "done" /\ call'.result = "ok" /\ call'.object
    BY <1>1, <2>1, <2>2, Zenon DEF Return, CallType
  <2>4. Prompt'
    BY <1>4, <1>8, <1>10, <2>1, <2>3
  <2>5. ~Refused(call.req)'
    BY <1>9, <2>1, <2>3 DEF Refused
  <2>6. QED
    BY <1>1, <2>3, <2>4, <2>5 DEF Successful
<1>11. CASE \/ kinds = << "done" >> /\ call.at = "receive" /\ call.req = "is_channel_available"
            \/ /\ kinds = << "ack" >> /\ ~Refused(call.req) /\ call.at = "receive"
               /\ call.req \notin { "get", "resolve" }
  <2>1. call.req \notin { "get", "resolve" } /\ ~Refused(call.req)
        /\ EndsAnswer(kinds[1]) /\ Len(kinds) = 1 /\ kinds[1] \in { "ack", "done" }
    BY <1>11 DEF EndsAnswer, Refused
  <2>2. call' = Return(call, "ok")
    BY <1>6, <2>1 DEF After
  <2>3. call'.req = call.req /\ call'.at = "done" /\ call'.result = "ok"
    BY <1>1, <2>2, ReturnFacts
  <2>4. Prompt'
    BY <1>4, <1>8, <2>1, <2>3
  <2>5. ~Refused(call.req)'
    BY <1>9, <2>1, <2>3
  <2>6. QED
    BY <1>1, <2>1, <2>3, <2>4, <2>5 DEF Successful
<1>12. CASE kinds = << "object", "ack" >> /\ call.at = "receive" /\ call.req \in { "get", "resolve" }
  <2>1. call' = [ call EXCEPT !.at = "ack", !.object = TRUE ]
    BY <1>6, <1>12 DEF After
  <2>2. call'.at = "ack" /\ call'.object /\ call'.req = call.req
    BY <1>1, <2>1, Zenon DEF CallType
  <2>3. Tail(kinds) = << "ack" >> /\ ~EndsAnswer(kinds[1])
    BY <1>12 DEF EndsAnswer
  <2>4. << "ack" >> \in ToRead(call)'
    BY <2>2 DEF ToRead
  <2>5. Prompt'
    BY <1>4, <1>7, <2>2, <2>3, <2>4 DEF Prompt, Reading
  <2>6. QED
    BY <1>1, <1>12, <2>2, <2>5 DEF Successful
<1>13. CASE /\ kinds \in { << "part", "part", "done" >>, << "part", "done" >> }
            /\ call.at = "receive" /\ call.req = "is_channel_available"
  <2>1. call' = call
    BY <1>5, <1>6, <1>13
  <2>2. Tail(kinds) \in { << "part", "done" >>, << "done" >> } /\ ~EndsAnswer(kinds[1])
    <3>1. CASE kinds = << "part", "part", "done" >>
      BY <3>1 DEF EndsAnswer
    <3>2. CASE kinds = << "part", "done" >>
      BY <3>2 DEF EndsAnswer
    <3>3. QED
      BY <1>13, <3>1, <3>2
  <2>3. Tail(kinds) \in ToRead(call)'
    BY <1>13, <2>1, <2>2 DEF ToRead
  <2>4. Prompt'
    BY <1>1, <1>4, <1>7, <2>1, <2>2, <2>3 DEF Prompt, Reading
  <2>5. QED
    BY <1>1, <1>13, <2>1, <2>4 DEF Successful
<1>14. CASE kinds = << "error" >> /\ call.at = "receive" /\ Refused(call.req)
  <2>1. EndsAnswer("error") /\ call.req = "set_monitor_mode"
    BY <1>14 DEF EndsAnswer, Refused
  <2>2. call'.req = call.req /\ call'.at = "done" /\ call'.result = "failed"
    BY <1>1, <1>6, <1>14, AfterErrorFacts
  <2>3. Prompt'
    BY <1>4, <1>8, <1>14, <2>1, <2>2
  <2>4. Refused(call.req)'
    BY <1>9, <1>14, <2>2
  <2>5. QED
    BY <1>1, <2>1, <2>2, <2>3, <2>4 DEF Successful
<1>15. QED
  BY <1>1, <1>2, <1>10, <1>11, <1>12, <1>13, <1>14, ToReadFacts

(* A request is made, or the daemon goes on.                               *)
LEMMA SmoothCall ==
  ASSUME call.at = "done", Prompt, NEW place, NEW req \in Requests, Call(req, place)
  PROVE  /\ Prompt' /\ Successful'
         /\ call'.at = "send" /\ call'.req = req /\ kernel' = kernel /\ at' = place
<1>1. call'.req = req /\ call'.at = "send" /\ sock' = sock /\ kernel' = kernel /\ at' = place
  BY DEF Call, Request, NoCall
<1>2. \A on \in Sockets : InStep(sock[on])
  BY DEF Prompt, Reading
<1>3. QED
  BY <1>1, <1>2 DEF Prompt, Reading, Successful

LEMMA SmoothGo ==
  ASSUME Prompt, Successful, UNCHANGED << sock, call, kernel >>
  PROVE  Prompt' /\ Successful'
BY DEF Prompt, Reading, ToRead, Successful, Refused

LEMMA SmoothRequest ==
  ASSUME OrderInv, SmoothInv, NetlinkRequest, failures' = 0
  PROVE  SmoothInv'
<1>1. /\ NetlinkStep /\ UNCHANGED << at, options, io, current, wanted, found >>
      /\ Types /\ Sited /\ Counted /\ Prompt /\ Successful /\ Device /\ Believed
      /\ kernel \in Kernel /\ at \in Places
  BY DEF NetlinkRequest, OrderInv, StartupInv, SmoothInv, Types
<1>2. /\ Suitable' <=> Suitable
      /\ Asks(at) # { } /\ call.req \in Asks(at) /\ call.req \in Requests
  <2>1. Suitable' <=> Suitable
    BY <1>1 DEF Suitable
  <2>2. QED
    BY <1>1, <2>1, RequestStep, InProgress DEF Sited, NetlinkStep, Send, BuildFails, SendFails,
       Receive, ReceiveFails
<1>3. Send \/ Receive
  BY <1>1, NothingFailed DEF NetlinkStep, BuildFails, SendFails, ReceiveFails
<1>4. CASE Receive
  <2>1. Prompt' /\ Successful' /\ call'.at # "send" /\ call'.req = call.req /\ kernel' = kernel
        /\ call.at # "send"
    BY <1>1, <1>4, SmoothReceive DEF Receive
  <2>2. Device'
    BY <1>1, <1>2, <2>1 DEF Device, Refused
  <2>3. Believed'
    BY <1>1, <2>1 DEF Believed
  <2>4. QED
    BY <2>1, <2>2, <2>3 DEF SmoothInv
<1>5. CASE Send
  <2> DEFINE effect == Effect(call.req, kernel)
  <2>1. /\ Prompt' /\ Successful' /\ call'.at = "receive" /\ call'.req = call.req
        /\ kernel' = IF Refused(call.req) THEN kernel ELSE effect
        /\ call.at = "send"
    BY <1>1, <1>5, SmoothSend DEF Send
  <2>2. /\ call.req \notin { "link_up", "set_monitor_mode", "set_channel", "neighbor_add",
                             "neighbor_remove" } => effect = kernel
        /\ effect.mode = IF call.req = "set_monitor_mode" THEN "active" ELSE kernel.mode
        /\ effect.up <=> (kernel.up \/ call.req = "link_up")
        /\ effect.tuned <=> (kernel.tuned \/ call.req = "set_channel")
        /\ call.req \notin { "neighbor_add", "neighbor_remove" } => effect.neighbor = kernel.neighbor
        /\ call.req = "neighbor_add" => effect.neighbor
        /\ call.req = "neighbor_remove" => ~effect.neighbor
    BY <1>1, <1>2, EffectFacts, EffectDetails
  <2>3. Refused(call.req) => call.req = "set_monitor_mode" /\ kernel.up /\ kernel.mode # "active"
    BY DEF Refused
  <2> HIDE DEF effect
  <2>4. at \notin Stopped \cup { "netutils_init", "wlan", "open device", "host", "schedule", "loop" }
    BY <1>2, AsksFacts
  <2>5. Device'
    <3>1. CASE at \in { "nl80211_init", "link_down" }
      <4>1. kernel' = kernel
        BY <1>2, <2>1, <2>2, <2>3, <3>1, AsksFacts
      <4>2. QED
        BY <1>1, <3>1, <4>1 DEF Device, Stopped, Running
    <3>2. CASE at = "set_monitor_mode"
      <4>1. call.req = "set_monitor_mode" /\ kernel = found /\ ~options.no_monitor_mode
            /\ options.wlan = "device"
        BY <1>1, <1>2, <2>1, <3>2, AsksFacts DEF Device
      <4>2. CASE Refused("set_monitor_mode")
        BY <1>1, <2>1, <3>2, <4>1, <4>2 DEF Device, Stopped, Running, Refused
      <4>3. CASE ~Refused("set_monitor_mode")
        <5>1. kernel' = effect /\ kernel'.mode = "active" /\ Suitable
          BY <2>1, <2>2, <4>1, <4>3 DEF Refused, Suitable
        <5>2. QED
          BY <1>1, <1>2, <2>1, <3>2, <5>1 DEF Device, Stopped, Running, Refused
      <4>4. QED
        BY <4>2, <4>3
    <3>3. CASE at = "link_up"
      <4>1. call.req \in { "get", "link_up" } /\ kernel' = effect /\ kernel'.mode = kernel.mode
            /\ (call.req = "link_up" => kernel'.up)
        BY <1>2, <2>1, <2>2, <2>3, <3>3, AsksFacts
      <4>2. QED
        BY <1>1, <1>2, <2>1, <3>3, <4>1 DEF Device, Stopped, Running
    <3>4. CASE at \in { "address", "switch channel", "neighbor" }
      BY <1>1, <1>2, <3>4 DEF Device, Stopped, Running
    <3>5. QED
      BY <1>1, <2>4, <3>1, <3>2, <3>3, <3>4 DEF Places
  <2>6. Believed'
    <3>1. CASE at \in Opening
      <4>1. call.req \notin { "neighbor_add", "neighbor_remove" }
        BY <1>2, <2>4, <3>1, AsksFacts DEF Opening
      <4>2. kernel'.neighbor = kernel.neighbor
        BY <2>1, <2>2, <4>1
      <4>3. QED
        BY <1>1, <3>1, <4>2 DEF Believed, Opening, Running
    <3>2. CASE at = "switch channel"
      <4>1. call.req \in { "is_channel_available", "set_channel" } /\ kernel' = effect
        BY <1>2, <2>1, <2>3, <3>2, AsksFacts
      <4>2. kernel'.neighbor = kernel.neighbor /\ (kernel.tuned => kernel'.tuned)
            /\ (call.req = "set_channel" => kernel'.tuned)
        BY <1>1, <2>2, <4>1 DEF Kernel
      <4>3. QED
        BY <1>1, <2>1, <3>2, <4>2 DEF Believed, Opening, Running
    <3>3. CASE at = "neighbor"
      <4>1. call.req \in { "neighbor_add", "neighbor_remove" } /\ kernel' = effect
            /\ wanted \in BOOLEAN
        BY <1>1, <1>2, <2>1, <2>3, <3>3, AsksFacts DEF Counted
      <4>2. kernel'.neighbor = wanted
        <5>1. call.req = IF wanted THEN "neighbor_add" ELSE "neighbor_remove"
          BY <1>1, <3>3 DEF Believed
        <5>2. kernel'.neighbor \in BOOLEAN
          BY <1>1, KernelGrows DEF Kernel
        <5>3. kernel'.neighbor <=> wanted
          BY <2>2, <4>1, <5>1, Zenon
        <5>4. QED
          BY <4>1, <5>2, <5>3, Zenon
      <4>3. QED
        BY <1>1, <2>1, <2>2, <3>3, <4>1, <4>2 DEF Believed, Opening, Running
    <3>4. QED
      BY <1>1, <2>4, <3>1, <3>2, <3>3 DEF Places, Opening
  <2>7. QED
    BY <2>1, <2>5, <2>6 DEF SmoothInv
<1>6. QED
  BY <1>3, <1>4, <1>5
-----------------------------------------------------------------------------
(* From here, one lemma for each action.                                   *)
LEMMA SmoothFacts ==
  ASSUME OrderInv, SmoothInv
  PROVE  /\ Types /\ Sited /\ Counted /\ Prompt /\ Successful /\ Device /\ Believed
         /\ call.at = "done" => call.result # "crash"
         /\ \A place \in { "netutils_init", "wlan", "open device", "host", "schedule", "loop" } :
              at = place => call.at = "done"
         /\ call.at = "done" /\ call.req # "none" => (Ok <=> ~Refused(call.req))
<1>1. Types /\ Sited /\ Counted /\ Prompt /\ Successful /\ Device /\ Believed
  BY DEF OrderInv, StartupInv, SmoothInv
<1>2. call.at = "done" => call.result # "crash"
  BY <1>1 DEF Successful, NoCall
<1>3. call.at = "done" /\ call.req # "none" => (Ok <=> ~Refused(call.req))
  BY <1>1 DEF Successful, NoCall, Ok
<1>4. QED
  BY <1>1, <1>2, <1>3, AsksFacts DEF Sited

LEMMA SmoothNetutilsInit ==
  ASSUME OrderInv, SmoothInv, NetutilsInit, failures' = 0
  PROVE  SmoothInv'
<1> USE SmoothFacts DEF Stopped, Running, Opening
<1>1. UNCHANGED << options, io, current, wanted, found >> /\ ~Failing
  BY NothingFailed DEF NetutilsInit, KeepIo
<1>2. CASE at = "netutils_init" /\ Call("resolve", "nl80211_init")
  <2>1. Prompt' /\ Successful' /\ kernel' = kernel /\ at' = "nl80211_init"
    BY <1>2, SmoothCall DEF Requests
  <2>2. Device' /\ Believed'
    BY <1>1, <1>2, <2>1 DEF Device, Believed
  <2>3. QED
    BY <2>1, <2>2 DEF SmoothInv
<1>3. CASE Back("nl80211_init", "resolve") /\ Goto("wlan")
  <2>1. Prompt' /\ Successful'
    BY <1>3, SmoothGo DEF Goto
  <2>2. Device' /\ Believed'
    BY <1>1, <1>3 DEF Goto, Back, Device, Believed
  <2>3. QED
    BY <2>1, <2>2 DEF SmoothInv
<1>4. Back("nl80211_init", "resolve") => Ok
  BY DEF Back, Returned, Refused
<1>5. QED
  BY <1>1, <1>2, <1>3, <1>4 DEF NetutilsInit, Fails

LEMMA SmoothOpenSavefile ==
  ASSUME OrderInv, SmoothInv, OpenSavefile
  PROVE  SmoothInv'
<1> USE SmoothFacts DEF Stopped, Running, Opening
<1>1. /\ at = "wlan" /\ at' = "host" /\ options.wlan = "file"
      /\ UNCHANGED << sock, call, kernel, options, current, wanted, found >>
      /\ io' = [ io EXCEPT !.wlan_is_file = TRUE, !.wlan_fd = "open" ]
  BY DEF OpenSavefile, Goto
<1>2. io'.wlan_fd = "open"
  BY <1>1 DEF Types, IoType
<1>3. Prompt' /\ Successful'
  BY <1>1, SmoothGo
<1>4. Suitable'
  BY <1>1 DEF Suitable
<1>5. Device' /\ Believed'
  BY <1>1, <1>2, <1>4 DEF Device, Believed
<1>6. QED
  BY <1>3, <1>5 DEF SmoothInv

LEMMA SmoothFindDevice ==
  ASSUME OrderInv, SmoothInv, FindDevice, failures' = 0
  PROVE  SmoothInv'
<1> USE SmoothFacts DEF Stopped, Running, Opening
<1>1. UNCHANGED << options, io, current, wanted, found >> /\ ~Failing /\ at = "wlan"
  BY NothingFailed DEF FindDevice, KeepIo
<1>2. CASE options.wlan = "device" /\ Call("get", "link_down")
  <2>1. Prompt' /\ Successful' /\ kernel' = kernel /\ at' = "link_down"
    BY <1>1, <1>2, SmoothCall DEF Requests
  <2>2. Device' /\ Believed'
    BY <1>1, <1>2, <2>1 DEF Device, Believed
  <2>3. QED
    BY <2>1, <2>2 DEF SmoothInv
<1>3. CASE options.wlan = "nothing" /\ Goto("exit")
  <2>1. Prompt' /\ Successful' /\ kernel' = kernel /\ at' = "exit"
    BY <1>3, SmoothGo DEF Goto
  <2>2. ~Suitable'
    BY <1>1, <1>3 DEF Suitable
  <2>3. Device' /\ Believed'
    BY <1>1, <2>1, <2>2 DEF Device, Believed
  <2>4. QED
    BY <2>1, <2>3 DEF SmoothInv
<1>4. QED
  BY <1>1, <1>2, <1>3 DEF FindDevice, Fails

LEMMA SmoothLinkUpdown ==
  ASSUME OrderInv, SmoothInv, NEW direction \in { "link_down", "link_up" }, LinkUpdown(direction)
  PROVE  SmoothInv'
<1> USE SmoothFacts DEF Stopped, Running, Opening
<1>1. UNCHANGED << options, io, current, wanted, found >> /\ at = direction
      /\ call.at = "done" /\ call.req = "get"
  BY DEF LinkUpdown, Back, Returned, KeepIo
<1>2. Call(direction, direction)
  BY <1>1 DEF LinkUpdown, Successful, Refused
<1>3. /\ Prompt' /\ Successful' /\ kernel' = kernel /\ at' = direction
      /\ call'.at = "send" /\ call'.req = direction
  BY <1>1, <1>2, SmoothCall DEF Requests
<1>4. Suitable' <=> Suitable
  BY <1>1 DEF Suitable
<1>5. Device' /\ Believed'
  BY <1>1, <1>3, <1>4 DEF Device, Believed
<1>6. QED
  BY <1>3, <1>5 DEF SmoothInv

LEMMA SmoothLinkDown ==
  ASSUME OrderInv, SmoothInv, LinkDown
  PROVE  SmoothInv'
<1> USE SmoothFacts DEF Stopped, Running, Opening
<1>1. CASE /\ Back("link_down", "link_down")
           /\ IF options.no_monitor_mode THEN Call("get", "link_up")
              ELSE Call("set_monitor_mode", "set_monitor_mode")
           /\ KeepIo
  <2>1. UNCHANGED << options, io, current, wanted, found >> /\ at = "link_down" /\ call.at = "done"
    BY <1>1 DEF Back, Returned, KeepIo
  <2>2. CASE options.no_monitor_mode /\ Call("get", "link_up")
    <3>1. /\ Prompt' /\ Successful' /\ kernel' = kernel /\ at' = "link_up"
          /\ call'.at = "send" /\ call'.req = "get"
      BY <2>1, <2>2, SmoothCall DEF Requests
    <3>2. Device' /\ Believed'
      BY <2>1, <2>2, <3>1 DEF Device, Believed
    <3>3. QED
      BY <3>1, <3>2 DEF SmoothInv
  <2>3. CASE ~options.no_monitor_mode /\ Call("set_monitor_mode", "set_monitor_mode")
    <3>1. /\ Prompt' /\ Successful' /\ kernel' = kernel /\ at' = "set_monitor_mode"
          /\ call'.at = "send"
      BY <2>1, <2>3, SmoothCall DEF Requests
    <3>2. Device' /\ Believed'
      BY <2>1, <2>3, <3>1 DEF Device, Believed
    <3>3. QED
      BY <3>1, <3>2 DEF SmoothInv
  <2>4. QED
    BY <1>1, <2>2, <2>3
<1>2. QED
  BY <1>1, SmoothLinkUpdown DEF LinkDown

LEMMA SmoothSetMonitorMode ==
  ASSUME OrderInv, SmoothInv, SetMonitorMode
  PROVE  SmoothInv'
<1> USE SmoothFacts DEF Stopped, Running, Opening
<1>1. UNCHANGED << options, io, current, wanted, found >> /\ at = "set_monitor_mode"
      /\ call.at = "done" /\ call.req = "set_monitor_mode"
  BY DEF SetMonitorMode, Back, Returned, KeepIo
<1>2. CASE Ok /\ Call("get", "link_up")
  <2>1. /\ Prompt' /\ Successful' /\ kernel' = kernel /\ at' = "link_up"
        /\ call'.at = "send" /\ call'.req = "get"
    BY <1>1, <1>2, SmoothCall DEF Requests
  <2>2. kernel.mode = "active" /\ Suitable /\ Suitable'
    BY <1>1, <1>2 DEF Device, Suitable
  <2>3. Device' /\ Believed'
    BY <1>1, <2>1, <2>2 DEF Device, Believed
  <2>4. QED
    BY <2>1, <2>3 DEF SmoothInv
<1>3. CASE ~Ok /\ Goto("exit")
  <2>1. Prompt' /\ Successful' /\ kernel' = kernel /\ at' = "exit"
    BY <1>3, SmoothGo DEF Goto
  <2>2. kernel = found /\ Refused("set_monitor_mode") /\ ~options.no_monitor_mode
        /\ options.wlan = "device"
    BY <1>1, <1>3 DEF Device
  <2>3. ~Suitable'
    BY <1>1, <2>2 DEF Suitable, Refused
  <2>4. Device' /\ Believed'
    BY <1>1, <2>1, <2>3 DEF Device, Believed
  <2>5. QED
    BY <2>1, <2>4 DEF SmoothInv
<1>4. QED
  BY <1>2, <1>3 DEF SetMonitorMode

LEMMA SmoothLinkUp ==
  ASSUME OrderInv, SmoothInv, LinkUp
  PROVE  SmoothInv'
<1> USE SmoothFacts DEF Stopped, Running, Opening
<1>1. CASE Back("link_up", "link_up") /\ Goto("open device") /\ KeepIo
  <2>1. UNCHANGED << options, io, current, wanted, found >> /\ at = "link_up"
        /\ call.at = "done" /\ call.req = "link_up"
    BY <1>1 DEF Back, Returned, KeepIo
  <2>2. Prompt' /\ Successful' /\ kernel' = kernel /\ at' = "open device"
    BY <1>1, SmoothGo DEF Goto
  <2>3. Suitable' <=> Suitable
    BY <2>1 DEF Suitable
  <2>4. Device' /\ Believed'
    BY <2>1, <2>2, <2>3 DEF Device, Believed
  <2>5. QED
    BY <2>2, <2>4 DEF SmoothInv
<1>2. QED
  BY <1>1, SmoothLinkUpdown DEF LinkUp

LEMMA SmoothOpenDevice ==
  ASSUME OrderInv, SmoothInv, OpenNonblockingDevice, failures' = 0
  PROVE  SmoothInv'
<1> USE SmoothFacts DEF Stopped, Running, Opening
<1> DEFINE opens == kernel.up /\ kernel.mode # "managed"
<1>1. UNCHANGED << options, current, wanted, found >> /\ ~Failing /\ at = "open device"
      /\ call.at = "done" /\ io \in IoType
  BY NothingFailed DEF OpenNonblockingDevice, Types
<1>2. opens <=> Suitable
  <2>1. kernel.up /\ options.wlan = "device"
        /\ (options.no_monitor_mode => kernel.mode = found.mode)
        /\ (~options.no_monitor_mode => kernel.mode = "active" /\ Suitable)
    BY <1>1 DEF Device
  <2>2. QED
    BY <2>1 DEF Suitable
<1>3. Suitable' <=> Suitable
  BY <1>1 DEF Suitable
<1>4. CASE opens /\ Call("get", "address") /\ io' = [ io EXCEPT !.wlan_fd = "open" ]
  <2>1. Prompt' /\ Successful' /\ kernel' = kernel /\ at' = "address"
    BY <1>1, <1>4, SmoothCall DEF Requests
  <2>2. io'.wlan_is_file = io.wlan_is_file
    BY <1>1, <1>4 DEF IoType
  <2>3. Device' /\ Believed'
    BY <1>1, <1>2, <1>3, <1>4, <2>1, <2>2 DEF Device, Believed
  <2>4. QED
    BY <2>1, <2>3 DEF SmoothInv
<1>5. CASE ~opens /\ Goto("host") /\ io' = [ io EXCEPT !.wlan_fd = "failed" ]
  <2>1. Prompt' /\ Successful' /\ kernel' = kernel /\ at' = "host"
    BY <1>5, SmoothGo DEF Goto
  <2>2. io'.wlan_fd = "failed"
    BY <1>1, <1>5 DEF IoType
  <2>3. Device' /\ Believed'
    BY <1>1, <1>2, <1>3, <1>5, <2>1, <2>2 DEF Device, Believed
  <2>4. QED
    BY <2>1, <2>3 DEF SmoothInv
<1>6. QED
  BY <1>1, <1>4, <1>5 DEF OpenNonblockingDevice

LEMMA SmoothLinkEtherAddrGet ==
  ASSUME OrderInv, SmoothInv, LinkEtherAddrGet
  PROVE  SmoothInv'
<1> USE SmoothFacts DEF Stopped, Running, Opening
<1>1. /\ at = "address" /\ call.at = "done" /\ call.req = "get" /\ io \in IoType
      /\ io.wlan_fd = "open" /\ Suitable
      /\ UNCHANGED << options, current, wanted, found >>
  BY DEF LinkEtherAddrGet, Back, Returned, Types, Device, OrderInv, StartupInv, Progress,
         DeviceReady
<1>2. Ok /\ call.object
  BY <1>1 DEF Refused, Successful
<1>3. Goto("host") /\ io' = [ io EXCEPT !.if_ether_addr = "known" ]
  BY <1>2 DEF LinkEtherAddrGet
<1>4. Prompt' /\ Successful' /\ kernel' = kernel /\ at' = "host"
  BY <1>3, SmoothGo DEF Goto
<1>5. io'.wlan_fd = "open" /\ Suitable'
  BY <1>1, <1>3 DEF IoType, Suitable
<1>6. Device' /\ Believed'
  BY <1>1, <1>4, <1>5 DEF Device, Believed
<1>7. QED
  BY <1>4, <1>6 DEF SmoothInv

LEMMA SmoothInitHost ==
  ASSUME OrderInv, SmoothInv, InitHost, options.host, failures' = 0
  PROVE  SmoothInv'
<1> USE SmoothFacts DEF Stopped, Running, Opening
<1>1. /\ at = "host" /\ ~Failing /\ io \in IoType
      /\ UNCHANGED << options, current, wanted, found >>
  BY NothingFailed DEF InitHost, Types
<1>2. Goto("schedule") /\ io' = [ io EXCEPT !.host_fd = "open" ]
  BY <1>1 DEF InitHost, Fails
<1>3. Prompt' /\ Successful' /\ kernel' = kernel /\ at' = "schedule"
  BY <1>2, SmoothGo DEF Goto
<1>4. io'.wlan_fd = io.wlan_fd /\ io'.host_fd = "open" /\ (Suitable' <=> Suitable)
  BY <1>1, <1>2 DEF IoType, Suitable
<1>5. Device' /\ Believed'
  BY <1>1, <1>3, <1>4 DEF Device, Believed
<1>6. QED
  BY <1>3, <1>5 DEF SmoothInv

LEMMA SmoothSchedule ==
  ASSUME OrderInv, SmoothInv, Schedule
  PROVE  SmoothInv'
<1> USE SmoothFacts DEF Stopped, Running, Opening
<1>1. PICK place \in Started : Goto(place)
  BY DEF Schedule
<1>2. at = "schedule" /\ UNCHANGED << options, io, current, wanted, found >> /\ io \in IoType
      /\ (Suitable' <=> Suitable)
  BY DEF Schedule, KeepIo, Types, Suitable
<1>3. Prompt' /\ Successful' /\ kernel' = kernel /\ at' = place
  BY <1>1, SmoothGo DEF Goto
<1>4. io.wlan_fd \in { "open", "failed" } /\ (io.wlan_fd = "open" <=> Suitable)
      /\ io.host_fd = "open"
  BY <1>2 DEF Device, IoType
<1>5. place = IF Suitable THEN "loop" ELSE "abort"
  BY <1>4 DEF Started
<1>6. ~kernel.neighbor /\ ~wanted /\ ~current
  BY <1>2 DEF Believed
<1>7. kernel.neighbor = wanted
  BY <1>6, Zenon DEF Types, Kernel, Counted
<1>8. Device'
  BY <1>2, <1>3, <1>5 DEF Device
<1>9. Believed'
  BY <1>2, <1>3, <1>5, <1>6, <1>7 DEF Believed
<1>10. QED
  BY <1>3, <1>8, <1>9 DEF SmoothInv

LEMMA SmoothSwitchChannel ==
  ASSUME OrderInv, SmoothInv, SwitchChannel
  PROVE  SmoothInv'
<1> USE SmoothFacts DEF Stopped, Running, Opening
<1>1. UNCHANGED << options, io, wanted, found >> /\ (Suitable' <=> Suitable)
  BY DEF SwitchChannel, KeepIo, Suitable
<1>2. CASE at = "loop" /\ ~current /\ ~io.wlan_is_file
           /\ Call("is_channel_available", "switch channel") /\ KeepIo
  <2>1. /\ Prompt' /\ Successful' /\ kernel' = kernel /\ at' = "switch channel"
        /\ call'.at = "send"
    BY <1>2, SmoothCall DEF Requests
  <2>2. Device' /\ Believed'
    BY <1>1, <1>2, <2>1 DEF Device, Believed, KeepIo
  <2>3. QED
    BY <2>1, <2>2 DEF SmoothInv
<1>3. CASE Back("switch channel", "is_channel_available")
           /\ Call("set_channel", "switch channel") /\ KeepIo
  <2>1. at = "switch channel" /\ call.at = "done"
    BY <1>3 DEF Back, Returned
  <2>2. /\ Prompt' /\ Successful' /\ kernel' = kernel /\ at' = "switch channel"
        /\ call'.at = "send"
    BY <1>3, <2>1, SmoothCall DEF Requests
  <2>3. Device' /\ Believed'
    BY <1>1, <1>3, <2>1, <2>2 DEF Device, Believed, KeepIo
  <2>4. QED
    BY <2>2, <2>3 DEF SmoothInv
<1>4. CASE /\ \/ Back("switch channel", "set_channel")
              \/ at = "loop" /\ ~current /\ io.wlan_is_file
           /\ Goto("loop") /\ current' = TRUE
  <2>1. Prompt' /\ Successful' /\ kernel' = kernel /\ at' = "loop"
    BY <1>4, SmoothGo DEF Goto
  <2>2. kernel.tuned \/ io.wlan_is_file
    BY <1>4 DEF Back, Returned, Believed
  <2>3. at \in { "loop", "switch channel" }
    BY <1>4 DEF Back
  <2>4. Device' /\ Believed'
    BY <1>1, <2>1, <2>2, <2>3 DEF Device, Believed
  <2>5. QED
    BY <2>1, <2>4 DEF SmoothInv
<1>5. QED
  BY <1>2, <1>3, <1>4 DEF SwitchChannel

LEMMA SmoothNeighbor ==
  ASSUME OrderInv, SmoothInv, Neighbor
  PROVE  SmoothInv'
<1> USE SmoothFacts DEF Stopped, Running, Opening
<1>1. UNCHANGED << options, io, current, found >> /\ (Suitable' <=> Suitable)
  BY DEF Neighbor, KeepIo, Suitable
<1>2. CASE /\ at = "loop" /\ wanted' = ~wanted
           /\ Call(IF wanted THEN "neighbor_remove" ELSE "neighbor_add", "neighbor")
  <2> DEFINE req == IF wanted THEN "neighbor_remove" ELSE "neighbor_add"
  <2>1. req \in Requests /\ req = IF wanted' THEN "neighbor_add" ELSE "neighbor_remove"
    BY <1>2 DEF Requests
  <2> HIDE DEF req
  <2>2. Call(req, "neighbor")
    BY <1>2 DEF req
  <2>3. /\ Prompt' /\ Successful' /\ kernel' = kernel /\ at' = "neighbor"
        /\ call'.at = "send" /\ call'.req = req
    BY <1>2, <2>1, <2>2, SmoothCall
  <2>4. Device' /\ Believed'
    BY <1>1, <1>2, <2>1, <2>3 DEF Device, Believed
  <2>5. QED
    BY <2>3, <2>4 DEF SmoothInv
<1>3. CASE at = "neighbor" /\ call.at = "done" /\ Goto("loop") /\ KeepIo
  <2>1. Prompt' /\ Successful' /\ kernel' = kernel /\ at' = "loop"
    BY <1>3, SmoothGo DEF Goto
  <2>2. kernel.neighbor = wanted
    BY <1>3 DEF Believed
  <2>3. Device' /\ Believed'
    BY <1>1, <1>3, <2>1, <2>2 DEF Device, Believed, KeepIo
  <2>4. QED
    BY <2>1, <2>3 DEF SmoothInv
<1>4. QED
  BY <1>2, <1>3 DEF Neighbor, Back, Returned

(* Without a failure no call uses a pointer that was not set.              *)
LEMMA SmoothNoCrash == ASSUME OrderInv, SmoothInv PROVE ~Crash
<1>1. call.at # "done" => call.result = "none"
  BY SmoothFacts DEF Sited
<1>2. QED
  BY <1>1, SmoothFacts DEF Crash

LEMMA NewFacts ==
  /\ NewIo.wlan_is_file = FALSE /\ NoCall.at = "done" /\ NoCall.req = "none"
  /\ InStep(NewSocket)
BY DEF NewIo, NoCall, NewSocket, InStep

LEMMA SmoothInit == Init => SmoothInv
<1> SUFFICES ASSUME Init PROVE SmoothInv
  OBVIOUS
<1>1. /\ sock = [ on \in Sockets |-> NewSocket ] /\ call = NoCall /\ io = NewIo
      /\ at = "netutils_init" /\ ~kernel.neighbor /\ found = kernel /\ ~wanted /\ ~current
  BY DEF Init
<1>2. Prompt /\ Successful
  BY <1>1, NewFacts DEF Prompt, Reading, Successful
<1>3. Device /\ Believed
  BY <1>1, NewFacts DEF Device, Believed, Stopped, Running, Opening
<1>4. QED
  BY <1>2, <1>3 DEF SmoothInv

LEMMA SmoothRestart == ASSUME OrderInv, Restart PROVE SmoothInv'
<1>1. /\ sock' = [ on \in Sockets |-> NewSocket ] /\ call' = NoCall /\ io' = NewIo
      /\ at' = "netutils_init" /\ found' = kernel' /\ ~wanted' /\ ~current'
      /\ kernel' = [ kernel EXCEPT !.neighbor = FALSE ] /\ kernel \in Kernel
  BY DEF Restart, OrderInv, StartupInv, Types
<1>2. ~kernel'.neighbor
  BY <1>1 DEF Kernel
<1>3. Prompt' /\ Successful'
  BY <1>1, NewFacts DEF Prompt, Reading, Successful
<1>4. Device' /\ Believed'
  BY <1>1, <1>2, NewFacts DEF Device, Believed, Stopped, Running, Opening
<1>5. QED
  BY <1>3, <1>4 DEF SmoothInv

(* A start without failures has had none before.                           *)
LEMMA StaysSmooth ==
  ASSUME OrderInv, Next, ~Restart, Smooth'
  PROVE  Smooth
<1> USE DEF Goto, Call, Fails, Failing, KeepIo
<1>1. options' = options /\ failures' \in { failures, failures + 1 }
  <2>1. CASE NetutilsInit \/ FindDevice \/ SetMonitorMode
    BY <2>1 DEF NetutilsInit, FindDevice, SetMonitorMode
  <2>2. CASE OpenSavefile \/ OpenNonblockingDevice \/ LinkEtherAddrGet
    BY <2>2 DEF OpenSavefile, OpenNonblockingDevice, LinkEtherAddrGet
  <2>3. CASE LinkDown \/ LinkUp
    BY <2>3 DEF LinkDown, LinkUp, LinkUpdown
  <2>4. CASE InitHost \/ Schedule \/ Crash
    BY <2>4 DEF InitHost, Schedule, Crash
  <2>5. CASE SwitchChannel
    BY <2>5 DEF SwitchChannel
  <2>6. CASE Neighbor
    BY <2>6 DEF Neighbor
  <2>7. CASE NetlinkRequest
    BY <2>7 DEF NetlinkRequest, NetlinkStep, Send, BuildFails, SendFails, Receive, ReceiveFails
  <2>8. QED
    BY <2>1, <2>2, <2>3, <2>4, <2>5, <2>6, <2>7 DEF Next
<1>2. failures \in Nat
  BY NetlinkAssumption DEF OrderInv, Counted
<1>3. QED
  BY <1>1, <1>2 DEF Smooth

LEMMA RightInvNext == OrderInv /\ RightInv /\ [Next]_vars => RightInv'
<1> SUFFICES ASSUME OrderInv, RightInv, [Next]_vars, Smooth' PROVE SmoothInv'
  BY DEF RightInv
<1>1. CASE Restart
  BY <1>1, SmoothRestart
<1>2. CASE UNCHANGED vars
  <2>1. SmoothInv
    BY <1>2 DEF vars, netlinkVars, Smooth, RightInv
  <2>2. Prompt' /\ Successful'
    BY <1>2, <2>1, SmoothGo DEF vars, netlinkVars, SmoothInv
  <2>3. UNCHANGED << at, options, io, current, wanted, found, kernel, call >>
    BY <1>2 DEF vars, netlinkVars
  <2>4. (Suitable' <=> Suitable) /\ (Refused("set_monitor_mode")' <=> Refused("set_monitor_mode"))
    BY <2>3 DEF Suitable, Refused
  <2>5. Device'
    BY <2>1, <2>3, <2>4 DEF SmoothInv, Device
  <2>6. Believed'
    BY <2>1, <2>3 DEF SmoothInv, Believed
  <2>7. QED
    BY <2>2, <2>5, <2>6 DEF SmoothInv
<1>3. CASE Next /\ ~Restart
  <2>1. Smooth /\ SmoothInv /\ failures' = 0 /\ options.host
    BY <1>3, StaysSmooth DEF RightInv, Smooth
  <2>2. CASE NetutilsInit \/ OpenSavefile \/ FindDevice \/ LinkDown \/ SetMonitorMode \/ LinkUp
    BY <2>1, <2>2, SmoothNetutilsInit, SmoothOpenSavefile, SmoothFindDevice, SmoothLinkDown,
       SmoothSetMonitorMode, SmoothLinkUp
  <2>3. CASE OpenNonblockingDevice \/ LinkEtherAddrGet \/ InitHost \/ Schedule
    BY <2>1, <2>3, SmoothOpenDevice, SmoothLinkEtherAddrGet, SmoothInitHost, SmoothSchedule
  <2>4. CASE SwitchChannel \/ Neighbor \/ NetlinkRequest \/ Crash
    BY <2>1, <2>4, SmoothSwitchChannel, SmoothNeighbor, SmoothRequest, SmoothNoCrash
  <2>5. QED
    BY <1>3, <2>2, <2>3, <2>4 DEF Next
<1>4. QED
  BY <1>1, <1>2, <1>3

(* For any number of requests, restarts and devices: as long as nothing    *)
(* fails, the daemon runs exactly on what it can, has read every answer,   *)
(* and knows the channel and the neighbour of the kernel.                  *)
THEOREM RightWithoutFailure == Spec => []RightIfNothingFails
<1>1. Init => RightInv
  BY SmoothInit DEF RightInv
<1>2. OrderInv /\ RightInv => RightIfNothingFails
  <2> SUFFICES ASSUME OrderInv, RightInv, Smooth
               PROVE  /\ at \in Stopped => ~Suitable
                      /\ at \in Running => Suitable
                      /\ at = "loop" =>
                           /\ \A on \in Sockets : InStep(sock[on])
                           /\ kernel.neighbor = wanted
                           /\ (current /\ ~io.wlan_is_file) => kernel.tuned
    BY DEF RightIfNothingFails, Smooth, InStep
  <2>1. SmoothInv
    BY DEF RightInv
  <2>2. (at \in Stopped => ~Suitable) /\ (at \in Running => Suitable)
    BY <2>1 DEF SmoothInv, Device
  <2>3. at = "loop" => \A on \in Sockets : InStep(sock[on])
    BY <2>1, SmoothFacts DEF Prompt, Reading
  <2>4. at = "loop" => kernel.neighbor = wanted /\ (current /\ ~io.wlan_is_file => kernel.tuned)
    BY <2>1 DEF SmoothInv, Believed, Running
  <2>5. QED
    BY <2>2, <2>3, <2>4
<1>3. QED
  BY <1>1, <1>2, OrderInvInit, OrderInvNext, RightInvNext, PTL DEF Spec
=============================================================================
