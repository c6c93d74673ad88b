---------------------------- MODULE AwdlNetRounds ----------------------------
(***************************************************************************)
(* AwdlNet when the radio and the timers behave: everybody hears every     *)
(* frame but for a few, and in each clean interval every device sends a    *)
(* MIF and every running daemon cleans its table.  (The code sends a PSF   *)
(* every 110 TU and a MIF in every extended availability window of 64 TU,  *)
(* and its clean interval is one second.)  PSFs are left out: they say     *)
(* what MIFs say.  Devices still come and go.  This is the setting in      *)
(* which a network can be asked to agree.                                  *)
(***************************************************************************)
EXTENDS AwdlNet

CONSTANT MaxChanges   \* bound: how often devices come, go, raise their counter
                      \* or send a frame that some do not hear

VARIABLES
  spoke,     \* the devices that sent a MIF in this interval
  cleaned,   \* the nodes whose cleanup timer fired in this interval
  changes    \* changes so far

rvars == << vars, spoke, cleaned, changes >>

RInit == Init /\ spoke = {} /\ cleaned = {} /\ changes = 0

RAnnounce(a) ==
  /\ Announce(a, TRUE, up \ {a})
  /\ spoke' = spoke \cup {a}
  /\ UNCHANGED << cleaned, changes >>

RCleanPeers(n) ==
  /\ CleanPeers(n)
  /\ cleaned' = cleaned \cup {n}
  /\ UNCHANGED << spoke, changes >>

(* A device that comes or goes counts from scratch. *)
RChange(a) ==
  /\ changes < MaxChanges
  /\ changes' = changes + 1
  /\ \/ a \in Owl /\ (Crash(a) \/ Restart(a))
     \/ a \in Foreign /\ (Arrive(a) \/ Depart(a) \/ RaiseCounter(a))
  /\ spoke' = spoke \ {a}
  /\ cleaned' = cleaned \ {a}

(* Node n does not hear the frame that a sends in this interval. *)
RLoss(a, n) ==
  /\ changes < MaxChanges
  /\ changes' = changes + 1
  /\ a \notin spoke /\ n \in up \ {a}
  /\ Announce(a, TRUE, up \ {a, n})
  /\ spoke' = spoke \cup {a}
  /\ UNCHANGED cleaned

RTick ==
  /\ up \cup on \subseteq spoke
  /\ up \subseteq cleaned
  /\ Tick
  /\ spoke' = {}
  /\ cleaned' = {}
  /\ UNCHANGED changes

RNext ==
  \/ \E a \in Device : RAnnounce(a)
  \/ \E n \in Owl : RCleanPeers(n)
  \/ \E a \in Device : RChange(a) \/ \E n \in Owl : RLoss(a, n)
  \/ RTick

(* What is left to do in this interval. *)
RProgress ==
  \/ \E a \in (up \cup on) \ spoke : RAnnounce(a)
  \/ \E n \in up \ cleaned : RCleanPeers(n)
  \/ RTick

RSpec == RInit /\ [][RNext]_rvars /\ WF_rvars(RProgress)

-----------------------------------------------------------------------------
(* r is the best master among the devices that are there: no other has a   *)
(* higher rank, or the same rank and a higher address.                     *)
IsBestRoot(r) ==
  /\ r \in up \cup on
  /\ \A a \in up \cup on :
       a # r => Preferred(ResetSelf(r, IF r \in Foreign THEN counter[r] ELSE CounterInit, Metric[r]),
                          ResetSelf(a, IF a \in Foreign THEN counter[a] ELSE CounterInit, Metric[a]))

(* Everybody follows the best master directly and knows its counter.       *)
Agreed ==
  \A n \in up :
    LET r == election[n].master_addr
    IN  /\ IsBestRoot(r)
        /\ election[n].sync_addr = r
        /\ r \in Foreign => election[n].master_counter = counter[r]

(* Once devices stop coming and going and frames are heard, as MaxChanges  *)
(* makes them, the nodes that are left agree on the best of the masters    *)
(* that are left, and keep agreeing.  What is said of a master that has    *)
(* left goes round among the nodes, higher by one with every pass, until   *)
(* the limit ends it.                                                      *)
EventuallyAgreed == <>[]Agreed
=============================================================================
