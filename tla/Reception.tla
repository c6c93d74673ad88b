----------------------------- MODULE Reception -----------------------------
(***************************************************************************)
(* The reception of frames (rx.c): the radiotap header and the checks that *)
(* use it, the TLVs of an action frame, which update the entry of their    *)
(* sender one after the other, the subframes of an A-MSDU, and the         *)
(* delivery to the host (core.c).                                          *)
(*                                                                         *)
(* Three devices send: a node of this implementation, and two of other     *)
(* makers, which send A-MSDUs as well.  A frame may arrive cut short.  One *)
(* call of apple_p2p_receive_frame is one step.                            *)
(***************************************************************************)
EXTENDS Radiotap, FiniteSets

CONSTANTS
  PresenceMode,   \* 4
  NameMax,        \* HOST_NAME_LENGTH_MAX
  EtherMaxLen,    \* ETHER_MAX_LEN
  FilterRssi,     \* filter_rssi: weak action frames are ignored
  RssiThreshold,  \* RSSI_THRESHOLD_DEFAULT
  RssiGrace,      \* RSSI_GRACE_DEFAULT, for known peers
  MaxVersion,     \* bound: changes of the state that the peer announces
  Headers,        \* bound: the radiotap headers: << layout, flags, signal >>
  Held,           \* bound: what the variables held that a header does not set
  Cuts,           \* bound: the lengths to which a frame may be cut
  HeaderCuts,     \* bound: the lengths to which a radiotap header may be cut
  Actions,        \* bound: << make, subtype, length of the name >> of action frames
  Payloads        \* bound: the sequences of Ethernet frames in a data frame

(* The layouts are those of Tap.                                           *)
ASSUME ReceptionAssumption ==
  /\ ChanSeqLength \in 1 .. 255 /\ NameMax \in Nat /\ PresenceMode \in Nat
  /\ EtherMaxLen \in Nat /\ EtherMaxLen >= 14
  /\ FilterRssi \in BOOLEAN /\ RssiThreshold \in Int /\ RssiGrace \in Int
  /\ MaxVersion \in Nat \ {0}
  /\ Headers \subseteq
       { "sent", "plain", "antennas", "vendor", "within", "behind", "bare" }
         \X (0 .. 255) \X (-128 .. 127)
  /\ \A h \in Headers : h[1] = "sent" => h[2] = 0 /\ h[3] = -30
  /\ Held \subseteq [ flags : 0 .. 255, rssi : -128 .. 127, next_ns_data : Nat ]
  /\ Held # { }
  /\ Cuts \subseteq Nat /\ HeaderCuts \subseteq Nat
  /\ Actions \subseteq { "own", "v1", "steps" } \X { 0, 3 } \X (0 .. 255)
  /\ Payloads \subseteq
       Seq([ id : Nat, src : Nat, dst : Nat, length : Nat, llc : BOOLEAN ])

(* An Ethernet frame is no longer than EtherMaxLen, and apple_p2p_receive_ *)
(* frame has as many buffers as an A-MSDU has subframes.                   *)
MaxNumAmpdu == 16

ASSUME PayloadAssumption ==
  \A ms \in Payloads :
    Len(ms) <= MaxNumAmpdu /\ \A i \in DOMAIN ms : 14 + ms[i].length <= EtherMaxLen

VARIABLES
  version,   \* of what the peer announces
  entry,     \* the peer's entry in the table, NoEntry if it has none
  clock,     \* the fields of the last sync parameters that were used
  follows,   \* the peer is our parent in the synchronisation tree
  host,      \* what the frame has brought to the host
  result,    \* what apple_p2p_rx has returned
  last       \* history: the frame, NoFrame if a property needs not know it

vars == << version, entry, clock, follows, host, result, last >>

Peer == 1       \* the device that announces
Stranger == 2   \* a device without an entry
Self == 3

(* enum RX_RESULT; what is negative is an error.                           *)
RxOk == 0              RxIgnore == 1         RxIgnoreFromSelf == 2
RxIgnoreFailedCrc == 4 RxIgnoreRssi == 5     RxIgnorePeer == 6
RxUnexpectedFormat == -1   RxUnexpectedType == -2   RxTooShort == -3

NoEntry == [ known |-> FALSE ]

(* apple_p2p_peer_new; << >> stands for the initial value of a field.      *)
NewEntry ==
  [ known |-> TRUE, height |-> << >>, master_addr |-> << >>, sync_addr |-> << >>,
    master_counter |-> << >>, master_metric |-> << >>, self_metric |-> << >>,
    self_counter |-> << >>, supports_v2 |-> FALSE, sequence |-> << >>,
    name |-> << >>, country_code |-> << >>, infra_addr |-> << >>,
    version |-> << >>, devclass |-> << >>, sent_mif |-> FALSE ]
NoClock == [ time_to_next_aw |-> << >>, aw_counter |-> << >> ]

(* The frames that are sent, and their bytes behind the radiotap header.   *)
Announcements ==
  { [ kind |-> "action", make |-> a[1], type |-> a[2], name |-> a[3], version |-> v ] :
      a \in Actions, v \in 1 .. MaxVersion }
DataFrames ==
  { [ kind |-> k, ms |-> ms ] : k \in { "data", "qos", "amsdu" }, ms \in Payloads }
Others == { [ kind |-> k ] : k \in { "beacon", "block ack", "echo" } }
NoFrame == [ kind |-> "none" ]

SentFrames ==
  Announcements \cup Others
    \cup { f \in DataFrames : f.kind = "amsdu" \/ Len(f.ms) = 1 }

Bytes ==
  [ f \in SentFrames |->
      CASE f.kind = "action" ->
             Header(ActionFrame, Peer, 0)
               \o IF f.make = "own" THEN ActionBody(f.version, f.type, f.name)
                                    ELSE BodyOfOthers(f.version, f.make, f.name)
        [] f.kind = "data" ->
             Header(DataFrame, f.ms[1].src, f.ms[1].dst) \o DataBody(f.ms[1])
        [] f.kind = "qos" ->
             Header(QosDataFrame, f.ms[1].src, f.ms[1].dst) \o QosControl(FALSE)
               \o DataBody(f.ms[1])
        [] f.kind = "amsdu" ->
             Header(QosDataFrame, Peer, Self) \o QosControl(TRUE) \o Aggregate(f.ms)
        [] f.kind = "beacon" -> Header(128, Stranger, 0)
        [] f.kind = "block ack" -> Header(ActionFrame, Peer, Self) \o Padding(20)
        [] OTHER -> Header(ActionFrame, Self, 0) \o ActionBody(0, Psf, 0) ]

(* The radiotap headers.  One without flags tells nothing, of a frame with *)
(* or without a checksum.                                                  *)
Tap ==
  [ h \in Headers |->
      CASE h[1] = "sent"     -> SentTap
        [] h[1] = "plain"    -> PlainTap(h[2], h[3])
        [] h[1] = "antennas" -> AntennasTap(h[2], h[3])
        [] h[1] = "vendor"   -> VendorTap(h[2], h[3])
        [] h[1] = "within"   -> LaterTap(h[2], h[3], 18)
        [] h[1] = "behind"   -> LaterTap(h[2], h[3], 27)
        [] h[1] = "bare"     -> BareTap ]

(* radiotap_parse of the headers; it reads nothing behind them.            *)
Told == [ h \in Headers |-> [ held \in Held |-> RadiotapParse(Tap[h], held) ] ]

IsSet(flags, flag) == (flags \div flag) % 2 = 1
-----------------------------------------------------------------------------
(* Reading TLVs.  A handler returns whether it succeeded and the record it *)
(* filled in, with the fields it reached.                                  *)
Fill(record, val, reads) ==
  LET reached == { i \in DOMAIN reads :
                     \A k \in 1 .. i : Fits(val, reads[k][2], reads[k][3]) }
      into(field) == { i \in reached : reads[i][1] = field }
  IN  [ ok |-> reached = DOMAIN reads,
        record |-> [ field \in DOMAIN record |->
          IF into(field) = { } THEN record[field]
          ELSE LET i == CHOOSE i \in into(field) : TRUE
               IN  Read(val, reads[i][2], reads[i][3]) ] ]

Done(record) == [ ok |-> TRUE, record |-> record ]
Malformed(record) == [ ok |-> FALSE, record |-> record ]

(* Fault: the offsets are counted from the beginning of the TLV.           *)
SyncReadsInTlv == << << "time_to_next_aw", 4, 2 >>, << "aw_counter", 32, 2 >> >>

SyncReads == << << "time_to_next_aw", 1, 2 >>, << "aw_counter", 29, 2 >> >>

ElectionParamsReads ==
  << << "height", 3, 1 >>, << "master_addr", 5, 6 >>, << "master_metric", 11, 4 >>,
     << "self_metric", 15, 4 >> >>

(* Fault: the first version is used although the second is known.          *)
HandleElectionParamsAlways(e, val) == Fill(e, val, ElectionParamsReads)

HandleElectionParams(e, val) ==
  IF e.supports_v2 THEN Done(e) ELSE Fill(e, val, ElectionParamsReads)

HandleElectionParamsV2(e, val) ==
  LET filled == Fill(e, val, << << "height", 16, 4 >>, << "master_addr", 0, 6 >>,
                                << "sync_addr", 6, 6 >>, << "master_counter", 12, 4 >>,
                                << "master_metric", 20, 4 >>, << "self_metric", 24, 4 >>,
                                << "self_counter", 36, 4 >> >>)
  IN  [ filled EXCEPT !.record.supports_v2 = @ \/ filled.ok ]

(* Channels of one byte or two.                                            *)
EncodingSize(encoding) == IF encoding = 0 THEN 1 ELSE IF encoding \in { 1, 3 } THEN 2 ELSE -1

HandleChanSeq(e, val) ==
  LET size == EncodingSize(ReadU8(val, 1))
  IN  IF /\ Fits(val, 0, 6)
         /\ ReadU8(val, 0) + 1 = ChanSeqLength
         /\ ReadU8(val, 2) = 0
         /\ ReadU8(val, 3) + 1 = PresenceMode
         /\ ReadLE16(val, 4) = 65535
         /\ size >= 1
         /\ Fits(val, 6, size * ChanSeqLength)
        THEN Done([ e EXCEPT !.sequence = Read(val, 6, size * ChanSeqLength) ])
        ELSE Malformed(e)

(* Fault: the name is not cut to the room there is.                        *)
NameRoomAny(wanted) == wanted

(* How much of a name is stored (read_int_string).                         *)
NameRoom(wanted) == IF wanted > NameMax THEN NameMax ELSE wanted

HandleArpa(e, val) ==
  IF Fits(val, 1, 1) /\ Fits(val, 2, NameRoom(ReadU8(val, 1)))
    THEN Done([ e EXCEPT !.name = Read(val, 2, NameRoom(ReadU8(val, 1))) ])
    ELSE Malformed(e)

(* The fields that the flags announce, one after the other: where each     *)
(* would end.                                                              *)
HandleDataPathState(e, val) ==
  LET has(bit) == (ReadLE16(val, 0) \div bit) % 2 = 1
      behind(offset, bit, width) == IF has(bit) THEN offset + width ELSE offset
      country_code == behind(2, 256, 3)
      social_channels == behind(country_code, 512, 2)
      infra_bssid == behind(social_channels, 1, 8)
      infra_addr == behind(infra_bssid, 2, 6)
      apple_p2p_addr == behind(infra_addr, 4, 6)
  IN  IF ~Fits(val, 0, 2) THEN Malformed(e)
      ELSE [ ok |-> apple_p2p_addr <= Len(val),
             record |-> [ e EXCEPT
               !.country_code = IF has(256) /\ country_code <= Len(val)
                                  THEN Read(val, 2, 3) ELSE @,
               !.infra_addr = IF has(2) /\ infra_addr <= Len(val)
                                THEN Read(val, infra_bssid, 6) ELSE @ ] ]

HandleVersion(e, val) ==
  IF Fits(val, 0, 2)
    THEN Done([ e EXCEPT !.version = Read(val, 0, 1), !.devclass = Read(val, 1, 1) ])
    ELSE Malformed(e)

(* apple_p2p_handle_tlv, but for the sync parameters. *)
HandleTlv(e, type, val) ==
  CASE type = ChanSeqType    -> HandleChanSeq(e, val)
    [] type = ElectionType   -> HandleElectionParams(e, val)
    [] type = ElectionV2Type -> HandleElectionParamsV2(e, val)
    [] type = ArpaType       -> HandleArpa(e, val)
    [] type = DataPathType   -> HandleDataPathState(e, val)
    [] type = VersionType    -> HandleVersion(e, val)
    [] OTHER                 -> Done(e)

(* apple_p2p_handle_tlv, within the loop that ends at the first error.  A  *)
(* node that is not our parent does not set the clock.                     *)
HandleNext(s, tlv) ==
  IF s.failed THEN s
  ELSE IF tlv[1] = SyncType
    THEN IF ~follows THEN s
         ELSE LET synced == Fill(s.clock, tlv[2], SyncReads)
              IN  IF synced.ok THEN [ s EXCEPT !.clock = synced.record ]
                               ELSE [ s EXCEPT !.failed = TRUE ]
    ELSE LET handled == HandleTlv(s.entry, tlv[1], tlv[2])
         IN  [ s EXCEPT !.entry = handled.record, !.failed = ~handled.ok ]
-----------------------------------------------------------------------------
(* What a frame does: to the entry, the clock and the host.                *)
Outcome(r) == [ entry |-> entry, clock |-> clock, out |-> << >>, result |-> r ]

(* apple_p2p_parse_action_hdr.                                             *)
IsAnnouncement(frame) ==
  /\ Fits(frame, 0, 16)
  /\ Read(frame, 0, 6) = Field("action", 0, 6)
  /\ ReadU8(frame, 6) \in { Psf, Mif }

(* The signal that an action frame needs.                                  *)
Limit == IF entry.known THEN RssiThreshold + RssiGrace ELSE RssiThreshold

(* An entry may not be added for lack of memory.                           *)
RxAction(frame, rssi, memory) ==
  LET parsed == ReadTlvs(frame, 16)
      known == IF entry.known THEN entry ELSE NewEntry
      start == [ entry |-> known, clock |-> clock, failed |-> FALSE ]
      after[n \in 0 .. Len(parsed.tlvs)] ==
        IF n = 0 THEN start ELSE HandleNext(after[n - 1], parsed.tlvs[n])
      end == after[Len(parsed.tlvs)]
      ok == ~end.failed /\ parsed.left = 0
      completed == [ end.entry EXCEPT !.sent_mif = @ \/ (ok /\ ReadU8(frame, 6) = Mif) ]
  IN  IF ~IsAnnouncement(frame) THEN Outcome(RxIgnore)
      ELSE IF FilterRssi /\ rssi < Limit THEN Outcome(RxIgnoreRssi)
      ELSE IF ~entry.known /\ ~memory THEN Outcome(RxIgnore)
      ELSE [ entry |-> completed, clock |-> end.clock, out |-> << >>,
             result |-> IF ok THEN RxOk ELSE RxUnexpectedFormat ]

ValidLlc(frame) ==
  /\ Fits(frame, 0, 8)
  /\ ReadU8(frame, 0) = 170 /\ ReadU8(frame, 1) = 170 /\ ReadU8(frame, 2) = 3
  /\ ReadBE16(frame, 6) = 2048

(* The buffer that is made for the host always has EtherMaxLen bytes: what *)
(* is not written is whatever the memory held.                             *)
Delivery(dst, src, data) ==
  LET head == dst \o src \o Read(data, 6, 2)
      payload == Strip(data, 8)
      written == IF Len(head) + Len(payload) <= EtherMaxLen THEN head \o payload ELSE head
  IN  written \o Field("memory", 0, EtherMaxLen - Len(written))

RxData(frame, src, dst) ==
  IF ~entry.known \/ src # Address(Peer) THEN Outcome(RxIgnorePeer)
  ELSE IF ~ValidLlc(frame) THEN Outcome(RxUnexpectedFormat)
  ELSE IF ~Fits(frame, 8, 8) THEN Outcome(RxTooShort)
  ELSE [ Outcome(RxOk) EXCEPT !.out = << Delivery(dst, src, Strip(frame, 8)) >> ]

(* Fault: the subframe is padded by its length without its header.         *)
SubframePaddingOfBody(length) == (4 - (length % 4)) % 4

SubframePadding(length) == (4 - ((14 + length) % 4)) % 4

RxAmsdu(frame) ==
  LET from[at \in 0 .. Len(frame)] ==
        LET length == ReadBE16(frame, at + 12)
            sub == RxData(Read(frame, at + 14, length),
                          Read(frame, at + 6, 6), Read(frame, at, 6))
            end == at + 14 + length
            next == IF end = Len(frame) THEN end ELSE end + SubframePadding(length)
            rest == from[next]
        IN  IF at = Len(frame) THEN Outcome(RxOk)
            ELSE IF ~Fits(frame, at, 14) THEN Outcome(RxTooShort)
            ELSE IF end > Len(frame) THEN Outcome(RxTooShort)
            ELSE IF sub.result < 0 THEN sub
            ELSE IF next > Len(frame) THEN Outcome(RxTooShort)
            ELSE [ rest EXCEPT !.out = sub.out \o @ ]
  IN  from[0]

RxQosData(frame, src, dst) ==
  IF ~Fits(frame, 0, 2) THEN Outcome(RxTooShort)
  ELSE IF (ReadLE16(frame, 0) \div 128) % 2 = 1 THEN RxAmsdu(Strip(frame, 2))
  ELSE RxData(Strip(frame, 2), src, dst)

(* check_fcs, with what radiotap_parse has told, then what follows it in   *)
(* apple_p2p_rx.                                                           *)
Rx(buf, told, memory) ==
  LET bytes == Strip(buf, told.length)
      checksum == IsSet(told.flags, FlagFcs)
      failed == IsSet(told.flags, FlagBadFcs) \/ (checksum /\ Len(bytes) < 4)
      frame == IF checksum THEN Take(bytes, 4) ELSE bytes
      dst == Read(frame, 4, 6)
      src == Read(frame, 10, 6)
      body == Strip(frame, 24)
  IN  IF ~told.ok THEN Outcome(RxUnexpectedFormat)
      ELSE IF failed THEN Outcome(RxIgnoreFailedCrc)
      ELSE IF ~Fits(frame, 0, 24) THEN Outcome(RxTooShort)
      ELSE IF src = Address(Self) THEN Outcome(RxIgnoreFromSelf)
      ELSE CASE ReadLE16(frame, 0) = ActionFrame  -> RxAction(body, told.rssi, memory)
             [] ReadLE16(frame, 0) = QosDataFrame -> RxQosData(body, src, dst)
             [] ReadLE16(frame, 0) = DataFrame    -> RxData(body, src, dst)
             [] OTHER -> Outcome(RxUnexpectedType)
-----------------------------------------------------------------------------
Init ==
  /\ version = 1
  /\ entry = NoEntry /\ clock = NoClock /\ follows = FALSE
  /\ host = << >> /\ result = RxOk
  /\ last = NoFrame

(* apple_p2p_receive_frame: the frame f with the header h, of which buf is *)
(* captured.                                                               *)
Received(f, h, buf, told, memory, whole) ==
  LET outcome == Rx(buf, told, memory)
  IN  /\ entry' = outcome.entry
      /\ clock' = outcome.clock
      /\ host' = IF outcome.result = RxOk THEN outcome.out ELSE << >>
      /\ result' = outcome.result
      /\ last' = IF memory /\ (whole \/ f.kind = "amsdu")
                  THEN [ frame |-> f, whole |-> whole, near |-> h[3] >= Limit ] ELSE NoFrame
      /\ UNCHANGED << version, follows >>

(* The callback returns to the event loop.                                 *)
AtRest == host = << >> /\ result = RxOk /\ last = NoFrame

Return ==
  /\ ~AtRest
  /\ host' = << >> /\ result' = RxOk /\ last' = NoFrame
  /\ UNCHANGED << version, entry, clock, follows >>

(* What is in the air: of the peer's announcements, those of its present   *)
(* state.                                                                  *)
InTheAir == { f \in SentFrames : f.kind = "action" => f.version = version }

(* A header without flags says nothing of the checksum that the frame ends *)
(* in; the variables are not initialised then.                             *)
HeldBefore(h) == IF h[1] = "bare" THEN Held ELSE { CHOOSE v \in Held : TRUE }

Arrive ==
  /\ AtRest
  /\ \E f \in InTheAir, h \in Headers, memory \in { entry.known, TRUE } :
     \E held \in HeldBefore(h) :
       LET bytes == IF IsSet(h[2], FlagFcs) THEN Bytes[f] \o Fcs ELSE Bytes[f]
       IN  Received(f, h, Tap[h] \o bytes, Told[h][held], memory,
                    h[1] # "bare" /\ ~IsSet(h[2], FlagBadFcs))

(* The frame ends early, or even the header.                               *)
ArriveCut ==
  /\ AtRest
  /\ \E f \in InTheAir, h \in Headers, cut \in Cuts : \E held \in HeldBefore(h) :
       /\ h[1] = "sent"
       /\ cut < Len(Bytes[f])
       /\ Received(f, h, Tap[h] \o SubSeq(Bytes[f], 1, cut), Told[h][held], TRUE, FALSE)

ArriveCutInHeader ==
  /\ AtRest
  /\ \E f \in Others, h \in Headers, cut \in HeaderCuts : \E held \in HeldBefore(h) :
       LET buf == SubSeq(Tap[h], 1, cut)
       IN  cut < Len(Tap[h]) /\ Received(f, h, buf, RadiotapParse(buf, held), TRUE, FALSE)

(* The peer's state changes.                                               *)
Change ==
  /\ AtRest
  /\ version < MaxVersion
  /\ version' = version + 1
  /\ UNCHANGED << entry, clock, follows, host, result, last >>

(* apple_p2p_clean_peers: the peer may be dropped, and the election finds  *)
(* a parent.                                                               *)
CleanPeers ==
  /\ AtRest
  /\ entry' \in { entry, NoEntry }
  /\ follows' \in { b \in BOOLEAN : b => entry'.known }
  /\ UNCHANGED << version, clock, host, result, last >>

Next == Arrive \/ ArriveCut \/ ArriveCutInHeader \/ Return \/ Change \/ CleanPeers

Spec == Init /\ [][Next]_vars
-----------------------------------------------------------------------------
Results == { RxOk, RxIgnore, RxIgnoreFromSelf, RxIgnoreFailedCrc, RxIgnoreRssi,
             RxIgnorePeer, RxUnexpectedFormat, RxUnexpectedType, RxTooShort }

(* Every field of the entry has its width, or its initial value; the name  *)
(* fits into its room (peers.h:25); every delivery has the length of the   *)
(* buffer.                                                                 *)
TypeOK ==
  /\ version \in 1 .. MaxVersion
  /\ entry.known =>
       /\ DOMAIN entry = DOMAIN NewEntry
       /\ Len(entry.name) <= NameMax
       /\ Len(entry.master_addr) \in { 0, 6 } /\ Len(entry.sync_addr) \in { 0, 6 }
       /\ Len(entry.country_code) \in { 0, 3 } /\ Len(entry.infra_addr) \in { 0, 6 }
  /\ DOMAIN clock = DOMAIN NoClock
  /\ follows => entry.known
  /\ result \in Results
  /\ \A i \in DOMAIN host : Len(host[i]) = EtherMaxLen

(* Fields of the entry, and the fields of the announcement that they show. *)
AnnouncedV1 ==
  { << "height", "distancetop", 1 >>, << "master_addr", "top_master_addr", 6 >>,
    << "master_metric", "top_master_metric", 4 >>, << "self_metric", "self_metric", 4 >> }
AnnouncedV2 ==
  { << "height", "distance_to_master", 4 >>, << "master_addr", "master_addr", 6 >>,
    << "sync_addr", "sync_addr", 6 >>, << "master_counter", "master_counter", 4 >>,
    << "master_metric", "master_metric", 4 >>, << "self_metric", "self_metric", 4 >>,
    << "self_counter", "self_counter", 4 >> }
AnnouncedElsewhere ==
  { << "sequence", "sequence", 2 * ChanSeqLength >>, << "country_code", "country_code", 3 >>,
    << "version", "version", 1 >>, << "devclass", "devclass", 1 >> }

Shows(record, fields, v) == \A f \in fields : record[f[1]] = Field(f[2], v, f[3])

(* A service response consists of a name, a type, and data, with the       *)
(* lengths of the first two and of the data in front of them.              *)
TellsItsLengths(response) ==
  LET head == 2 + ReadLE16(response, 0)
  IN  /\ Fits(response, head, 4)
      /\ ReadU8(response, head - 1) \in { PtrRecord, SrvRecord, TxtRecord }
      /\ head + 4 + ReadLE16(response, head) = Len(response)
Responses ==
  [ f \in { g \in Announcements : g.make = "own" } |->
      { r \in ToSet(ReadTlvs(ActionBody(f.version, f.type, f.name), 16).tlvs) :
          r[1] = ServiceResponseType } ]

(* An action frame of this implementation that is near and arrives whole   *)
(* is accepted, and afterwards the entry and, if the sender is our parent, *)
(* the clock hold what the sender has announced: what tx.c writes, field by*)
(* field and TLV by TLV, is what rx.c reads at its offsets.  Its service   *)
(* responses, which only other makers read, tell their lengths.            *)
StoredAsAnnounced ==
  ( /\ last # NoFrame /\ last.whole /\ (FilterRssi => last.near)
    /\ last.frame.kind = "action" /\ last.frame.make = "own" ) =>
    LET v == last.frame.version
    IN  /\ result = RxOk
        /\ Shows(entry, AnnouncedV2 \cup AnnouncedElsewhere, v) /\ entry.supports_v2
        /\ \A r \in Responses[last.frame] : TellsItsLengths(r[2])
        /\ last.frame.type = Mif =>
             /\ entry.sent_mif
             /\ Cardinality(Responses[last.frame]) = 6
             /\ entry.name = Field("name", v, NameRoom(last.frame.name))
        /\ follows =>
             Shows(clock, { << "time_to_next_aw", "tx_down_counter", 2 >>,
                            << "aw_counter", "next_aw_seq", 2 >> }, v)

(* An announcement that arrives whole is ignored for its signal just when  *)
(* the filter is on and the signal that the header gives, of the last      *)
(* antenna if it gives several, is below the limit: wherever the words and *)
(* the padding of the header put it (radiotap.c, rx.c:254).                *)
HeardIfNear ==
  (last # NoFrame /\ last.whole /\ last.frame.kind = "action") =>
    (result = RxIgnoreRssi <=> FilterRssi /\ ~last.near)

(* The election never sees a mixture of two announcements, or of the two   *)
(* versions of one, whatever is cut off the frames: the fields that rank a *)
(* peer change together (rx.c:96, rx.c:116).                               *)
ElectionFromOneFrame ==
  entry.known =>
    IF entry.supports_v2
      THEN \E v \in 1 .. MaxVersion : Shows(entry, AnnouncedV2, v)
      ELSE /\ entry.sync_addr = << >> /\ entry.master_counter = << >>
           /\ entry.self_counter = << >>
           /\ \/ entry.height = << >> /\ entry.master_addr = << >>
                 /\ entry.master_metric = << >> /\ entry.self_metric = << >>
              \/ \E v \in 1 .. MaxVersion : Shows(entry, AnnouncedV1, v)

(* The frames that are from the peer, in their order, if it is known.      *)
FromPeer(ms, known) ==
  LET upTo[n \in 0 .. Len(ms)] ==
        IF n = 0 THEN << >>
        ELSE IF ms[n].src = Peer /\ known THEN Append(upTo[n - 1], ms[n])
        ELSE upTo[n - 1]
  IN  upTo[Len(ms)]

(* The host gets the Ethernet frames of a data frame or an A-MSDU in their *)
(* order, those of known peers only, and all of them unless one is no      *)
(* frame of this protocol; then it gets none.  A subframe of an A-MSDU     *)
(* that is cut short is never delivered in part.                           *)
DeliveredAsSent ==
  (last # NoFrame /\ last.frame.kind \in { "data", "qos", "amsdu" }) =>
    LET ms == FromPeer(last.frame.ms, entry.known)
    IN  /\ last.whole =>
             Len(host) = IF \A i \in DOMAIN ms : ms[i].llc THEN Len(ms) ELSE 0
        /\ (last.whole \/ last.frame.kind = "amsdu") =>
             \A i \in DOMAIN host :
               i <= Len(ms) /\ IsPrefix(Ethernet(ms[i]), host[i])
=============================================================================
