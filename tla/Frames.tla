------------------------------- MODULE Frames -------------------------------
(***************************************************************************)
(* The frames on the air, byte by byte where the layout matters: what tx.c *)
(* writes into a frame, and how the buffers of wire.c are read.            *)
(*                                                                         *)
(* A byte is a triple << field, sender's version, number >>: byte number k *)
(* of a field as the sender had it in that version of its state.  Bytes    *)
(* whose value the receiver computes with are numbers.                     *)
(***************************************************************************)
EXTENDS Integers, SequencesExt

CONSTANT ChanSeqLength   \* APPLE_P2P_CHANSEQ_LENGTH

Field(f, v, width) == [ k \in 1 .. width |-> << f, v, k >> ]
Num(n) == << "", 0, n >>
U8(n) == << Num(n) >>
LE16(n) == << Num(n % 256), Num(n \div 256) >>
LE32(n) == LE16(n % 65536) \o LE16(n \div 65536)
BE16(n) == << Num(n \div 256), Num(n % 256) >>

(* wire.c: a read beyond the end fails. *)
Fits(buf, offset, width) == offset + width <= Len(buf)
Read(buf, offset, width) == SubSeq(buf, offset + 1, offset + width)
ReadU8(buf, offset) == buf[offset + 1][3]
ReadLE16(buf, offset) == ReadU8(buf, offset) + 256 * ReadU8(buf, offset + 1)
ReadBE16(buf, offset) == 256 * ReadU8(buf, offset) + ReadU8(buf, offset + 1)
Strip(buf, n) == SubSeq(buf, n + 1, Len(buf))
Take(buf, n) == SubSeq(buf, 1, Len(buf) - n)

(* Consecutive fields of a packed struct: << name, width >>. *)
Struct(v, fields) ==
  FlattenSeq([ i \in DOMAIN fields |-> Field(fields[i][1], v, fields[i][2]) ])

Padding(n) == [ k \in 1 .. n |-> Num(0) ]

(* read_tlv: a whole TLV begins at the offset.                             *)
HasTlv(buf, at) == Fits(buf, at, 3) /\ Fits(buf, at + 3, ReadLE16(buf, at + 1))

(* The TLVs that read_tlv finds from the offset on, and the bytes left     *)
(* over behind the last.                                                   *)
ReadTlvs(buf, start) ==
  LET from[at \in 0 .. Len(buf)] ==
        IF HasTlv(buf, at)
          THEN LET length == ReadLE16(buf, at + 1)
                   behind == from[at + 3 + length]
               IN  [ behind EXCEPT !.tlvs =
                       << << ReadU8(buf, at), Read(buf, at + 3, length) >> >> \o @ ]
          ELSE [ tlvs |-> << >>, left |-> Len(buf) - at ]
  IN  from[start]

Tlv(type, body) == U8(type) \o LE16(Len(body)) \o body
-----------------------------------------------------------------------------
(* The TLVs of an action frame (tx.c), from a sender whose state has the   *)
(* version v.                                                              *)
SyncType == 4          ElectionType == 5    ServiceParamsType == 6
HtType == 7            DataPathType == 12   ArpaType == 16
ChanSeqType == 18      VersionType == 21    ElectionV2Type == 24
ServiceResponseType == 2

(* 16 entries of two bytes: the encoding with operating classes. *)
Opclass == 3
ChanSeqOf(v, step_count) ==
  U8(ChanSeqLength - 1) \o U8(Opclass) \o U8(0) \o U8(step_count) \o LE16(65535)
    \o Field("sequence", v, 2 * ChanSeqLength)
ChanSeq(v) == ChanSeqOf(v, 3)

SyncParamsTlv(v) ==
  Tlv(SyncType,
      Struct(v, << << "next_aw_channel", 1 >>, << "tx_down_counter", 2 >>,
                   << "master_channel", 1 >>, << "guard_time", 1 >>,
                   << "aw_period", 2 >>, << "af_period", 2 >>, << "flags", 2 >>,
                   << "aw_ext_length", 2 >>, << "aw_com_length", 2 >>,
                   << "remaining_aw_length", 2 >>, << "min_ext", 1 >>,
                   << "max_ext_multicast", 1 >>, << "max_ext_unicast", 1 >>,
                   << "max_ext_af", 1 >>, << "master_addr", 6 >>,
                   << "presence_mode", 1 >>, << "reserved", 1 >>,
                   << "next_aw_seq", 2 >>, << "ap_alignment", 2 >> >>)
        \o ChanSeq(v) \o Padding(2))

ElectionParamsTlv(v) ==
  Tlv(ElectionType,
      Struct(v, << << "flags", 1 >>, << "id", 2 >>, << "distancetop", 1 >>,
                   << "unknown", 1 >>, << "top_master_addr", 6 >>,
                   << "top_master_metric", 4 >>, << "self_metric", 4 >>, << "pad", 2 >> >>))

ChanSeqTlv(v) == Tlv(ChanSeqType, ChanSeq(v) \o Padding(3))

ElectionParamsV2Tlv(v) ==
  Tlv(ElectionV2Type,
      Struct(v, << << "master_addr", 6 >>, << "sync_addr", 6 >>,
                   << "master_counter", 4 >>, << "distance_to_master", 4 >>,
                   << "master_metric", 4 >>, << "self_metric", 4 >>,
                   << "unknown", 4 >>, << "reserved", 4 >>, << "self_counter", 4 >> >>))

ServiceParamsTlv(v) ==
  Tlv(ServiceParamsType, Struct(v, << << "unknown", 3 >>, << "sui", 2 >>, << "bitmask", 4 >> >>))

HtCapabilitiesTlv(v) ==
  Tlv(HtType, Struct(v, << << "unknown", 2 >>, << "ht_capabilities", 2 >>,
                           << "ampdu_params", 1 >>, << "rx_mcs", 1 >>, << "unknown2", 2 >> >>))

(* The name of the host, of the given length, and a suffix.                *)
ArpaBody(v, name) ==
  Field("arpa_flags", v, 1) \o U8(name) \o Field("name", v, name) \o Field("suffix", v, 2)

ArpaTlv(v, name) == Tlv(ArpaType, ArpaBody(v, name))

(* flags 0x8f64: country code, social channels and address follow.         *)
DataPathStateTlv(v) ==
  Tlv(DataPathType,
      LE16(36708)
        \o Struct(v, << << "country_code", 3 >>, << "social_channels", 2 >>,
                        << "apple_p2p_addr", 6 >>, << "ext_flags", 2 >> >>))

VersionTlv(v) == Tlv(VersionType, Struct(v, << << "version", 1 >>, << "devclass", 1 >> >>))

(* The service responses (response.c): the pointer, the service and the    *)
(* text record of each of two services.  The name of the service is that   *)
(* of the host; for the second service the address and an at sign precede. *)
PtrRecord == 12   SrvRecord == 33   TxtRecord == 16
DomainLength(name, has_mac) == IF has_mac THEN 13 + name ELSE name

(* A string behind its length, and the number of a suffix.                 *)
DnsName(v, length) == U8(length) \o Field("domain", v, length) \o Field("short_name", v, 2)

PtrData(v, name, has_mac) ==
  LET domain == DomainLength(name, has_mac)
  IN  LE16(2 + 1) \o Field("short_name", v, 2) \o U8(PtrRecord)
        \o LE32(domain + 3) \o DnsName(v, domain)

SrvData(v, name, has_mac) ==
  LET domain == DomainLength(name, has_mac)
  IN  LE16(domain + 3 + 1) \o DnsName(v, domain) \o U8(SrvRecord)
        \o LE32(6 + name + 3)
        \o Struct(v, << << "priority", 2 >>, << "weight", 2 >>, << "port", 2 >> >>)
        \o DnsName(v, name)

(* txt: the lengths of the fixed strings.                                  *)
TxtData(v, name, has_mac, txt) ==
  LET domain == DomainLength(name, has_mac)
      upTo[i \in 0 .. Len(txt)] == IF i = 0 THEN 0 ELSE upTo[i - 1] + txt[i] + 1
  IN  LE16(domain + 3 + 1) \o DnsName(v, domain) \o U8(TxtRecord)
        \o LE32(upTo[Len(txt)])
        \o FlattenSeq([ i \in DOMAIN txt |-> U8(txt[i]) \o Field("txt", v, txt[i]) ])

(* Of eight and eighteen strings, some.                                    *)
AirplayTxt == << 14, 4 >>
RaopTxt == << 9, 4, 66 >>

ServiceResponseTlv(response) == Tlv(ServiceResponseType, response)

ServiceResponses(v, name) ==
  ServiceResponseTlv(PtrData(v, name, FALSE)) \o ServiceResponseTlv(PtrData(v, name, TRUE))
    \o ServiceResponseTlv(SrvData(v, name, FALSE)) \o ServiceResponseTlv(SrvData(v, name, TRUE))
    \o ServiceResponseTlv(TxtData(v, name, FALSE, AirplayTxt))
    \o ServiceResponseTlv(TxtData(v, name, TRUE, RaopTxt))

Psf == 0
Mif == 3

ActionHeader(v, type) ==
  Field("action", 0, 6) \o U8(type) \o Field("reserved", v, 1) \o Field("phy_tx", v, 4)
    \o Field("target_tx", v, 4)

(* What follows the 802.11 header in apple_p2p_init_full_action_frame.     *)
ActionBody(v, type, name) ==
  ActionHeader(v, type)
    \o SyncParamsTlv(v) \o ElectionParamsTlv(v) \o ChanSeqTlv(v)
    \o ElectionParamsV2Tlv(v) \o ServiceParamsTlv(v)
    \o (IF type = Mif THEN HtCapabilitiesTlv(v) \o ArpaTlv(v, name) ELSE << >>)
    \o DataPathStateTlv(v) \o VersionTlv(v)
    \o (IF type = Mif THEN ServiceResponses(v, name) ELSE << >>)

(* Devices of other makers: one that announces the first version of the    *)
(* election only, and the access point it uses; one whose channel sequence *)
(* has another step, with the same election.                               *)
BodyOfOthers(v, make, name) ==
  ActionHeader(v, Mif)
    \o ElectionParamsTlv(v) \o ArpaTlv(v, name)
    \o (IF make = "steps" THEN Tlv(ChanSeqType, ChanSeqOf(v, 0)) \o ElectionParamsV2Tlv(v)
        ELSE Tlv(DataPathType, LE16(259) \o Struct(v, << << "country_code", 3 >>,
                   << "bssid", 6 >>, << "channel", 2 >>, << "infra_addr", 6 >> >>)))
    \o VersionTlv(v)
-----------------------------------------------------------------------------
(* The 802.11 frame types, as in frame_control.                            *)
ActionFrame == 208
DataFrame == 8
QosDataFrame == 136

Address(n) == Field("address", n, 6)

Header(type, src, dst) ==
  LE16(type) \o Field("duration", 0, 2) \o Address(dst) \o Address(src)
    \o Field("bssid", 0, 6) \o Field("seq_ctrl", 0, 2)

(* Only the flag that says whether an A-MSDU follows matters.              *)
QosControl(aggregate) == LE16(IF aggregate THEN 128 ELSE 0)
Fcs == Field("fcs", 0, 4)

(* An LLC header, valid or with another source access point.               *)
Llc(valid) ==
  U8(170) \o U8(IF valid THEN 170 ELSE 66) \o U8(3) \o Field("oui", 0, 3) \o BE16(2048)

DataHeader == Field("head", 0, 2) \o Field("seq", 0, 2) \o Field("data_pad", 0, 2)

(* The Ethernet frame m: ethertype and m.length bytes of payload.          *)
Payload(m) == Field("ethertype", m.id, 2) \o Field("payload", m.id, m.length)
Ethernet(m) == Address(m.dst) \o Address(m.src) \o Payload(m)
DataBody(m) == Llc(m.llc) \o DataHeader \o Payload(m)

(* An A-MSDU, which only other devices send: every subframe but the last   *)
(* is padded to a multiple of four bytes.                                  *)
Subframe(m) ==
  Address(m.dst) \o Address(m.src) \o BE16(Len(DataBody(m))) \o DataBody(m)

Aggregate(ms) ==
  FlattenSeq([ i \in DOMAIN ms |->
    Subframe(ms[i])
      \o IF i = Len(ms) THEN << >> ELSE Padding((-Len(Subframe(ms[i]))) % 4) ])
=============================================================================
