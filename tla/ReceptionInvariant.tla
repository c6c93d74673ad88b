------------------------- MODULE ReceptionInvariant -------------------------
(***************************************************************************)
(* What the proofs about the reception claim: the invariant IInv that its  *)
(* steps keep, what the loops over words, TLVs and subframes keep, and     *)
(* what the deliveries of a frame have to do with it.                      *)
(***************************************************************************)
EXTENDS Reception
-----------------------------------------------------------------------------
(* Bytes, with the names and the numbers of the fields they belong to.     *)

Names ==
  { "", "action", "address", "af_period", "ampdu_params", "ap_alignment",
    "apple_p2p_addr", "arpa_flags", "aw_com_length", "aw_ext_length", "aw_period",
    "bitmask", "bssid", "channel", "country_code", "data_pad", "devclass",
    "distance_to_master", "distancetop", "domain", "duration", "ethertype",
    "ext_flags", "fcs", "flags", "guard_time", "head", "ht_capabilities", "id",
    "infra_addr", "master_addr", "master_channel", "master_counter",
    "master_metric", "max_ext_af", "max_ext_multicast", "max_ext_unicast",
    "memory", "min_ext", "name", "next_aw_channel", "next_aw_seq", "oui", "pad",
    "payload", "phy_tx", "port", "presence_mode", "priority", "radio",
    "remaining_aw_length", "reserved", "rx_mcs", "self_counter", "self_metric",
    "seq", "seq_ctrl", "sequence", "short_name", "social_channels", "suffix",
    "sui", "sync_addr", "target_tx", "top_master_addr", "top_master_metric",
    "tx_down_counter", "txt", "unknown", "unknown2", "version", "weight" }

Byte == Names \X Nat \X Nat
Buffer == Seq(Byte)

(* Bytes of a given number.                                                *)
Block(n) == { x \in Buffer : Len(x) = n }

(* The bytes x stand in buf behind the offset.                             *)
At(buf, offset, x) ==
  /\ offset + Len(x) <= Len(buf)
  /\ \A k \in 1 .. Len(x) : buf[offset + k] = x[k]

(* Behind the offset, buf holds as much of y as fits.                      *)
Begins(buf, at, y) ==
  /\ Len(buf) - at <= Len(y)
  /\ \A k \in 1 .. Len(buf) - at : buf[at + k] = y[k]
-----------------------------------------------------------------------------
(* TLVs.                                                                   *)

Tlvs == Nat \X Buffer

(* The TLV at the offset, and where it ends.                               *)
TlvAt(buf, at) == << ReadU8(buf, at), Read(buf, at + 3, ReadLE16(buf, at + 1)) >>
TlvEnd(buf, at) == at + 3 + ReadLE16(buf, at + 1)

(* What the sender announces for the election.                             *)
ElectionV1(v) ==
  Struct(v, << << "flags", 1 >>, << "id", 2 >>, << "distancetop", 1 >>,
               << "unknown", 1 >>, << "top_master_addr", 6 >>,
               << "top_master_metric", 4 >>, << "self_metric", 4 >>, << "pad", 2 >> >>)

ElectionV2(v) ==
  Struct(v, << << "master_addr", 6 >>, << "sync_addr", 6 >>,
               << "master_counter", 4 >>, << "distance_to_master", 4 >>,
               << "master_metric", 4 >>, << "self_metric", 4 >>,
               << "unknown", 4 >>, << "reserved", 4 >>, << "self_counter", 4 >> >>)

(* TLVs of the version v: of those of the election, only the sender's own. *)
Honest(v) ==
  { tlv \in Tlvs : /\ tlv[1] = ElectionType => tlv[2] = ElectionV1(v)
                   /\ tlv[1] = ElectionV2Type => tlv[2] = ElectionV2(v) }

(* Bytes that bring TLVs of the version v only, wherever they are cut, and *)
(* bytes that can be put before such.                                      *)
Readable(v) ==
  { y \in Buffer : \A buf \in Buffer : \A at \in 0 .. Len(buf) :
      Begins(buf, at, y) =>
        /\ ReadTlvs(buf, at).tlvs \in Seq(Honest(v))
        /\ ReadTlvs(buf, at).left \in Nat }

Chains(v) == { x \in Buffer : \A y \in Readable(v) : x \o y \in Readable(v) }

(* A header of an action frame, and TLVs of the version v.                 *)
Heads ==
  { h \in Block(16) : At(h, 0, Field("action", 0, 6)) /\ ReadU8(h, 6) \in { Psf, Mif } }

HonestBodies(v) == { b \in Buffer : \E h \in Heads, t \in Chains(v) : b = h \o t }
-----------------------------------------------------------------------------
(* The table, the clock and what a frame makes of them.                    *)

(* The entries of the table as rx.c leaves them.                           *)
Optional(n) == { << >> } \cup Block(n)

Entries ==
  { e \in [ DOMAIN NewEntry -> Buffer \cup BOOLEAN ] :
      /\ e["known"] = TRUE /\ e["supports_v2"] \in BOOLEAN
      /\ e["name"] \in Buffer /\ Len(e["name"]) <= NameMax
      /\ e["master_addr"] \in Optional(6) /\ e["sync_addr"] \in Optional(6)
      /\ e["country_code"] \in Optional(3) /\ e["infra_addr"] \in Optional(6) }

Clocks == [ DOMAIN NoClock -> Buffer ]

(* The fields that rank a peer.  They hold what one announcement has in one*)
(* version of it, or those of them that the other version has are empty.   *)
RankFields ==
  { "height", "master_addr", "sync_addr", "master_counter", "master_metric",
    "self_metric", "self_counter", "supports_v2" }

SameRank(e, f) == \A field \in RankFields : e[field] = f[field]

Ranked(e) ==
  IF e.supports_v2
    THEN \E v \in 1 .. MaxVersion : Shows(e, AnnouncedV2, v)
    ELSE /\ e.sync_addr = << >> /\ e.master_counter = << >>
         /\ e.self_counter = << >>
         /\ \/ e.height = << >> /\ e.master_addr = << >>
               /\ e.master_metric = << >> /\ e.self_metric = << >>
            \/ \E v \in 1 .. MaxVersion : Shows(e, AnnouncedV1, v)

Peers == Entries \cup { NoEntry }

Outcomes ==
  [ entry : Peers, clock : Clocks, out : Seq(Block(EtherMaxLen)), result : Results ]

Typed == entry \in Peers /\ clock \in Clocks
RankedIfKnown(e) == e.known => Ranked(e)

(* Data leaves the table and the clock alone.                              *)
Kept == { o \in Outcomes : o.entry = entry }
-----------------------------------------------------------------------------
(* Whole frames.                                                           *)

(* Frames of which, however they end, only TLVs of the version v reach the *)
(* table.                                                                  *)
Harmless(v) ==
  { s \in Buffer : \A frame \in Buffer :
      ( /\ Begins(frame, 0, s \o Fcs) /\ Len(frame) >= 24
        /\ Read(frame, 10, 6) # Address(Self)
        /\ ReadLE16(frame, 0) = ActionFrame
        /\ IsAnnouncement(Strip(frame, 24)) )
      => ReadTlvs(Strip(frame, 24), 16).tlvs \in Seq(Honest(v)) }

(* The header tells a length that the buffer has.                          *)
Measured(buf, told) == told.ok => told.length \in 0 .. Len(buf)

(* The reception keeps to its types, and the table to one announcement of  *)
(* each peer.  What is kept is stronger than either: the entry that ranks  *)
(* a peer has the type of those that the handlers fill in, so that each of *)
(* them leaves the rank of another alone.                                  *)
IInv ==
  /\ version \in 1 .. MaxVersion
  /\ Typed
  /\ follows \in BOOLEAN /\ (follows => entry.known)
  /\ result \in Results
  /\ host \in Seq(Block(EtherMaxLen))
  /\ RankedIfKnown(entry)

(* A buffer of which the parser takes off the header, and which holds the  *)
(* beginning of s behind it.                                               *)
Carries(buf, told, s) ==
  /\ buf \in Buffer /\ Measured(buf, told)
  /\ told.ok => Begins(Strip(buf, told.length), 0, s \o Fcs)
-----------------------------------------------------------------------------
(* Radiotap headers, and the loop that parses them.                        *)

(* The n words and the m fields, with their alignment, that TapHeader gets.*)
HeaderParts(n, words, m, fields) ==
  /\ n \in Nat \ {0} /\ words \in [ 1 .. n -> SUBSET Nat ]
  /\ m \in Nat /\ fields \in [ 1 .. m -> (Nat \ {0}) \X Buffer ]

(* Where the words and the fields of a header stand: place[i] is the end   *)
(* of field i.                                                             *)
Placed(buf, n, words, m, fields, place) ==
  /\ buf \in Buffer /\ Len(buf) = place[m] /\ ReadLE16(buf, 2) = Len(buf)
  /\ ReadU8(buf, 0) = 0 /\ 4 + 4 * n <= Len(buf)
  /\ \A w \in 1 .. n : At(buf, 4 * w, Word(words[w]))
  /\ place \in [ 0 .. m -> Nat ] /\ place[0] = 4 + 4 * n
  /\ \A i \in 1 .. m :
       /\ place[i - 1] <= Aligned(place[i - 1], fields[i][1])
       /\ place[i] = Aligned(place[i - 1], fields[i][1]) + Len(fields[i][2])
       /\ At(buf, Aligned(place[i - 1], fields[i][1]), fields[i][2])

(* What the loop of the parser keeps from turn to turn, one for every bit. *)
TapStates ==
  [ arg : Nat, next_ns_data : Nat, known : BOOLEAN, reset_on_ext : BOOLEAN, again : BOOLEAN,
    end : { "no", "done", "bad" }, flags : Nat, rssi : Int ]

Start(n, held) ==
  [ arg |-> 4 + 4 * n, next_ns_data |-> held.next_ns_data, known |-> TRUE,
    reset_on_ext |-> FALSE, again |-> FALSE, end |-> "no",
    flags |-> held.flags, rssi |-> held.rssi ]

Turns(after, buf, n, held) ==
  /\ after[0] = Start(n, held)
  /\ \A k \in 1 .. 32 * n : after[k] = Visit(buf, Len(buf), after[k - 1], k - 1)

(* The states that the turns go through, up to the end of the loop: before *)
(* bit b of word w.                                                        *)
TapState(arg, next, known, reset, flags, rssi) ==
  [ arg |-> arg, next_ns_data |-> next, known |-> known, reset_on_ext |-> reset,
    again |-> FALSE, end |-> "no", flags |-> flags, rssi |-> rssi ]

Before(after, w, b, s) == after[32 * w + b] = s

(* The next bit that is set, from b on, is bit.                            *)
Due(words, w, b, bit, behind) ==
  /\ b \in 0 .. 31 /\ bit \in b .. 31 /\ behind = bit + 1
  /\ bit \in words[w + 1] /\ \A x \in words[w + 1] : x < b \/ bit <= x

(* The turns over such a header.                                           *)
Parsing(buf, n, words, m, fields, place, held, after) ==
  /\ HeaderParts(n, words, m, fields) /\ Placed(buf, n, words, m, fields, place)
  /\ Turns(after, buf, n, held)

(* The value of a field of one byte.                                       *)
LastOf(x) == x[Len(x)][3]

(* The field i is due, in a name space that the parser knows.              *)
FieldDue(fields, place, i, bit, s, next, reset, flags, rssi) ==
  /\ bit \in 0 .. 22
  /\ NamespaceSizes[bit + 1][1] = fields[i][1]
  /\ NamespaceSizes[bit + 1][2] = Len(fields[i][2]) /\ Len(fields[i][2]) >= 1
  /\ s = TapState(place[i - 1], next, TRUE, reset, flags, rssi)

(* The way through a header, in steps that name only what a layout gives:  *)
(* from before bit b to before bit c of word w.                            *)
Walk(arg, next, flags, rssi) == TapState(arg, next, TRUE, FALSE, flags, rssi)
Renewed(arg, next, flags, rssi) == TapState(arg, next, TRUE, TRUE, flags, rssi)
Foreign(arg, next, flags, rssi) == TapState(arg, next, FALSE, TRUE, flags, rssi)
Lost(arg, next, flags, rssi) == TapState(arg, next, FALSE, FALSE, flags, rssi)
Stopped(arg, next, flags, rssi) == [ Walk(arg, next, flags, rssi) EXCEPT !.end = "done" ]

(* In the steps, bit c - 1 is the next one that is set.  It stands for the *)
(* field i, which has the size of the table, or for none.                  *)
FieldStep(n, words, m, fields, w, b, c, j, i) ==
  /\ w \in 0 .. n - 1 /\ c \in 1 .. 23 /\ Due(words, w, b, c - 1, c)
  /\ i \in 1 .. m /\ j = i - 1
  /\ NamespaceSizes[c][1] = fields[i][1]
  /\ NamespaceSizes[c][2] = Len(fields[i][2]) /\ Len(fields[i][2]) >= 1

OtherStep(n, words, w, b, c) ==
  /\ w \in 0 .. n - 1 /\ c \in 1 .. 32 /\ Due(words, w, b, c - 1, c)

FlagsStep(n, words, m, fields, w, b, c, j, i, flags) ==
  FieldStep(n, words, m, fields, w, b, c, j, i) /\ c = 2 /\ flags = LastOf(fields[i][2])

SignalStep(n, words, m, fields, w, b, c, j, i, rssi) ==
  FieldStep(n, words, m, fields, w, b, c, j, i) /\ c = 6
    /\ rssi = SignedChar(LastOf(fields[i][2]))

PlainStep(n, words, m, fields, w, b, c, j, i) ==
  FieldStep(n, words, m, fields, w, b, c, j, i) /\ c # 2 /\ c # 6

(* A field moves the parser behind it; flags and signals are kept.         *)
FieldMoves(n, words, m, fields, place, after) ==
  /\ \A w, b, c, j, i, seen :
       FlagsStep(n, words, m, fields, w, b, c, j, i, seen) =>
       \A next, flags, rssi :
         Before(after, w, b, Walk(place[j], next, flags, rssi)) =>
         Before(after, w, c, Walk(place[i], next, seen, rssi))
  /\ \A w, b, c, j, i, heard :
       SignalStep(n, words, m, fields, w, b, c, j, i, heard) =>
       \A next, flags, rssi :
         Before(after, w, b, Walk(place[j], next, flags, rssi)) =>
         Before(after, w, c, Walk(place[i], next, flags, heard))
  /\ \A w, b, c, j, i :
       PlainStep(n, words, m, fields, w, b, c, j, i) =>
       \A next, flags, rssi :
         Before(after, w, b, Walk(place[j], next, flags, rssi)) =>
         Before(after, w, c, Walk(place[i], next, flags, rssi))

(* Bit 29 brings the parser back to the fields it knows, bit 31 to the next*)
(* word; a field without a size ends the name space, or the header.        *)
Plausible(length, arg, next, flags, rssi) ==
  arg \in Nat /\ arg <= length /\ next \in Nat /\ flags \in Int /\ rssi \in Int

OtherMoves(length, n, words, after) ==
  /\ \A w, b : OtherStep(n, words, w, b, 30) =>
       (\A arg, next, flags, rssi : Plausible(length, arg, next, flags, rssi) =>
          /\ (Before(after, w, b, Walk(arg, next, flags, rssi)) =>
                Before(after, w, 30, Renewed(arg, next, flags, rssi)))
          /\ (Before(after, w, b, Lost(arg, next, flags, rssi)) =>
                Before(after, w, 30, Renewed(arg, next, flags, rssi))))
  /\ \A w, b : OtherStep(n, words, w, b, 32) =>
       (\A arg, next, flags, rssi : Plausible(length, arg, next, flags, rssi) =>
          /\ (Before(after, w, b, Renewed(arg, next, flags, rssi)) =>
                Before(after, w, 32, Walk(arg, next, flags, rssi)))
          /\ (Before(after, w, b, Foreign(arg, next, flags, rssi)) =>
                Before(after, w, 32, Lost(arg, next, flags, rssi))))
  /\ \A w, b, c : OtherStep(n, words, w, b, c) /\ c <= 29 =>
       (\A arg, next, flags, rssi : Plausible(length, arg, next, flags, rssi) =>
          (Before(after, w, b, Lost(arg, next, flags, rssi)) =>
             Before(after, w, c, Lost(next, next, flags, rssi))))
  /\ \A w, b : OtherStep(n, words, w, b, 19) =>
       (\A arg, next, flags, rssi : Plausible(length, arg, next, flags, rssi) =>
          (Before(after, w, b, Walk(arg, next, flags, rssi)) =>
             Before(after, w, 19, Lost(next, next, flags, rssi))))
  /\ \A w, b : OtherStep(n, words, w, b, 28) =>
       (\A arg, next, flags, rssi : Plausible(length, arg, next, flags, rssi) =>
          (Before(after, w, b, Walk(arg, next, flags, rssi)) =>
             Before(after, w, 28, Stopped(arg, next, flags, rssi))))

(* The data of a vendor: four bytes that tell who it is, two for the       *)
(* length, and as many.                                                    *)
VendorData(width) == Radio(4) \o LE16(width) \o Radio(width)

(* The data of a vendor are skipped, up to the next bit 29.                *)
VendorStep(n, words, m, fields, w, b, j, i, width) ==
  /\ w \in 0 .. n - 1 /\ Due(words, w, b, 30, 31)
  /\ i \in 1 .. m /\ j = i - 1 /\ width \in Nat /\ fields[i] = << 2, VendorData(width) >>

VendorMoves(n, words, m, fields, place, after) ==
  \A w, b, j, i, width :
    VendorStep(n, words, m, fields, w, b, j, i, width) =>
    \A next, flags, rssi :
      Before(after, w, b, Walk(place[j], next, flags, rssi)) =>
      Before(after, w, 31, Foreign(place[i], place[i], flags, rssi))

(* When no bit of a word is left, the next word follows.                   *)
NoneLeft(n, words, w, b) ==
  w \in 0 .. n - 1 /\ b \in 0 .. 32 /\ \A x \in words[w + 1] : x < b

WordMoves(n, words, after) ==
  /\ \A w, b, s :
       NoneLeft(n, words, w, b) /\ Before(after, w, b, s) => Before(after, w, 32, s)
  /\ \A w, v, s : w \in Nat /\ v = w + 1 /\ Before(after, w, 32, s) => Before(after, v, 0, s)

(* What the parser tells at its end, and all of its way.                   *)
ParseOf(buf, s) ==
  [ ok |-> s.end # "bad", length |-> Len(buf), flags |-> s.flags, rssi |-> s.rssi ]

Begun(buf, n, words, m, fields, held, place, after) ==
  /\ Before(after, 0, 0,
            Walk(place[0], held.next_ns_data, held.flags, held.rssi))
  /\ FieldMoves(n, words, m, fields, place, after) /\ WordMoves(n, words, after)
  /\ OtherMoves(Len(buf), n, words, after) /\ VendorMoves(n, words, m, fields, place, after)
  /\ place \in [ 0 .. m -> Nat ] /\ \A i \in 0 .. m : place[i] <= Len(buf)
  /\ \A w, s : w = n - 1 /\ Before(after, w, 32, s) => RadiotapParse(buf, held) = ParseOf(buf, s)
-----------------------------------------------------------------------------
(* Data frames and A-MSDUs.                                                *)

(* The frames that are sent, and those that the buffers of the host hold.  *)
Messages == [ id : Nat, src : Nat, dst : Nat, length : Nat, llc : BOOLEAN ]
Fitting == { m \in Messages : 14 + m.length <= EtherMaxLen }

(* Those that the host is to get, of the first, the first two, and so on.  *)
Wanted(m, known) == m.src = Peer /\ known

Selects(upTo, ms, known) ==
  /\ upTo \in [ 0 .. Len(ms) -> Seq(Messages) ]
  /\ upTo[0] = << >>
  /\ \A n \in 1 .. Len(ms) :
       upTo[n] = IF Wanted(ms[n], known) THEN Append(upTo[n - 1], ms[n]) ELSE upTo[n - 1]

(* The loop over the subframes of an A-MSDU.                               *)
SubframeEnd(frame, at) == at + 14 + ReadBE16(frame, at + 12)

SubframeNext(frame, at) ==
  IF SubframeEnd(frame, at) = Len(frame) THEN SubframeEnd(frame, at)
  ELSE SubframeEnd(frame, at) + SubframePadding(ReadBE16(frame, at + 12))

SubframeData(frame, at) ==
  RxData(Read(frame, at + 14, ReadBE16(frame, at + 12)),
         Read(frame, at + 6, 6), Read(frame, at, 6))

(* A subframe is read, and there may be another behind it.                 *)
SubframeRead(frame, at) ==
  /\ at # Len(frame) /\ Fits(frame, at, 14) /\ SubframeEnd(frame, at) <= Len(frame)
  /\ ~(SubframeData(frame, at).result < 0) /\ SubframeNext(frame, at) <= Len(frame)

SubframeLast(frame, at) ==
  IF at = Len(frame) THEN Outcome(RxOk)
  ELSE IF ~Fits(frame, at, 14) THEN Outcome(RxTooShort)
  ELSE IF SubframeEnd(frame, at) > Len(frame) THEN Outcome(RxTooShort)
  ELSE IF SubframeData(frame, at).result < 0 THEN SubframeData(frame, at)
  ELSE Outcome(RxTooShort)

(* What RxAmsdu gets from every place on.                                  *)
Joined(frame, at, rest) == [ rest EXCEPT !.out = SubframeData(frame, at).out \o @ ]

Reads(from, frame) ==
  \A at \in 0 .. Len(frame) :
    from[at] = IF SubframeRead(frame, at) THEN Joined(frame, at, from[SubframeNext(frame, at)])
                                          ELSE SubframeLast(frame, at)

(* Where the subframes of an A-MSDU stand, with the gaps behind them.      *)
Gap(ms, i) == IF i = Len(ms) THEN 0 ELSE (-(30 + ms[i].length)) % 4

Laid(place, ms) ==
  /\ place \in [ 0 .. Len(ms) -> Nat ]
  /\ place[0] = 0 /\ place[Len(ms)] = Len(Aggregate(ms))
  /\ \A i \in 1 .. Len(ms) :
       /\ At(Aggregate(ms), place[i - 1], Subframe(ms[i]))
       /\ place[i] = place[i - 1] + 30 + ms[i].length + Gap(ms, i)

(* An A-MSDU of the subframes ms, or the beginning of one.                 *)
AmsduOf(frame, ms, from, upTo, place) ==
  /\ Typed /\ frame \in Buffer /\ ms \in Seq(Fitting)
  /\ Begins(frame, 0, Aggregate(ms) \o Fcs)
  /\ Reads(from, frame) /\ Selects(upTo, ms, entry.known) /\ Laid(place, ms)

(* The deliveries out are those of all that follow the ones that are done. *)
Follow(out, done, all) ==
  \A i \in 1 .. Len(out) :
    Len(done) + i <= Len(all) /\ IsPrefix(Ethernet(all[Len(done) + i]), out[i])

(* What a whole A-MSDU brings: everything that is for the host, or nothing *)
(* if some of it is no frame of this protocol.                             *)
Complete(r, done, all) ==
  IF \A i \in Len(done) + 1 .. Len(all) : all[i].llc
    THEN r.result = RxOk /\ Len(r.out) + Len(done) = Len(all)
    ELSE r.result # RxOk

(* What comes to the host is of the frames that it is to get, in their     *)
(* order; and it is all of them, or nothing if one is no such frame.       *)
Hosted(o) == IF o.result = RxOk THEN o.out ELSE << >>

InOrder(out, all) ==
  \A i \in 1 .. Len(out) : i <= Len(all) /\ IsPrefix(Ethernet(all[i]), out[i])

AllOrNone(out, all) == Len(out) = IF \A i \in 1 .. Len(all) : all[i].llc THEN Len(all) ELSE 0

(* What a whole data frame brings.                                         *)
Delivers(o, all) == o \in Kept /\ InOrder(Hosted(o), all) /\ AllOrNone(Hosted(o), all)

(* What the beginning of an A-MSDU brings: the subframes in front of it,   *)
(* if anything.                                                            *)
Follows(o, all) == o \in Kept /\ InOrder(Hosted(o), all)
=============================================================================
