------------------------------ MODULE Radiotap ------------------------------
(***************************************************************************)
(* The radiotap header that the radio puts in front of a frame, and its    *)
(* parser (radiotap.c, radiotap_parse of rx.c).  Words of 32 bits name the *)
(* fields that follow, each aligned from the start of the header; bit 31   *)
(* announces another word, bits 29 and 30 change what the next words name. *)
(***************************************************************************)
EXTENDS Frames

CONSTANT VendorLength   \* length of the data of a vendor, see VendorTap

(* With it a header's length still fits into the 16 bits it has.           *)
ASSUME VendorAssumption == VendorLength \in 0 .. 65000

TapFlags == 1   DbmAntsignal == 5   RadiotapNamespace == 29
VendorNamespace == 30   Ext == 31

FlagFcs == 16   FlagBadFcs == 64

(* rtap_namespace_sizes: << align, size >> of the fields from bit 0 on; an *)
(* alignment of 0 stands for a field that is not known.                    *)
NamespaceSizes ==
  << << 8, 8 >>, << 1, 1 >>, << 1, 1 >>, << 2, 4 >>, << 2, 2 >>, << 1, 1 >>,
     << 1, 1 >>, << 2, 2 >>, << 2, 2 >>, << 2, 2 >>, << 1, 1 >>, << 1, 1 >>,
     << 1, 1 >>, << 1, 1 >>, << 2, 2 >>, << 2, 2 >>, << 1, 1 >>, << 1, 1 >>,
     << 0, 0 >>, << 1, 3 >>, << 4, 8 >>, << 2, 12 >>, << 8, 12 >> >>

(* Fault: the fields are taken as packed.                                  *)
AlignedToBytes(arg, align) == arg

Aligned(arg, align) == arg + ((-arg) % align)

(* Bit k of the words, bit 31 of word 0 followed by bit 0 of word 1.       *)
BitValue == << 1, 2, 4, 8, 16, 32, 64, 128 >>
Present(hdr, k) == (ReadU8(hdr, 4 + k \div 8) \div BitValue[1 + (k % 8)]) % 2 = 1

(* The words of a header, none if they extend beyond it (iterator_init).   *)
Words(hdr, length) ==
  { n \in 0 .. length \div 4 :
      /\ 8 + 4 * n <= (IF n = 0 THEN Len(hdr) ELSE length)
      /\ \A w \in 0 .. n - 1 : Present(hdr, 32 * w + Ext)
      /\ ~Present(hdr, 32 * n + Ext) }

SignedChar(n) == IF n >= 128 THEN n - 256 ELSE n

(* The field of the given size at s.arg, behind its padding.               *)
Taken(s, length, align, size) ==
  LET at == Aligned(s.arg, align)
  IN  IF at + size > length THEN [ s EXCEPT !.end = "bad" ]
                            ELSE [ s EXCEPT !.arg = at + size ]

(* The two bits that name a namespace, and the one that announces a word.  *)
(* No vendor's namespace is known: its data, which tells its own length,   *)
(* is taken whole, and next_ns_data is where it ends.                      *)
TakeNamespace(s, length) ==
  [ Taken(s, length, 1, 0) EXCEPT !.reset_on_ext = TRUE, !.known = TRUE ]

TakeVendor(hdr, s, length) ==
  LET head == Taken(s, length, 2, 6)
      next == head.arg + ReadLE16(hdr, head.arg - 2)
  IN  IF head.end # "no" \/ next > length THEN [ s EXCEPT !.end = "bad" ]
      ELSE [ s EXCEPT !.arg = next, !.next_ns_data = next,
                      !.reset_on_ext = TRUE, !.known = FALSE ]

TakeExt(s, length) ==
  [ Taken(s, length, 1, 0) EXCEPT !.again = ~s.reset_on_ext, !.reset_on_ext = FALSE ]

(* Any other bit names a field: skipped if its namespace is not known; the *)
(* end if it has no size, as in a second word that does not start again at *)
(* bit 0.                                                                  *)
TakeField(hdr, s, length, bit) ==
  LET align == NamespaceSizes[bit + 1][1]
      taken == Taken(s, length, align, NamespaceSizes[bit + 1][2])
      value == ReadU8(hdr, taken.arg - 1)
  IN  IF ~s.known THEN [ s EXCEPT !.arg = s.next_ns_data ]
      ELSE IF s.again \/ bit >= Len(NamespaceSizes) THEN [ s EXCEPT !.end = "done" ]
      ELSE IF align = 0 THEN [ s EXCEPT !.arg = s.next_ns_data, !.known = FALSE ]
      ELSE IF taken.end # "no" THEN taken
      ELSE [ taken EXCEPT !.flags = IF bit = TapFlags THEN value ELSE @,
                          !.rssi = IF bit = DbmAntsignal THEN SignedChar(value) ELSE @ ]

(* One turn of the loop in iterator_next, for bit k, and what              *)
(* radiotap_parse does with the field.                                     *)
Visit(hdr, length, s, k) ==
  LET bit == k % 32
  IN  IF s.end # "no" \/ ~Present(hdr, k) THEN s
      ELSE IF bit = RadiotapNamespace THEN TakeNamespace(s, length)
      ELSE IF bit = VendorNamespace THEN TakeVendor(hdr, s, length)
      ELSE IF bit = Ext THEN TakeExt(s, length)
      ELSE TakeField(hdr, s, length, bit)

(* radiotap_parse: held is what the variables of apple_p2p_rx held before. *)
RadiotapParse(buf, held) ==
  LET length == ReadLE16(buf, 2)
      n == CHOOSE n \in Words(buf, length) : TRUE
      start == [ arg |-> 8 + 4 * n, next_ns_data |-> held.next_ns_data, known |-> TRUE,
                 reset_on_ext |-> FALSE, again |-> FALSE, end |-> "no",
                 flags |-> held.flags, rssi |-> held.rssi ]
      after[k \in 0 .. 32 * (n + 1)] ==
        IF k = 0 THEN start ELSE Visit(buf, length, after[k - 1], k - 1)
      end == after[32 * (n + 1)]
      refused == [ ok |-> FALSE, length |-> 0, flags |-> held.flags, rssi |-> held.rssi ]
  IN  IF \/ ~Fits(buf, 0, 8)
         \/ ReadU8(buf, 0) # 0
         \/ ~Fits(buf, 0, length)
         \/ Words(buf, length) = {}
        THEN refused
        ELSE [ ok |-> end.end # "bad", length |-> length, flags |-> end.flags, rssi |-> end.rssi ]
-----------------------------------------------------------------------------
(* Headers as radios make them: the words as sets of bits, then the fields *)
(* << align, bytes >>.                                                     *)
Word(bits) ==
  [ k \in 1 .. 4 |->
      LET value(b) == IF 8 * (k - 1) + b - 1 \in bits THEN BitValue[b] ELSE 0
      IN  Num(value(1) + value(2) + value(3) + value(4)
                + value(5) + value(6) + value(7) + value(8)) ]

TapHeader(words, fields) ==
  LET front(length) ==
        U8(0) \o U8(0) \o LE16(length)
          \o FlattenSeq([ w \in DOMAIN words |-> Word(words[w]) ])
      upTo[n \in 0 .. Len(fields)] ==
        IF n = 0 THEN front(0)
        ELSE upTo[n - 1] \o Padding((-Len(upTo[n - 1])) % fields[n][1]) \o fields[n][2]
      whole == upTo[Len(fields)]
  IN  front(Len(whole)) \o Strip(whole, 4 + 4 * Len(words))

Radio(width) == Field("radio", 0, width)
Signal(dbm) == << 1, U8(dbm % 256) >>

PlainTap(flags, dbm) ==
  TapHeader(<< { 1, 2, 3, 5, 11, 14 } >>,
            << << 1, U8(flags) >>, << 1, Radio(1) >>, << 2, Radio(4) >>, Signal(dbm),
               << 1, Radio(1) >>, << 2, Radio(2) >> >>)

(* ieee80211_init_radiotap_header: what a node puts before its own frames, *)
(* and hears again on the interface that sends them.                       *)
SentTap == PlainTap(0, -30)

(* A time stamp; two words, the second for the signal of one antenna of    *)
(* two, of which the first hears well.                                     *)
AntennasTap(flags, dbm) ==
  TapHeader(<< { 0, 1, 3, 5, 14, 29, 31 }, { 5, 11 } >>,
            << << 8, Radio(8) >>, << 1, U8(flags) >>, << 2, Radio(4) >>, Signal(-40),
               << 2, Radio(2) >>, Signal(dbm), << 1, Radio(1) >> >>)

(* Data of a vendor between the fields.                                    *)
VendorTap(flags, dbm) ==
  TapHeader(<< { 1, 30, 31 }, { 0, 1, 29, 31 }, { 5 } >>,
            << << 1, U8(flags) >>, << 2, Radio(4) \o LE16(VendorLength) \o Radio(VendorLength) >>, Signal(dbm) >>)

(* A field that the parser does not know, behind or within those it knows. *)
LaterTap(flags, dbm, bit) ==
  TapHeader(<< { 1, 5, bit } >>, << << 1, U8(flags) >>, Signal(dbm), << 4, Radio(8) >> >>)

BareTap == TapHeader(<< { 3 } >>, << << 2, Radio(4) >> >>)
=============================================================================
