------------------------------ MODULE Checksum ------------------------------
(***************************************************************************)
(* The Internet checksum of net/net.c as a pure algorithm: net_checksum,   *)
(* and the TCP and ICMPv6 checksums that continue the sum of a pseudo      *)
(* header.  A byte is a number below ByteBase and a word is two bytes.     *)
(* Outside the boot self-test nothing in the kernel calls them.            *)
(***************************************************************************)
EXTENDS Integers, Sequences, SeqFold

CONSTANTS
  ByteBase,          \* values of a byte (256)
  NextTcp, NextIcmp, \* protocol numbers (6 and 58)
  Ipv6Header,        \* NET_IPV6_HEADER_SIZE
  LengthLimit        \* lengths are unsigned, below this (2^32)

WordBase == ByteBase * ByteBase

(* The words of p; an odd last byte is the high byte of a word. *)
Byte(p, i) == IF i \in DOMAIN p THEN p[i] ELSE 0
Words(p) == [k \in 1 .. (Len(p) + 1) \div 2 |-> Byte(p, 2 * k - 1) * ByteBase + Byte(p, 2 * k)]

(* Mutant: the carry is dropped. *)
CarriedNot(s) == s % WordBase
Carried(s) == (s % WordBase) + (s \div WordBase)

(* add_words: the carry goes round after every whole word, and only then. *)
add_words(sum, p) ==
  LET whole == SubSeq(Words(p), 1, Len(p) \div 2)
      end   == FoldLeft(LAMBDA s, w : IF s + w >= WordBase THEN Carried(s + w) ELSE s + w,
                        sum, whole)
  IN  IF Len(p) % 2 = 0 THEN end ELSE end + Words(p)[Len(Words(p))]

(* fold_checksum: the carry goes round until there is none; a sum of       *)
(* add_words is below two words, so that twice is enough.                  *)
fold_checksum(sum) == WordBase - 1 - Carried(Carried(sum))
net_checksum(p) == fold_checksum(add_words(0, p))

PseudoHeader(h, length, next) ==
  h.source \o h.destination \o
    [k \in 1 .. 4 |-> (length \div ByteBase^(4 - k)) % ByteBase] \o <<0, 0, 0, next>>
net_tcp_checksum(h, t) ==
  IF Len(t) >= WordBase THEN 0
  ELSE fold_checksum(add_words(add_words(0, PseudoHeader(h, Len(t), NextTcp)), t))
net_icmpv6_checksum(h, payload) ==
  fold_checksum(add_words(add_words(0, PseudoHeader(h, Len(payload), NextIcmp)), payload))

swap16(x) == (x % ByteBase) * ByteBase + (x \div ByteBase)
(* net_ipv6_validate; h.payload_length is the field as a little-endian     *)
(* load sees it.                                                           *)
net_ipv6_validate(h, length) ==
  /\ length >= Ipv6Header /\ h.version = 6
  /\ swap16(h.payload_length) <= (length - Ipv6Header) % LengthLimit

-----------------------------------------------------------------------------
(* The checksum by its definition: the complement of the one's complement  *)
(* sum, which is the plain sum of the words modulo WordBase - 1.           *)
IsChecksum(c, p) ==
  LET sum == FoldLeft(+, 0, Words(p))
  IN  c \in 0 .. WordBase - 1 /\ (c + sum) % (WordBase - 1) = 0
(* A segment carries its checksum in two bytes at an even offset, which    *)
(* are zero while it is computed.                                          *)
Filled(p, n, c) == [p EXCEPT ![n + 1] = c \div ByteBase, ![n + 2] = c % ByteBase]
(* What is computed in steps, from words and a pseudo header with a last   *)
(* odd byte and carries at any place, is the checksum of the whole; and    *)
(* filled in it sums to zero at the receiver.                              *)
Verifies(h, p) ==
  /\ IsChecksum(net_checksum(p), p)
  /\ IsChecksum(net_tcp_checksum(h, p), PseudoHeader(h, Len(p), NextTcp) \o p)
  /\ IsChecksum(net_icmpv6_checksum(h, p), PseudoHeader(h, Len(p), NextIcmp) \o p)
  /\ \A n \in {k \in 0 .. Len(p) - 2 : k % 2 = 0} :
       LET zero == Filled(p, n, 0)
       IN  /\ net_checksum(Filled(p, n, net_checksum(zero))) = 0
           /\ net_tcp_checksum(h, Filled(p, n, net_tcp_checksum(h, zero))) = 0
           /\ net_icmpv6_checksum(h, Filled(p, n, net_icmpv6_checksum(h, zero))) = 0

(* A packet that is accepted holds its header and the payload that its     *)
(* length field, in network order, announces.                              *)
Fits(h, length) ==
  LET announced == (h.payload_length % ByteBase) * ByteBase + (h.payload_length \div ByteBase)
  IN  net_ipv6_validate(h, length) => Ipv6Header + announced <= length
=============================================================================
