------------------------------- MODULE Checksum -------------------------------
(***************************************************************************)
(* The checksums of protocol/ip4.h and protocol/tcp.h, over packets known  *)
(* by the fields that tell them apart:                                     *)
(*   protocol          "TCP" or "UDP"                                      *)
(*   source, dest      addresses, each of two 16-bit words                 *)
(*   port, destPort    the ports of the TCP or UDP header                  *)
(*   payload.content   what follows the ports, a sequence of bytes         *)
(*   payload.beyond    the byte of the buffer behind the segment           *)
(* The other fields of the headers never change and are left out.  The     *)
(* sums are far below 2^32.                                                *)
(***************************************************************************)
EXTENDS Integers, Sequences

Byte == 0 .. 255
Word == 0 .. 65535

\* The words one after the other, as the loops add them up.
Sum(words) ==
  LET upTo[i \in 0 .. Len(words)] == IF i = 0 THEN 0 ELSE upTo[i - 1] + words[i]
  IN upTo[Len(words)]

\* while (sum >> 16) sum = (sum & 0xffff) + (sum >> 16)
Folded[sum \in Nat] ==
  IF sum < 65536 THEN sum ELSE Folded[(sum % 65536) + (sum \div 65536)]

\* ~sum, as a uint16_t.
Complement(words) == 65535 - Folded[Sum(words)]

Number(protocol) == IF protocol = "TCP" THEN 6 ELSE 17

\* Length of a segment; the ports are four bytes.
Size(packet) == 4 + Len(packet.payload.content)

\* The bytes two by two; the last of an odd number is joined with the byte behind.
Pairs(bytes, behind) ==
  [i \in 1 .. (Len(bytes) + 1) \div 2 |->
     256 * bytes[2 * i - 1] + (IF 2 * i <= Len(bytes) THEN bytes[2 * i] ELSE behind)]

\* The words of an IP header, its checksum excepted.
Ip4Words(packet) ==
  <<20 + Size(packet), Number(packet.protocol)>> \o packet.source \o packet.dest

Ip4Checksum(packet) == Complement(Ip4Words(packet))

\* The words of a TCP segment and its pseudo header, its checksum excepted.
TcpWords(packet, behind) ==
  packet.source \o packet.dest
    \o <<Number(packet.protocol), Size(packet), packet.port, packet.destPort>>
    \o Pairs(packet.payload.content, behind)

TcpChecksum(packet) == Complement(TcpWords(packet, packet.payload.beyond))

\* What a receiver computes (RFC 1071): with the checksum the words sum up to 0xffff; an
\* odd segment is padded with zero.
Verifies(words, checksum) == Folded[Sum(words) + checksum] = 65535

=============================================================================
