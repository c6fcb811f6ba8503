----------------------------- MODULE PacketSort -----------------------------
(***************************************************************************)
(* How fpga_udp/src/main.cpp cuts frames out of the DCA1000 packet stream: *)
(* the arithmetic of _read_data_udp and udp_read_thread_get_frames, and    *)
(* postProc_packet_sort.                                                   *)
(*                                                                         *)
(* The radar's sample stream is a sequence of words at positions 0, 1, ... *)
(* Packet seq (1, 2, ...) is Header words, then the stream's words         *)
(* (seq-1)*Payload .. seq*Payload-1; frame f is the words f*Frame ..       *)
(* (f+1)*Frame-1.  Sequence number 0 stands for a record that no packet    *)
(* was received into.                                                      *)
(***************************************************************************)
EXTENDS Integers, FiniteSetsExt

CONSTANTS
  Payload, \* packetSize - 10 (1456)
  Header,  \* the 10 bytes of sequence number and byte count
  Frame,   \* bytesInFrame
  FrameNum,\* frameNum: frames asked for
  Modulus  \* 2^32: the range of a uint32_t

ASSUME PacketAssumption ==
  /\ Payload \in Nat \ {0} /\ Header \in 1..Payload
  /\ Frame \in Nat /\ Frame >= Payload
  /\ FrameNum \in Nat \ {0}
  /\ Modulus \in Nat \ {0}

Hdr   == -1   \* a word of a packet's header
Unset == -2   \* a word nothing was copied to

CeilDiv(a, b) == (a + b - 1) \div b

\* Variant: sequence numbers taken to start at 0.
BytesCntFromZero(seq) == (seq * Payload) % Modulus

\* bytesCnt = (seqNum - 1) * (packetSize - 10): the product of a uint32_t and
\* an int is a uint32_t, whatever the type it is assigned to.
BytesCnt(seq) == ((seq - 1) * Payload) % Modulus

\* lastFrameRemainBytes: the words of packet seq that precede a frame start.
Remain(seq) == (Frame - (BytesCnt(seq) % Frame)) % Frame

\* Variant: only a packet that begins with a frame will do.
StartsFrameAtZero(seq) == Remain(seq) = 0

StartsFrame(seq) == Remain(seq) < Payload

\* expectedPacketNum_g, packetNum: packets that hold FrameNum whole frames.
PacketNum(remain) == CeilDiv(remain + FrameNum * Frame, Payload)

\* maxPacketNum: the records of the receive buffer.
MaxPacketNum == ((FrameNum + 1) * Frame) \div Payload + 1

\* What word w of the record of packet seq holds.
WordOf(seq, w) == IF w < Header THEN Hdr ELSE (seq - 1) * Payload + w - Header

-----------------------------------------------------------------------------
(***************************************************************************)
(* postProc_packet_sort: recs[i] is the packet in record i of the buffer.  *)
(***************************************************************************)
\* idx = seqNum - firstPacketNum, a uint32_t; records out of boundary are skipped.
Index(recs, i) == (recs[i] - recs[0]) % Modulus

\* Variant: no test of the boundary.
KeptAll(recs, remain) == 1 .. PacketNum(remain) - 1

Kept(recs, remain) ==
  {i \in 1 .. PacketNum(remain) - 1 : Index(recs, i) \in 1 .. PacketNum(remain) - 1}

\* Variant: the copies start with the header.
SortedWordWithHeader(recs, remain, j) ==
  LET first  == Payload - remain
      idx    == (j - first) \div Payload + 1
      copies == {i \in Kept(recs, remain) : Index(recs, i) = idx}
  IN  IF j < first THEN WordOf(recs[0], remain + j)
      ELSE IF copies = {} THEN Unset
      ELSE WordOf(recs[Max(copies)], (j - first) % Payload)

\* The first packet is copied from record byte lastFrameRemainBytes on, the
\* others from behind their header; a later copy overwrites an earlier one.
SortedWord(recs, remain, j) ==
  LET first  == Payload - remain
      idx    == (j - first) \div Payload + 1
      copies == {i \in Kept(recs, remain) : Index(recs, i) = idx}
  IN  IF j < first THEN WordOf(recs[0], remain + j)
      ELSE IF copies = {} THEN Unset
      ELSE WordOf(recs[Max(copies)], Header + ((j - first) % Payload))

Sorted(recs, remain) ==
  [j \in 0 .. FrameNum * Frame - 1 |-> SortedWord(recs, remain, j)]

\* The packets whose words are in the sorted frames.
Used(recs, remain) == {recs[0]} \cup {recs[i] : i \in Kept(recs, remain)}

\* receivedPacketNum: one for the first packet, one for each record copied.
Received(recs, remain) == 1 + Cardinality(Kept(recs, remain))

\* Where in the stream the sorted words belong.
StartOf(recs, remain) == (recs[0] - 1) * Payload + remain
=============================================================================
