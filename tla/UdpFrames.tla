------------------------------ MODULE UdpFrames ------------------------------
(***************************************************************************)
(* The UDP capture path of fpga_udp/src/main.cpp: the DCA1000 streams      *)
(* packets over a network that may lose or reorder them, _udp_read_thread  *)
(* puts what arrives into the packet queue, and udp_read_thread_get_frames *)
(* takes packets out, finds a frame start, reads FrameNum frames' worth of *)
(* packets and sorts them.                                                 *)
(*                                                                         *)
(* Put and Get_wait are atomic here; UnlockQueue opens them up.  A packet  *)
(* is its sequence number.                                                 *)
(***************************************************************************)
EXTENDS PacketSort, Sequences

CONSTANTS
  FrameNumInBuf, \* frames the queue has to hold
  MaxSeq,        \* bound: packets the radar sends
  MaxInFlight    \* bound: packets on their way at once

ASSUME StreamAssumption ==
  FrameNumInBuf \in Nat /\ MaxSeq \in Nat /\ MaxInFlight \in Nat \ {0}

VARIABLES
  sent,     \* packets the DCA1000 has sent
  net,      \* those on their way
  queue,    \* *udp_queue_g
  rpc,      \* udp_read_thread_get_frames: "idle", "find" or "rest"
  buf,      \* its receive buffer; when idle, what it returned (or sorted from)
  remain,   \* lastFrameRemainBytes
  expected, \* expectedPacketNum_g
  outcome,  \* how the last call ended: "none", "timeout" or "frame"
  previous, \* history: where the frame before the last one began
  newest,   \* history: the latest packet sorted into the frames before
  whole,    \* history: no packet was lost, overtaken or dropped, and no wait
            \*   timed out
  last      \* history: the latest packet that arrived, as long as they arrive
            \*   in order; Disorder from then on

vars == <<sent, net, queue, rpc, buf, remain, expected, outcome, previous, newest,
          whole, last>>

Disorder == -1

\* UnlockQueue(maxPacketNum): the next power of two.
QueueSize ==
  LET need == ((FrameNumInBuf + 1) * Frame) \div Payload + 1
  IN  Min({s \in {2 ^ k : k \in 0..need} : s >= need})

\* A consequence of its definition, which rests on powers of 2.
ASSUME QueueAssumption == QueueSize \in Nat \ {0}

Empty == [i \in 0 .. MaxPacketNum - 1 |-> 0]

Init ==
  /\ sent = 0 /\ net = {} /\ queue = << >>
  /\ rpc = "idle" /\ buf = Empty /\ remain = 0 /\ expected = 0
  /\ outcome = "none" /\ previous = -1 /\ newest = 0 /\ whole = TRUE
  /\ last = 0

-----------------------------------------------------------------------------
reader == <<rpc, buf, remain, expected, outcome, previous, newest>>

Send ==
  /\ sent < MaxSeq /\ Cardinality(net) < MaxInFlight
  /\ sent' = sent + 1
  /\ net' = net \cup {sent + 1}
  /\ UNCHANGED <<queue, reader, whole, last>>

Lose(seq) ==
  /\ net' = net \ {seq}
  /\ whole' = FALSE
  /\ UNCHANGED <<sent, queue, reader, last>>

\* Variant: no packet makes room for the next.
ReceivePacketNoOverride(seq) ==
  /\ net' = net \ {seq}
  /\ queue' = Append(queue, seq)
  /\ last' = IF last \in 0..seq THEN seq ELSE Disorder
  /\ UNCHANGED <<sent, reader, whole>>

\* One turn of _udp_read_thread: recvfrom, then Put, which makes room by
\* dropping the oldest packet.
ReceivePacket(seq) ==
  LET full == Len(queue) = QueueSize
  IN  /\ net' = net \ {seq}
      /\ queue' = Append(IF full THEN Tail(queue) ELSE queue, seq)
      /\ whole' = (whole /\ ~full /\ seq = last + 1)
      /\ last' = IF last \in 0..seq THEN seq ELSE Disorder
      /\ UNCHANGED <<sent, reader>>

\* udp_read_thread_get_frames is called.  The buffer it allocates is not
\* cleared: new pages, or the memory of the buffer the last call returned.
GetFrames ==
  /\ rpc = "idle"
  /\ rpc' = "find"
  /\ \/ buf' = Empty
     \/ UNCHANGED buf
  /\ previous' = IF outcome = "frame" THEN StartOf(buf, remain) ELSE previous
  /\ newest' = IF outcome = "frame" THEN Max(Used(buf, remain) \cup {newest})
               ELSE newest
  /\ outcome' = "none" /\ remain' = 0
  /\ UNCHANGED <<sent, net, queue, expected, whole, last>>

\* Wait for start of next frame: Get_wait of one packet, until one has a start.
FindStart ==
  /\ rpc = "find"
  /\ queue # << >>
  /\ LET seq == Head(queue)
     IN  /\ buf' = [buf EXCEPT ![0] = seq]
         /\ remain' = Remain(seq)
         /\ IF StartsFrame(seq)
            THEN expected' = PacketNum(Remain(seq)) /\ rpc' = "rest"
            ELSE UNCHANGED <<expected, rpc>>
  /\ queue' = Tail(queue)
  /\ UNCHANGED <<sent, net, outcome, previous, newest, whole, last>>

\* The wait timed out: the unsorted buffer is returned.
FindTimeout ==
  /\ rpc = "find"
  /\ queue = << >>
  /\ rpc' = "idle" /\ outcome' = "timeout" /\ remain' = -1
  /\ whole' = FALSE
  /\ UNCHANGED <<sent, net, queue, buf, expected, previous, newest, last>>

\* Variant: what is read is not taken out of the queue.
ReadRestPeek(n) ==
  /\ rpc = "rest"
  /\ n = Min({Len(queue), expected - 1})
  /\ buf' = [i \in DOMAIN buf |-> IF i \in 1..n THEN queue[i] ELSE buf[i]]
  /\ rpc' = "idle" /\ outcome' = "frame"
  /\ whole' = (whole /\ n = expected - 1)
  /\ UNCHANGED <<sent, net, queue, remain, expected, previous, newest, last>>

\* Read in the rest of the frames, all of it or what has come when the wait
\* times out, and sort.
ReadRest(n) ==
  /\ rpc = "rest"
  /\ n = Min({Len(queue), expected - 1})
  /\ buf' = [i \in DOMAIN buf |-> IF i \in 1..n THEN queue[i] ELSE buf[i]]
  /\ queue' = SubSeq(queue, n + 1, Len(queue))
  /\ rpc' = "idle" /\ outcome' = "frame"
  /\ whole' = (whole /\ n = expected - 1)
  /\ UNCHANGED <<sent, net, remain, expected, previous, newest, last>>

Next ==
  \/ Send
  \/ \E seq \in net : Lose(seq) \/ ReceivePacket(seq)
  \/ GetFrames \/ FindStart \/ FindTimeout
  \/ \E n \in 0 .. MaxPacketNum : ReadRest(n)

Spec == Init /\ [][Next]_vars

-----------------------------------------------------------------------------
TypeOK ==
  /\ sent \in 0..MaxSeq /\ net \subseteq 1..MaxSeq
  /\ queue \in Seq(1..MaxSeq) /\ Len(queue) <= QueueSize
  /\ rpc \in {"idle", "find", "rest"}
  /\ buf \in [0 .. MaxPacketNum - 1 -> 0..MaxSeq]
  /\ remain \in -1 .. Frame - 1
  /\ expected \in 0..MaxPacketNum
  /\ outcome \in {"none", "timeout", "frame"}
  /\ previous \in Int /\ newest \in 0..MaxSeq /\ whole \in BOOLEAN
  /\ last \in Disorder..MaxSeq

Result == Sorted(buf, remain)
Start  == StartOf(buf, remain)

\* From the packet with a frame start until the result is returned, the first
\* record holds that packet, and the counts are those taken from it.
FrameInv ==
  /\ outcome = "frame" => rpc = "idle"
  /\ rpc = "rest" \/ outcome = "frame" =>
       /\ buf[0] \in 1..MaxSeq /\ StartsFrame(buf[0])
       /\ remain = Remain(buf[0]) /\ expected = PacketNum(remain)

\* A packet is on its way, in the queue or in a record, in one place only.
DistinctInv ==
  /\ \A seq \in net : seq <= sent
  /\ \A i \in 1..Len(queue) :
       /\ queue[i] <= sent /\ queue[i] \notin net
       /\ \A k \in 1..Len(queue) : i # k => queue[i] # queue[k]
  /\ \A i \in 0 .. MaxPacketNum - 1 :
       /\ buf[i] <= sent /\ buf[i] \notin net
       /\ \A k \in 1..Len(queue) : buf[i] # queue[k]
       /\ \A k \in 0 .. MaxPacketNum - 1 : i # k /\ buf[i] # 0 => buf[i] # buf[k]

\* While packets arrive in order, they are taken in order.
OrderInv ==
  last # Disorder =>
    /\ newest <= last /\ last <= sent /\ last \notin net
    /\ \A i \in 1..Len(queue) :
         /\ newest < queue[i] /\ queue[i] <= last
         /\ \A k \in 1..Len(queue) : i < k => queue[i] < queue[k]
    /\ \A i \in 0 .. MaxPacketNum - 1 :
         buf[i] <= last /\ \A k \in 1..Len(queue) : buf[i] < queue[k]
    /\ rpc = "rest" \/ outcome = "frame" => newest < buf[0]

IInv == TypeOK /\ FrameInv /\ DistinctInv /\ OrderInv

\* While whole: the packet that is taken next.
Front == last - Len(queue) + 1

\* The last frame boundary at which a result may start.
Latest == previous + (FrameNum + 1) * Frame

\* While nothing is lost, overtaken or dropped, the packets are taken one after the
\* other, and none that has the latest boundary is passed.
SkipInv ==
  whole =>
    /\ last # Disorder
    /\ \A i \in 1..Len(queue) : queue[i] = last - Len(queue) + i
    /\ rpc = "rest" => Front = buf[0] + 1
    /\ outcome = "frame" => Front = buf[0] + expected
    /\ rpc = "idle" => outcome = "frame" \/ previous < 0
    /\ previous >= 0 =>
         /\ previous % Frame = 0
         /\ rpc = "find" => (Front - 1) * Payload <= Latest
         /\ rpc = "rest" \/ outcome = "frame" => Start <= Latest

\* Within a run of the counters that does not wrap.
NoWrap == MaxSeq * Payload < Modulus /\ MaxSeq + MaxPacketNum < Modulus

(***************************************************************************)
(* The frames returned begin at a frame boundary of the stream ("Wait for  *)
(* start of next frame", main.cpp:140, 308).                               *)
(***************************************************************************)
Aligned == outcome = "frame" => Start % Frame = 0

(***************************************************************************)
(* Behind the first packet's share, every word of a returned frame is the  *)
(* stream's word of that position, or was never received: no loss,         *)
(* reordering, short read or stale buffer puts a wrong sample there.       *)
(***************************************************************************)
TailExact ==
  outcome = "frame" =>
    \A j \in Payload - remain .. FrameNum * Frame - 1 :
      Result[j] \in {Start + j, Unset}

(***************************************************************************)
(* realtime_rawdata_flow.md:26 says sorting strips the UDP header and      *)
(* copies the payload into a contiguous frame buffer.  The first packet's  *)
(* share is copied without skipping the header.                            *)
(***************************************************************************)
HeaderStripped ==
  outcome = "frame" =>
    \A j \in 0 .. FrameNum * Frame - 1 : Result[j] \in {Start + j, Unset}

(***************************************************************************)
(* A caller that compares receivedPacketNum with expectedPacketNum (as     *)
(* adc.py does to print the loss) is not misled: equal means no hole.      *)
(***************************************************************************)
CountTellsHoles ==
  outcome = "frame" /\ Received(buf, remain) = expected =>
    \A j \in Payload - remain .. FrameNum * Frame - 1 : Result[j] # Unset

(***************************************************************************)
(* While packets arrive in order, none is sorted into two results, so no   *)
(* sample is returned twice, even though a buffer may still hold an        *)
(* earlier call's packets when a wait times out.                           *)
(***************************************************************************)
NoPacketTwice ==
  outcome = "frame" /\ last # Disorder =>
    \A seq \in Used(buf, remain) : seq > newest

(***************************************************************************)
(* While nothing is lost or overtaken, at most one frame goes missing      *)
(* between two successive results: the one whose start was in the last     *)
(* packet read.                                                            *)
(***************************************************************************)
AtMostOneSkipped ==
  outcome = "frame" /\ previous >= 0 /\ whole =>
    Start <= previous + (FrameNum + 1) * Frame
=============================================================================
