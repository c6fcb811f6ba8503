--------------------------- MODULE UdpFramesProofs ----------------------------
(***************************************************************************)
(* The safety of the UDP capture path for every size of packet, frame,     *)
(* buffer and queue, any number of packets and any pattern of loss,        *)
(* overtaking and timeouts.  IInv is inductive; the properties of the      *)
(* frames follow from it and from the lemmas on the sort, as long as the   *)
(* counters do not wrap (NoWrap).                                          *)
(***************************************************************************)
EXTENDS UdpFrames, ModuloLemmas, WellFoundedInduction, SequenceTheorems, FiniteSetTheorems

(***************************************************************************)
(* What the arithmetic and the sort of PacketSort compute, for every size  *)
(* of packet, frame, buffer and counter.                                   *)
(***************************************************************************)
\* A nonempty set of naturals has a least element.
LEMMA Least ==
  ASSUME NEW T, T \subseteq Nat, T # {}
  PROVE  \E x \in T : \A y \in T : x <= y
<1> DEFINE R == OpToRel(<, Nat)
<1>1. IsWellFoundedOn(R, Nat)
  BY NatLessThanWellFounded
<1>2. \A x, y \in Nat : y < x => <<y, x>> \in R
  BY DEF OpToRel
<1> HIDE DEF R
<1>3. PICK x \in T : \A y \in T : ~(<<y, x>> \in R)
  BY <1>1, WFMin
<1>4. ASSUME NEW y \in T PROVE x <= y
  <2>1. x \in Nat /\ y \in Nat
    OBVIOUS
  <2>2. ~(y < x)
    BY <1>2, <1>3, <2>1
  <2> QED
    BY <2>1, <2>2
<1> QED
  BY <1>4

\* Max, which the sort and the history take of nonempty bounded sets, is
\* their greatest member.
LEMMA MaxFacts ==
  ASSUME NEW n \in Nat, NEW S, S \subseteq 0..n, S # {}
  PROVE  Max(S) \in S /\ \A y \in S : y <= Max(S)
<1> DEFINE T == {n - x : x \in S}
<1>1. \A x \in S : x \in Int /\ n - x \in Nat
  OBVIOUS
<1>2. T \subseteq Nat /\ T # {}
  BY <1>1
<1>3. PICK t \in T : \A u \in T : t <= u
  BY <1>2, Least
<1>4. PICK x \in S : t = n - x
  OBVIOUS
<1>5. ASSUME NEW y \in S PROVE y <= x
  <2>1. n - y \in T
    OBVIOUS
  <2> HIDE DEF T
  <2> QED
    BY <1>1, <1>3, <1>4, <2>1
<1> QED
  BY <1>1, <1>5 DEF Max

\* Quotient and remainder of a natural number.
LEMMA DivFacts ==
  ASSUME NEW p \in Nat \ {0}, NEW a \in Nat
  PROVE  a \div p \in Nat /\ a % p \in 0..p-1 /\ a = p * (a \div p) + (a % p)
<1>1. a \div p \in Int /\ a % p \in 0..p-1
  OBVIOUS
<1>2. a = p * (a \div p) + (a % p)
  OBVIOUS
<1>3. ASSUME NEW q \in Int, NEW r \in 0..p-1, a = p * q + r
      PROVE  q >= 0
  <2> SUFFICES ASSUME q < 0 PROVE FALSE
    OBVIOUS
  <2>1. PICK d \in Nat : q = -1 - d
    OBVIOUS
  <2>2. p * q = -p - p * d
    BY <2>1
  <2>3. p * d \in Nat
    OBVIOUS
  <2> QED
    BY <1>3, <2>2, <2>3
<1>4. PICK q \in Int, r \in 0..p-1 : a = p * q + r /\ q = a \div p
  BY <1>1, <1>2
<1>5. q >= 0
  BY <1>3, <1>4
<1> QED
  BY <1>1, <1>2, <1>4, <1>5

\* The quotient grows with the dividend.
LEMMA DivMono ==
  ASSUME NEW p \in Nat \ {0}, NEW a \in Nat, NEW b \in Nat, a <= b
  PROVE  a \div p <= b \div p
<1>1. a \div p \in Nat /\ a % p \in 0..p-1 /\ a = p * (a \div p) + (a % p)
  BY DivFacts
<1>2. b \div p \in Nat /\ b % p \in 0..p-1 /\ b = p * (b \div p) + (b % p)
  BY DivFacts
<1>3. ASSUME NEW x \in Nat, NEW y \in Nat, NEW r \in 0..p-1, NEW s \in 0..p-1,
             p * x + r <= p * y + s
      PROVE  x <= y
  <2> SUFFICES ASSUME y + 1 <= x PROVE FALSE
    OBVIOUS
  <2>1. PICK d \in Nat : x = y + 1 + d
    OBVIOUS
  <2>2. p * x = p * y + p + p * d
    BY <2>1
  <2>3. p * d \in Nat
     OBVIOUS
  <2>4. PICK z \in Int : z = p * y
    OBVIOUS
  <2>5. PICK e \in Nat : e = p * d
    BY <2>3
  <2>6. z + p + e + r <= z + s
    BY <1>3, <2>2, <2>4, <2>5
  <2> QED
    BY <2>6
<1> QED
  BY <1>1, <1>2, <1>3

-----------------------------------------------------------------------------
\* While the byte count has not wrapped, Remain is the distance from a packet
\* to the next frame boundary, and a packet that starts a frame holds that
\* boundary.
LEMMA RemainFacts ==
  ASSUME NEW seq \in Nat \ {0}, seq * Payload < Modulus
  PROVE  /\ Remain(seq) \in 0..Frame-1
         /\ StartsFrame(seq) => Remain(seq) \in 0..Payload-1
         /\ ((seq - 1) * Payload + Remain(seq)) % Frame = 0
<1> USE PacketAssumption
<1>1. Frame \in Nat \ {0}
  OBVIOUS
<1>2. PICK P \in Nat : P = (seq - 1) * Payload
  OBVIOUS
<1>3. P < Modulus
  <2>1. seq * Payload = P + Payload
    BY <1>2
  <2> QED
    BY <2>1
<1>4. BytesCnt(seq) = P
  BY <1>2, <1>3, ModSmall DEF BytesCnt
<1>5. PICK q \in Int, r \in 0..Frame-1 : P = (Frame * q) + r /\ P % Frame = r
  <2>1. P \in Int
    BY <1>2
  <2> HIDE PacketAssumption
  <2> QED
    BY <1>1, <2>1, ModSplit
<1>6. Remain(seq) = (Frame - r) % Frame
  BY <1>4, <1>5 DEF Remain
<1>7. CASE r = 0
  <2>1. Remain(seq) = 0
    <3>1. Frame = Frame * 1 + 0
      OBVIOUS
    <3> QED
      BY <1>1, <1>6, <1>7, <3>1, ModUnique
  <2> QED
    BY <1>1, <1>2, <1>5, <1>7, <2>1 DEF StartsFrame
<1>8. CASE r # 0
  <2>1. Remain(seq) = Frame - r
    BY <1>1, <1>6, <1>8, ModSmall
  <2>2. PICK k \in Int : k = q + 1
    OBVIOUS
  <2>3. P + Remain(seq) = Frame * k + 0
    BY <1>1, <1>5, <2>1, <2>2
  <2>4. (P + Remain(seq)) % Frame = 0
    <3>1. P + Remain(seq) \in Int /\ 0 \in 0..Frame-1
      BY <1>1, <1>5, <2>1
    <3> HIDE PacketAssumption
    <3> QED
      BY <1>1, <2>2, <2>3, <3>1, ModUnique, ZenonT(40)
  <2> QED
    BY <1>1, <1>2, <1>8, <2>1, <2>4 DEF StartsFrame
<1> QED
  BY <1>7, <1>8

\* The packets a call expects fit into the buffer it allocates.
LEMMA PacketNumFacts ==
  ASSUME NEW rem \in 0..Frame-1
  PROVE  PacketNum(rem) \in 0..MaxPacketNum /\ MaxPacketNum \in Nat \ {0}
<1> USE PacketAssumption
<1>1. PICK n \in Nat : n = FrameNum * Frame
  OBVIOUS
<1>2. (FrameNum + 1) * Frame = n + Frame
  BY <1>1
<1>3. PICK a \in Nat : a = rem + n + Payload - 1
  BY <1>1
<1>4. PICK b \in Nat : b = n + Frame
  BY <1>1
<1>5. PacketNum(rem) = a \div Payload
  BY <1>1, <1>3 DEF PacketNum, CeilDiv
<1>6. MaxPacketNum = b \div Payload + 1
  BY <1>2, <1>4 DEF MaxPacketNum
<1>7. b + Payload \in Nat /\ a <= b + Payload
  BY <1>3, <1>4
<1>8. (b + Payload) \div Payload = b \div Payload + 1
  OBVIOUS
<1>9. b \div Payload \in Nat /\ a \div Payload \in Nat
  BY DivFacts
<1> QED
  BY <1>5, <1>6, <1>7, <1>8, <1>9, DivMono

\* Where the packet q + 1 behind packet b has its first word.
LEMMA Place ==
  ASSUME NEW b \in Int, NEW q \in Int, NEW p \in Int
  PROVE  (b + q) * p = (b - 1) * p + p + p * q
  OBVIOUS

\* A difference of two sequence numbers is told from its unsigned value.
LEMMA SmallDifference ==
  ASSUME NEW M \in Nat \ {0}, NEW n \in Nat, NEW k \in Nat, n + k < M,
         NEW d \in -n..n, d % M = k
  PROVE  d = k
<1>1. CASE d >= 0
  <2>1. d \in 0..M-1
    BY <1>1
  <2> QED
    BY <2>1, ModSmall
<1>2. CASE d < 0
  <2>1. d \in Int /\ -M <= d /\ d < 0
    BY <1>2
  <2>2. d % M = d + M
    BY <2>1, ModNegative
  <2> QED
    BY <2>2
<1> QED
  BY <1>1, <1>2

\* A record the sort keeps lies ahead of the first one by its index: neither
\* an earlier packet nor what an earlier call left is kept.
LEMMA KeptAhead ==
  ASSUME NEW n \in Nat, NEW recs \in [0 .. MaxPacketNum - 1 -> 0..n],
         NEW rem \in 0..Frame-1, n + MaxPacketNum < Modulus,
         NEW i \in Kept(recs, rem)
  PROVE  /\ i \in 1 .. PacketNum(rem) - 1
         /\ Index(recs, i) \in 1 .. PacketNum(rem) - 1
         /\ recs[i] \in Int /\ recs[0] \in Int
         /\ recs[i] = recs[0] + Index(recs, i) /\ recs[i] > recs[0]
<1>1. i \in 1 .. PacketNum(rem) - 1 /\ Index(recs, i) \in 1 .. PacketNum(rem) - 1
  BY DEF Kept
<1>2. PacketNum(rem) \in 0..MaxPacketNum /\ MaxPacketNum \in Nat \ {0}
  BY PacketNumFacts
<1>3. recs[i] \in 0..n /\ recs[0] \in 0..n
  BY <1>1, <1>2
<1>4. PICK d \in -n..n : d = recs[i] - recs[0]
  BY <1>3
<1>5. PICK k \in Nat : k = Index(recs, i) /\ k >= 1 /\ n + k < Modulus
  BY <1>1, <1>2, PacketAssumption
<1>6. d % Modulus = k
  BY <1>4, <1>5 DEF Index
<1>7. d = k
  BY <1>5, <1>6, PacketAssumption, SmallDifference
<1> QED
  BY <1>1, <1>3, <1>4, <1>5, <1>7

\* Every word behind the first packet's share belongs to a packet that the
\* call expects.
LEMMA IndexInRange ==
  ASSUME NEW rem \in 0..Frame-1, rem \in 0..Payload-1,
         NEW j \in Payload - rem .. FrameNum * Frame - 1
  PROVE  (j - (Payload - rem)) \div Payload + 1 \in 1 .. PacketNum(rem) - 1
<1> USE PacketAssumption
<1>1. PICK x \in Nat : x = j - (Payload - rem)
  OBVIOUS
<1>2. PICK a \in Nat : a = rem + FrameNum * Frame - 1
  OBVIOUS
<1>3. x + Payload \in Nat /\ x + Payload <= a
  BY <1>1, <1>2
<1>4. (x + Payload) \div Payload = x \div Payload + 1
  OBVIOUS
<1>5. (a + Payload) \div Payload = a \div Payload + 1
  OBVIOUS
<1>6. PacketNum(rem) = (a + Payload) \div Payload
  <2>1. rem + FrameNum * Frame + Payload - 1 = a + Payload
    BY <1>2
  <2> QED
    BY <2>1 DEF PacketNum, CeilDiv
<1>7. (x + Payload) \div Payload <= a \div Payload
  BY <1>3, DivMono
<1>8. x \div Payload \in Nat /\ a \div Payload \in Nat
  BY DivFacts
<1> QED
  BY <1>1, <1>4, <1>5, <1>6, <1>7, <1>8

\* What the sort writes behind the first packet's share: the stream's word of
\* that position when the packet that carries it is kept, nothing otherwise.
LEMMA SortedExact ==
  ASSUME NEW n \in Nat, NEW recs \in [0 .. MaxPacketNum - 1 -> 0..n],
         recs[0] \in 1..n, NEW rem \in 0..Payload-1, rem < Frame,
         n + MaxPacketNum < Modulus,
         NEW j \in Payload - rem .. FrameNum * Frame - 1
  PROVE  IF \E i \in Kept(recs, rem) :
              Index(recs, i) = (j - (Payload - rem)) \div Payload + 1
         THEN SortedWord(recs, rem, j) = StartOf(recs, rem) + j
         ELSE SortedWord(recs, rem, j) = Unset
<1> DEFINE first == Payload - rem
           q == (j - first) \div Payload
           r == (j - first) % Payload
           copies == {i \in Kept(recs, rem) : Index(recs, i) = q + 1}
           m == Max(copies)
<1>1. j - first \in Nat /\ ~(j < first)
  BY PacketAssumption
<1>2. SortedWord(recs, rem, j) =
        IF copies = {} THEN Unset ELSE WordOf(recs[m], Header + r)
  BY <1>1, Zenon DEF SortedWord
<1>3. SUFFICES ASSUME copies # {}
               PROVE  SortedWord(recs, rem, j) = StartOf(recs, rem) + j
  BY <1>2
<1>4. q \in Nat /\ r \in 0..Payload-1 /\ j - first = Payload * q + r
  BY <1>1, PacketAssumption, DivFacts
<1>5. m \in copies
  <2>1. PacketNum(rem) \in 0..MaxPacketNum /\ MaxPacketNum \in Nat \ {0}
    BY PacketNumFacts, PacketAssumption
  <2>2. copies \subseteq 0..MaxPacketNum
    BY <2>1 DEF Kept
  <2> HIDE DEF copies
  <2> QED
    BY <1>3, <2>1, <2>2, MaxFacts
<1>6. PICK a \in Int, b \in Int : b = recs[0] /\ a = recs[m] /\ a = b + (q + 1)
  <2>1. m \in Kept(recs, rem) /\ Index(recs, m) = q + 1
    BY <1>5
  <2>2. rem \in 0..Frame-1
    BY PacketAssumption
  <2> HIDE DEF m, q
  <2> QED
    BY <2>1, <2>2, KeptAhead
<1>7. SortedWord(recs, rem, j) = WordOf(a, Header + r)
  BY <1>2, <1>3, <1>6
<1>8. WordOf(a, Header + r) = (a - 1) * Payload + r
  <2> HIDE DEF m, r
  <2> QED
    BY <1>4, PacketAssumption DEF WordOf
<1>9. (a - 1) * Payload + r = (b - 1) * Payload + rem + j
  <2>1. /\ j - (Payload - rem) = Payload * q + r
        /\ q \in Int /\ r \in Int /\ Payload \in Int
    BY <1>4, PacketAssumption
  <2> HIDE DEF m, r, q
  <2>2. a - 1 = b + q
    BY <2>1, <1>6, SMTT(30)
  <2>3. (b + q) * Payload = (b - 1) * Payload + Payload + Payload * q
    BY <2>1, Place
  <2>4. PICK x \in Int : x = (b - 1) * Payload
    BY <2>1
  <2>5. PICK y \in Int : y = Payload * q
    BY <2>1
  <2>6. j = Payload - rem + y + r
    BY <2>1, <2>5, PacketAssumption
  <2> QED
    BY <2>1, <2>2, <2>3, <2>4, <2>5, <2>6
<1> QED
  BY <1>6, <1>7, <1>8, <1>9 DEF StartOf
\* Multiples of a frame: the nearest one at or after a position.
LEMMA NextMultiple ==
  ASSUME NEW F \in Nat \ {0}, NEW s \in Nat, NEW b \in Nat,
         s % F = 0, b % F = 0, s < b + F
  PROVE  s <= b
<1>0. s \in Int /\ b \in Int
  OBVIOUS
<1>1. PICK u \in Int, r \in 0..F-1 : s = (F * u) + r /\ s % F = r
  BY <1>0, ModSplit
<1>2. PICK v \in Int, t \in 0..F-1 : b = (F * v) + t /\ b % F = t
  BY <1>0, ModSplit
<1>3. SUFFICES ASSUME u > v PROVE FALSE
  <2>1. CASE u <= v
    <3>1. F * u <= F * v
      BY <2>1
    <3> QED
      BY <1>1, <1>2, <3>1
  <2>2. CASE u > v
    BY <1>3, <2>2
  <2> QED
    BY <2>1, <2>2
<1>4. F * (v + 1) = F * v + F /\ F * (v + 1) <= F * u
  BY <1>3
<1> QED
  BY <1>1, <1>2, <1>4

\* A frame boundary at or behind a packet's first word: the packet starts no
\* later frame, and when it starts none the boundary is behind the packet.
LEMMA BoundaryAhead ==
  ASSUME NEW seq \in Nat \ {0}, seq * Payload < Modulus,
         NEW b \in Nat, b % Frame = 0, (seq - 1) * Payload <= b
  PROVE  /\ (seq - 1) * Payload + Remain(seq) <= b
         /\ ~StartsFrame(seq) => seq * Payload <= b
<1>1. Payload \in Nat \ {0} /\ Frame \in Nat \ {0}
  BY PacketAssumption
<1>2. PICK p \in Nat : p = (seq - 1) * Payload
  BY <1>1
<1>3. /\ Remain(seq) \in 0..Frame-1 /\ (p + Remain(seq)) % Frame = 0
      /\ StartsFrame(seq) => Remain(seq) \in 0..Payload-1
  BY <1>2, RemainFacts
<1>4. p + Remain(seq) <= b
  <2>1. p + Remain(seq) \in Nat /\ p + Remain(seq) < b + Frame
    BY <1>1, <1>2, <1>3
  <2> QED
    BY <1>1, <1>3, <2>1, NextMultiple
<1>5. seq * Payload = p + Payload
  BY <1>1, <1>2
<1>6. ~StartsFrame(seq) => Remain(seq) >= Payload
  BY <1>1, <1>3 DEF StartsFrame
<1> QED
  BY <1>1, <1>2, <1>3, <1>4, <1>5, <1>6

\* The packets of a result end less than a packet behind its last word.
LEMMA PacketsCover ==
  ASSUME NEW rem \in 0..Frame-1
  PROVE  /\ PacketNum(rem) * Payload < rem + FrameNum * Frame + Payload
         /\ PacketNum(rem) \in Nat \ {0}
<1>1. Payload \in Nat \ {0} /\ Frame \in Nat \ {0} /\ FrameNum \in Nat \ {0}
  BY PacketAssumption
<1>2. PICK n \in Nat \ {0} : n = FrameNum * Frame
  BY <1>1
<1>3. PICK a \in Nat : a = rem + n + Payload - 1
  BY <1>1, <1>2
<1>4. PacketNum(rem) = a \div Payload
  BY <1>2, <1>3 DEF PacketNum, CeilDiv
<1>5. /\ a \div Payload \in Nat /\ a % Payload \in 0..Payload-1
      /\ a = Payload * (a \div Payload) + (a % Payload)
  BY <1>1, DivFacts
<1>6. PICK e \in Nat : e = a \div Payload
  BY <1>5
<1>7. Payload * e <= a /\ e * Payload = Payload * e
  BY <1>1, <1>5, <1>6
<1>8. e # 0
  <2>1. a >= Payload
    BY <1>1, <1>2, <1>3
  <2> QED
    BY <1>1, <1>5, <1>6, <2>1
<1> QED
  BY <1>1, <1>2, <1>3, <1>4, <1>6, <1>7, <1>8

-----------------------------------------------------------------------------
(***************************************************************************)
(* The capture path.                                                       *)
(***************************************************************************)

\* The shorter of what is there and what is wanted.
LEMMA MinTwo ==
  ASSUME NEW a \in Int, NEW b \in Int
  PROVE  Min({a, b}) \in Int /\ Min({a, b}) <= a /\ Min({a, b}) <= b
<1>1. \E x \in {a, b} : \A y \in {a, b} : x <= y
  OBVIOUS
<1> QED
  BY <1>1 DEF Min

\* lastFrameRemainBytes is less than a frame, wrapped or not.
LEMMA RemainRange ==
  ASSUME NEW seq \in Nat
  PROVE  Remain(seq) \in 0..Frame-1
<1>1. BytesCnt(seq) \in Nat
  BY PacketAssumption, ModRange DEF BytesCnt
<1>2. Frame \in Nat \ {0}
  BY PacketAssumption
<1>3. BytesCnt(seq) % Frame \in Int
  BY <1>1, <1>2, ModRange
<1>4. Frame - (BytesCnt(seq) % Frame) \in Int
  BY <1>2, <1>3
<1> QED
  BY <1>2, <1>4, ModRange DEF Remain

\* The buffer holds a first record, and the queue a packet.
LEMMA BufferFacts ==
  /\ MaxPacketNum \in Nat \ {0} /\ 0 \in 0..MaxPacketNum-1
  /\ QueueSize \in Nat \ {0}
<1>1. 0 \in 0..Frame-1
  BY PacketAssumption
<1>2. MaxPacketNum \in Nat \ {0}
  BY <1>1, PacketNumFacts
<1> QED
  BY <1>2, QueueAssumption

\* What is sorted into a result are packets that were sent.
LEMMA UsedType ==
  ASSUME TypeOK, remain \in 0..Frame-1
  PROVE  Used(buf, remain) \subseteq 0..MaxSeq
<1>1. PacketNum(remain) \in 0..MaxPacketNum
  BY PacketNumFacts
<1>2. \A i \in Kept(buf, remain) : i \in 0..MaxPacketNum-1
  BY <1>1, BufferFacts DEF Kept
<1> QED
  BY <1>2, BufferFacts DEF Used, TypeOK

\* The invariant holds before the first packet.
LEMMA InitIInv ==
  Init => IInv
<1> SUFFICES ASSUME Init PROVE IInv
  OBVIOUS
<1> USE PacketAssumption, StreamAssumption, BufferFacts
<1>1. queue \in Seq(1..MaxSeq) /\ Len(queue) = 0
  BY EmptySeq DEF Init
<1>2. buf \in [0 .. MaxPacketNum - 1 -> 0..MaxSeq]
  BY DEF Init, Empty
<1>3. TypeOK
  BY <1>1, <1>2 DEF Init, TypeOK, Disorder
<1>4. FrameInv
  BY DEF Init, FrameInv
<1>5. DistinctInv /\ OrderInv
  <2>1. \A i \in 0 .. MaxPacketNum - 1 : buf[i] = 0
    BY DEF Init, Empty
  <2> QED
    BY <1>1, <2>1 DEF Init, DistinctInv, OrderInv
<1> QED
  BY <1>3, <1>4, <1>5 DEF IInv

\* Every step keeps the types: the queue stays within its size, and a call
\* reads no more than the buffer holds.
LEMMA TypeStep ==
  ASSUME TypeOK, FrameInv, Next
  PROVE  TypeOK'
<1> USE PacketAssumption, StreamAssumption, BufferFacts DEF reader
<1>1. CASE Send
  BY <1>1 DEF Send, TypeOK
<1>2. ASSUME NEW seq \in net, Lose(seq) PROVE TypeOK'
  BY <1>2 DEF Lose, TypeOK
<1>3. ASSUME NEW seq \in net, ReceivePacket(seq) PROVE TypeOK'
  <2>1. /\ seq \in 1..MaxSeq /\ queue \in Seq(1..MaxSeq)
        /\ Len(queue) \in Nat /\ Len(queue) <= QueueSize
    BY DEF TypeOK
  <2>2. PICK rest \in Seq(1..MaxSeq) :
          Len(rest) < QueueSize /\ queue' = Append(rest, seq)
    <3>1. CASE Len(queue) = QueueSize
      <4>1. queue # << >>
        BY <3>1, <2>1
      <4>2. Tail(queue) \in Seq(1..MaxSeq) /\ Len(Tail(queue)) = Len(queue) - 1
        BY <2>1, <4>1, HeadTailProperties
      <4>3. queue' = Append(Tail(queue), seq)
        BY <1>3, <3>1 DEF ReceivePacket
      <4>4. Len(Tail(queue)) < QueueSize
        BY <2>1, <3>1, <4>2
      <4> QED
        BY <4>2, <4>3, <4>4
    <3>2. CASE Len(queue) # QueueSize
      BY <1>3, <2>1, <3>2, SMTT(30) DEF ReceivePacket
    <3> QED
      BY <3>1, <3>2
  <2>3. queue' \in Seq(1..MaxSeq) /\ Len(queue') <= QueueSize
    BY <2>1, <2>2, AppendProperties, LenProperties
  <2>4. whole' \in BOOLEAN
    BY <1>3 DEF ReceivePacket
  <2>5. last' \in Disorder..MaxSeq
    BY <1>3, <2>1 DEF ReceivePacket, Disorder
  <2>6. net' \subseteq 1..MaxSeq
    BY <1>3 DEF ReceivePacket, TypeOK
  <2> QED
    BY <1>3, <2>3, <2>4, <2>5, <2>6 DEF ReceivePacket, TypeOK
<1>4. CASE GetFrames
  <2>1. buf' \in [0 .. MaxPacketNum - 1 -> 0..MaxSeq]
    BY <1>4 DEF GetFrames, Empty, TypeOK
  <2>2. outcome = "frame" => remain \in 0..Frame-1 /\ buf[0] \in Nat
    BY RemainRange DEF FrameInv
  <2>3. previous' \in Int
    BY <1>4, <2>2 DEF GetFrames, StartOf, TypeOK
  <2>4. newest' \in 0..MaxSeq
    <3>1. CASE outcome = "frame"
      <4>1. Used(buf, remain) \cup {newest} \subseteq 0..MaxSeq
        BY <2>2, <3>1, UsedType DEF TypeOK
      <4>2. Max(Used(buf, remain) \cup {newest}) \in Used(buf, remain) \cup {newest}
        BY <4>1, MaxFacts
      <4> QED
        BY <1>4, <3>1, <4>1, <4>2 DEF GetFrames
    <3>2. CASE outcome # "frame"
      BY <1>4, <3>2 DEF GetFrames, TypeOK
    <3> QED
      BY <3>1, <3>2
  <2> QED
    BY <1>4, <2>1, <2>3, <2>4, SMTT(30) DEF GetFrames, TypeOK
<1>5. CASE FindStart
  <2>1. /\ Head(queue) \in 1..MaxSeq /\ Tail(queue) \in Seq(1..MaxSeq)
        /\ Len(Tail(queue)) = Len(queue) - 1
    BY <1>5, HeadTailProperties DEF FindStart, TypeOK
  <2>2. Head(queue) \in Nat
    BY <2>1
  <2>3. Remain(Head(queue)) \in 0..Frame-1
    <3> HIDE PacketAssumption, StreamAssumption, BufferFacts
    <3> QED
      BY <2>2, RemainRange
  <2>4. PacketNum(Remain(Head(queue))) \in 0..MaxPacketNum
    BY <2>3, PacketNumFacts
  <2>5. buf' \in [0 .. MaxPacketNum - 1 -> 0..MaxSeq]
    BY <1>5, <2>1 DEF FindStart, TypeOK
  <2>6. Len(queue) \in Nat
    BY LenProperties DEF TypeOK
  <2>7. queue' \in Seq(1..MaxSeq) /\ Len(queue') <= QueueSize
    BY <1>5, <2>1, <2>6 DEF FindStart, TypeOK
  <2>8. remain' \in -1 .. Frame - 1 /\ expected' \in 0..MaxPacketNum
    BY <1>5, <2>3, <2>4, SMTT(30) DEF FindStart, TypeOK
  <2>9. rpc' \in {"idle", "find", "rest"}
    BY <1>5 DEF FindStart
  <2> QED
    BY <1>5, <2>5, <2>7, <2>8, <2>9 DEF FindStart, TypeOK
<1>6. CASE FindTimeout
  <2>1. remain' \in -1 .. Frame - 1
    BY <1>6 DEF FindTimeout
  <2>2. whole' \in BOOLEAN /\ rpc' \in {"idle", "find", "rest"}
    BY <1>6 DEF FindTimeout
  <2> QED
    BY <1>6, <2>1, <2>2 DEF FindTimeout, TypeOK
<1>7. ASSUME NEW n \in 0..MaxPacketNum, ReadRest(n) PROVE TypeOK'
  <2>1. Len(queue) \in Nat /\ queue \in Seq(1..MaxSeq)
    BY LenProperties DEF TypeOK
  <2>2. n \in Nat /\ n <= Len(queue)
    <3>1. expected - 1 \in Int
      BY DEF TypeOK
    <3>2. n = Min({Len(queue), expected - 1})
      BY <1>7 DEF ReadRest
    <3>3. Min({Len(queue), expected - 1}) <= Len(queue)
      BY <2>1, <3>1, MinTwo
    <3> QED
      BY <3>2, <3>3
  <2>3. \A i \in 1..Len(queue) : queue[i] \in 1..MaxSeq
    BY <2>1, ElementOfSeq
  <2>4. buf' \in [0 .. MaxPacketNum - 1 -> 0..MaxSeq]
    <3>1. buf \in [0 .. MaxPacketNum - 1 -> 0..MaxSeq]
      BY DEF TypeOK
    <3>2. \A i \in 1..n : queue[i] \in 0..MaxSeq
      BY <2>1, <2>2, <2>3
    <3>3. buf' = [i \in 0 .. MaxPacketNum - 1 |->
                    IF i \in 1..n THEN queue[i] ELSE buf[i]]
      BY <1>7, <3>1 DEF ReadRest
    <3> QED
      BY <3>1, <3>2, <3>3
  <2>5. queue' \in Seq(1..MaxSeq) /\ Len(queue') <= Len(queue)
    <3>1. \A i \in n+1..Len(queue) : queue[i] \in 1..MaxSeq
      BY <2>1, <2>2, <2>3
    <3>2. /\ queue' = SubSeq(queue, n + 1, Len(queue))
          /\ n + 1 \in Int /\ Len(queue) \in Int
      BY <1>7, <2>1, <2>2 DEF ReadRest
    <3>3. /\ queue' \in Seq(1..MaxSeq)
          /\ Len(queue') = IF n + 1 <= Len(queue) THEN Len(queue) - (n + 1) + 1 ELSE 0
      BY <3>1, <3>2, SubSeqProperties
    <3> QED
      BY <2>1, <2>2, <3>3
  <2>6. whole' \in BOOLEAN
    BY <1>7 DEF ReadRest
  <2>7. Len(queue') <= QueueSize
    BY <2>1, <2>5 DEF TypeOK
  <2>8. rpc' \in {"idle", "find", "rest"} /\ outcome' \in {"none", "timeout", "frame"}
        /\ UNCHANGED <<sent, net, remain, expected, previous, newest, last>>
    BY <1>7 DEF ReadRest
  <2> QED
    BY <2>4, <2>5, <2>6, <2>7, <2>8 DEF TypeOK
<1> QED
  BY <1>1, <1>2, <1>3, <1>4, <1>5, <1>6, <1>7 DEF Next

\* Every step keeps the first record and the counts taken from it together:
\* the read that follows does not overwrite that record.
LEMMA FrameStep ==
  ASSUME TypeOK, FrameInv, Next
  PROVE  FrameInv'
<1> USE BufferFacts DEF reader, FrameInv
<1>1. CASE Send
  BY <1>1 DEF Send
<1>2. ASSUME NEW seq \in net, Lose(seq) PROVE FrameInv'
  BY <1>2 DEF Lose
<1>3. ASSUME NEW seq \in net, ReceivePacket(seq) PROVE FrameInv'
  BY <1>3 DEF ReceivePacket
<1>4. CASE GetFrames
  BY <1>4 DEF GetFrames
<1>5. CASE FindStart
  <2>1. Head(queue) \in 1..MaxSeq
    BY <1>5, HeadTailProperties DEF FindStart, TypeOK
  <2>2. buf'[0] = Head(queue)
    BY <1>5 DEF FindStart, TypeOK
  <2> QED
    BY <1>5, <2>1, <2>2 DEF FindStart
<1>6. CASE FindTimeout
  BY <1>6 DEF FindTimeout
<1>7. ASSUME NEW n \in 0..MaxPacketNum, ReadRest(n) PROVE FrameInv'
  <2>1. buf'[0] = buf[0]
    BY <1>7 DEF ReadRest, TypeOK
  <2> QED
    BY <1>7, <2>1 DEF ReadRest
<1> QED
  BY <1>1, <1>2, <1>3, <1>4, <1>5, <1>6, <1>7 DEF Next

-----------------------------------------------------------------------------
\* After _udp_read_thread's Put the queue holds what it held, less the oldest
\* packet if it was full, and the new packet at its end.
LEMMA QueueAfterReceive ==
  ASSUME TypeOK, NEW seq \in net, ReceivePacket(seq)
  PROVE  \E d \in 0..1 :
           /\ d <= Len(queue) /\ Len(queue') = Len(queue) - d + 1
           /\ \A i \in 1..Len(queue') :
                \/ i = Len(queue') /\ queue'[i] = seq
                \/ /\ i < Len(queue') /\ i + d \in 1..Len(queue)
                   /\ queue'[i] = queue[i + d]
<1>1. seq \in 1..MaxSeq /\ queue \in Seq(1..MaxSeq) /\ Len(queue) \in Nat
  BY LenProperties DEF TypeOK
<1>2. CASE Len(queue) = QueueSize
  <2>1. queue # << >>
    BY <1>2, BufferFacts
  <2>2. /\ Tail(queue) \in Seq(1..MaxSeq) /\ Len(Tail(queue)) = Len(queue) - 1
        /\ \A i \in 1 .. Len(Tail(queue)) : Tail(queue)[i] = queue[i + 1]
    BY <1>1, <2>1, HeadTailProperties
  <2>3. queue' = Append(Tail(queue), seq)
    BY <1>2 DEF ReceivePacket
  <2>4. /\ Len(queue') = Len(Tail(queue)) + 1
        /\ \A i \in 1 .. Len(Tail(queue)) : queue'[i] = Tail(queue)[i]
        /\ queue'[Len(Tail(queue)) + 1] = seq
    BY <1>1, <2>2, <2>3, AppendProperties
  <2>5. 1 <= Len(queue)
    BY <1>2, BufferFacts
  <2>6. Len(queue') = Len(queue)
    BY <1>1, <2>2, <2>4
  <2>7. \A i \in 1..Len(queue') :
          \/ i = Len(queue') /\ queue'[i] = seq
          \/ i < Len(queue') /\ i + 1 \in 1..Len(queue) /\ queue'[i] = queue[i + 1]
    <3> SUFFICES ASSUME NEW i \in 1..Len(queue'), i # Len(queue')
                 PROVE  /\ i < Len(queue') /\ i + 1 \in 1..Len(queue)
                        /\ queue'[i] = queue[i + 1]
      BY <1>1, <2>2, <2>4, <2>6
    <3>1. i \in 1..Len(Tail(queue)) /\ i < Len(queue') /\ i + 1 \in 1..Len(queue)
      <4>1. PICK L \in Nat : L = Len(queue)
        BY <1>1
      <4>2. Len(queue') = L /\ Len(Tail(queue)) = L - 1
        BY <2>2, <2>6, <4>1
      <4>3. i \in 1..L /\ i # L
        BY <4>2
      <4> QED
        BY <4>1, <4>2, <4>3
    <3> QED
      BY <2>2, <2>4, <3>1
  <2> WITNESS 1 \in 0..1
  <2> QED
    BY <1>1, <2>5, <2>6, <2>7
<1>3. CASE Len(queue) # QueueSize
  <2>1. queue' = Append(queue, seq)
    BY <1>3 DEF ReceivePacket
  <2>2. /\ Len(queue') = Len(queue) + 1
        /\ \A i \in 1 .. Len(queue) : queue'[i] = queue[i]
        /\ queue'[Len(queue) + 1] = seq
    BY <1>1, <2>1, AppendProperties
  <2> WITNESS 0 \in 0..1
  <2> QED
    BY <1>1, <2>2
<1> QED
  BY <1>2, <1>3

\* Get_wait of one packet moves the head of the queue into the first record.
LEMMA AfterFindStart ==
  ASSUME TypeOK, FindStart
  PROVE  /\ Len(queue) \in Nat \ {0} /\ Len(queue') = Len(queue) - 1
         /\ \A i \in 1..Len(queue') :
              i + 1 \in 1..Len(queue) /\ queue'[i] = queue[i + 1]
         /\ buf'[0] = queue[1]
         /\ \A i \in 1 .. MaxPacketNum - 1 : buf'[i] = buf[i]
<1>1. queue \in Seq(1..MaxSeq) /\ queue # << >> /\ queue' = Tail(queue)
  BY DEF TypeOK, FindStart
<1>2. /\ Len(queue') = Len(queue) - 1 /\ Head(queue) = queue[1]
      /\ \A i \in 1 .. Len(queue') : queue'[i] = queue[i + 1]
  BY <1>1, HeadTailProperties
<1>3. Len(queue) \in Nat \ {0}
  BY <1>1, EmptySeq
<1>4. /\ buf \in [0 .. MaxPacketNum - 1 -> 0..MaxSeq]
      /\ buf' = [buf EXCEPT ![0] = Head(queue)]
  BY DEF TypeOK, FindStart
<1>5. buf'[0] = Head(queue) /\ \A i \in 1 .. MaxPacketNum - 1 : buf'[i] = buf[i]
  BY <1>4, BufferFacts
<1> QED
  BY <1>2, <1>3, <1>5

\* Get_wait of the rest moves the first n packets of the queue into the
\* records 1..n.
LEMMA AfterReadRest ==
  ASSUME TypeOK, NEW n \in 0..MaxPacketNum, ReadRest(n)
  PROVE  /\ Len(queue) \in Nat /\ n <= Len(queue) /\ Len(queue') = Len(queue) - n
         /\ \A i \in 1..Len(queue') :
              i + n \in 1..Len(queue) /\ queue'[i] = queue[i + n]
         /\ \A i \in 0 .. MaxPacketNum - 1 :
              buf'[i] = IF i \in 1..n THEN queue[i] ELSE buf[i]
<1>1. Len(queue) \in Nat /\ queue \in Seq(1..MaxSeq)
  BY LenProperties DEF TypeOK
<1>2. n \in Nat /\ n <= Len(queue)
  <2>1. PICK e \in Int : e = expected - 1
    BY BufferFacts DEF TypeOK
  <2>2. n = Min({Len(queue), e})
    BY <2>1 DEF ReadRest
  <2>3. Min({Len(queue), e}) <= Len(queue)
    <3>1. Len(queue) \in Int
      BY <1>1
    <3> HIDE DEF TypeOK, ReadRest
    <3> QED
      BY <3>1, MinTwo
  <2>4. n \in Nat
    BY BufferFacts
  <2> QED
    BY <2>2, <2>3, <2>4
<1>3. \A i \in n + 1 .. Len(queue) : queue[i] \in 1..MaxSeq
  <2>1. \A i \in 1..Len(queue) : queue[i] \in 1..MaxSeq
    BY <1>1, ElementOfSeq
  <2> QED
    BY <1>1, <1>2, <2>1
<1>4. /\ queue' = SubSeq(queue, n + 1, Len(queue))
      /\ n + 1 \in Int /\ Len(queue) \in Int
  BY <1>1, <1>2 DEF ReadRest
<1>5. /\ Len(queue') = IF n + 1 <= Len(queue) THEN Len(queue) - (n + 1) + 1 ELSE 0
      /\ \A i \in 1 .. Len(queue) - (n + 1) + 1 : queue'[i] = queue[(n + 1) + i - 1]
  BY <1>3, <1>4, SubSeqProperties
<1>6. Len(queue') = Len(queue) - n
  BY <1>1, <1>2, <1>5
<1>7. \A i \in 1 .. Len(queue) - n : queue'[i] = queue[i + n]
  <2> SUFFICES ASSUME NEW i \in 1 .. Len(queue) - n
               PROVE  queue'[i] = queue[i + n]
    OBVIOUS
  <2>1. i \in 1 .. Len(queue) - (n + 1) + 1 /\ (n + 1) + i - 1 = i + n
    BY <1>1, <1>2
  <2> QED
    BY <1>5, <2>1
<1>8. /\ buf \in [0 .. MaxPacketNum - 1 -> 0..MaxSeq]
      /\ buf' = [i \in DOMAIN buf |-> IF i \in 1..n THEN queue[i] ELSE buf[i]]
  BY DEF TypeOK, ReadRest
<1> QED
  BY <1>1, <1>2, <1>6, <1>7, <1>8

\* No step duplicates a packet: it is on its way, then in the queue, then in
\* one record.
LEMMA DistinctStep ==
  ASSUME TypeOK, TypeOK', DistinctInv, Next
  PROVE  DistinctInv'
<1>1. /\ sent \in Nat /\ Len(queue) \in Nat /\ net \subseteq 1..MaxSeq /\ MaxSeq \in Nat
      /\ MaxPacketNum \in Nat \ {0}
      /\ \A i \in 1..Len(queue) : queue[i] \in 1..MaxSeq
      /\ \A i \in 0 .. MaxPacketNum - 1 : buf[i] \in 0..MaxSeq
  <2>1. queue \in Seq(1..MaxSeq)
    BY DEF TypeOK
  <2>2. Len(queue) \in Nat /\ \A i \in 1..Len(queue) : queue[i] \in 1..MaxSeq
    BY <2>1, LenProperties, ElementOfSeq
  <2>3. \A i \in 0 .. MaxPacketNum - 1 : buf[i] \in 0..MaxSeq
    BY DEF TypeOK
  <2> QED
    BY <2>2, <2>3, StreamAssumption, BufferFacts DEF TypeOK
<1>2. CASE Send
  BY <1>1, <1>2 DEF Send, DistinctInv, reader
<1>3. ASSUME NEW seq \in net, Lose(seq) PROVE DistinctInv'
  BY <1>1, <1>3 DEF Lose, DistinctInv, reader
<1>4. ASSUME NEW seq \in net, ReceivePacket(seq) PROVE DistinctInv'
  <2>1. PICK d \in 0..1 :
           /\ d <= Len(queue) /\ Len(queue') = Len(queue) - d + 1
           /\ \A i \in 1..Len(queue') :
                \/ i = Len(queue') /\ queue'[i] = seq
                \/ /\ i < Len(queue') /\ i + d \in 1..Len(queue)
                   /\ queue'[i] = queue[i + d]
    BY <1>4, QueueAfterReceive
  <2>2. net' = net \ {seq} /\ buf' = buf /\ sent' = sent
    BY <1>4 DEF ReceivePacket, reader
  <2>3. \A i, k \in 1..Len(queue') : i # k => queue'[i] # queue'[k]
    <3> SUFFICES ASSUME NEW i \in 1..Len(queue'), NEW k \in 1..Len(queue'), i # k
                 PROVE  queue'[i] # queue'[k]
      OBVIOUS
    <3>1. \A h \in 1..Len(queue) : queue[h] # seq
      BY DEF DistinctInv
    <3>2. CASE i = Len(queue') \/ k = Len(queue')
      BY <1>1, <2>1, <3>1, <3>2, SMTT(30)
    <3>3. CASE i # Len(queue') /\ k # Len(queue')
      <4>1. i + d # k + d
        BY <1>1, <2>1
      <4> QED
        BY <2>1, <3>3, <4>1 DEF DistinctInv
    <3> QED
      BY <3>2, <3>3
  <2>4. \A i \in 1..Len(queue') : queue'[i] <= sent' /\ queue'[i] \notin net'
    BY <1>1, <2>1, <2>2 DEF DistinctInv
  <2>5. \A i \in 0 .. MaxPacketNum - 1, k \in 1..Len(queue') : buf'[i] # queue'[k]
    BY <1>1, <2>1, <2>2 DEF DistinctInv
  <2> QED
    BY <1>1, <2>2, <2>3, <2>4, <2>5 DEF DistinctInv
<1>5. CASE GetFrames
  <2>1. \A i \in 0 .. MaxPacketNum - 1 : buf'[i] = 0 \/ buf' = buf
    BY <1>5 DEF GetFrames, Empty
  <2>2. UNCHANGED <<net, queue, sent>>
    BY <1>5 DEF GetFrames
  <2> QED
    BY <1>1, <2>1, <2>2 DEF DistinctInv
<1>6. CASE FindStart
  <2>1. UNCHANGED <<net, sent>>
    BY <1>6 DEF FindStart
  <2>2. /\ Len(queue) \in Nat \ {0} /\ Len(queue') = Len(queue) - 1
        /\ buf'[0] = queue[1]
        /\ \A i \in 1..Len(queue') :
             i + 1 \in 1..Len(queue) /\ queue'[i] = queue[i + 1]
        /\ \A i \in 1 .. MaxPacketNum - 1 : buf'[i] = buf[i]
    BY <1>6, AfterFindStart
  <2>3. \A i, k \in 1..Len(queue') : i # k => queue'[i] # queue'[k]
    BY <1>1, <2>2 DEF DistinctInv
  <2>4. \A i \in 1..Len(queue') : queue'[i] <= sent' /\ queue'[i] \notin net'
    BY <1>1, <2>1, <2>2 DEF DistinctInv
  <2>5. \A i \in 0 .. MaxPacketNum - 1 :
          \/ i = 0 /\ buf'[i] = queue[1]
          \/ i \in 1 .. MaxPacketNum - 1 /\ buf'[i] = buf[i]
    BY <1>1, <2>2
  <2>6. \A i \in 0 .. MaxPacketNum - 1 : buf'[i] <= sent' /\ buf'[i] \notin net'
    BY <1>1, <2>1, <2>2, <2>5 DEF DistinctInv
  <2>7. \A i \in 0 .. MaxPacketNum - 1, k \in 1..Len(queue') : buf'[i] # queue'[k]
    BY <1>1, <2>2, <2>5 DEF DistinctInv
  <2>8. \A i, k \in 0 .. MaxPacketNum - 1 : i # k /\ buf'[i] # 0 => buf'[i] # buf'[k]
    BY <1>1, <2>2, <2>5 DEF DistinctInv
  <2> QED
    BY <1>1, <2>1, <2>3, <2>4, <2>6, <2>7, <2>8 DEF DistinctInv
<1>7. CASE FindTimeout
  BY <1>7 DEF FindTimeout, DistinctInv
<1>8. ASSUME NEW n \in 0..MaxPacketNum, ReadRest(n) PROVE DistinctInv'
  <2>1. UNCHANGED <<net, sent>>
    BY <1>8 DEF ReadRest
  <2>2. /\ n <= Len(queue) /\ Len(queue') = Len(queue) - n
        /\ \A i \in 1..Len(queue') :
             i + n \in 1..Len(queue) /\ queue'[i] = queue[i + n]
        /\ \A i \in 0 .. MaxPacketNum - 1 :
              buf'[i] = IF i \in 1..n THEN queue[i] ELSE buf[i]
    BY <1>8, AfterReadRest
  <2>3. \A i, k \in 1..Len(queue') : i # k => queue'[i] # queue'[k]
    <3> SUFFICES ASSUME NEW i \in 1..Len(queue'), NEW k \in 1..Len(queue'), i # k
                 PROVE  queue'[i] # queue'[k]
      OBVIOUS
    <3>1. i + n # k + n
      BY <1>1, <2>2
    <3> QED
      BY <2>2, <3>1 DEF DistinctInv
  <2>4. \A i \in 1..Len(queue') : queue'[i] <= sent' /\ queue'[i] \notin net'
    BY <1>1, <2>1, <2>2 DEF DistinctInv
  <2>5. \A i \in 0 .. MaxPacketNum - 1 : buf'[i] <= sent' /\ buf'[i] \notin net'
    BY <1>1, <2>1, <2>2, SMTT(30) DEF DistinctInv
  <2>6. \A i \in 0 .. MaxPacketNum - 1, k \in 1..Len(queue') : buf'[i] # queue'[k]
    BY <1>1, <2>2, SMTT(30) DEF DistinctInv
  <2>7. \A i, k \in 0 .. MaxPacketNum - 1 : i # k /\ buf'[i] # 0 => buf'[i] # buf'[k]
    BY <1>1, <2>2 DEF DistinctInv
  <2> QED
    BY <1>1, <2>1, <2>3, <2>4, <2>5, <2>6, <2>7 DEF DistinctInv
<1> QED
  BY <1>2, <1>3, <1>4, <1>5, <1>6, <1>7, <1>8 DEF Next

\* No step puts a packet before an earlier one, as long as they arrive in
\* order; dropping the oldest and a short read keep that order.
LEMMA OrderStep ==
  ASSUME TypeOK, FrameInv, DistinctInv, OrderInv, Next
  PROVE  OrderInv'
<1>1. /\ sent \in Nat /\ Len(queue) \in Nat /\ net \subseteq 1..MaxSeq /\ MaxSeq \in Nat
      /\ MaxPacketNum \in Nat \ {0} /\ last \in Disorder..MaxSeq /\ newest \in 0..MaxSeq
      /\ \A i \in 1..Len(queue) : queue[i] \in 1..MaxSeq
      /\ \A i \in 0 .. MaxPacketNum - 1 : buf[i] \in 0..MaxSeq
  <2>1. queue \in Seq(1..MaxSeq)
    BY DEF TypeOK
  <2>2. Len(queue) \in Nat /\ \A i \in 1..Len(queue) : queue[i] \in 1..MaxSeq
    BY <2>1, LenProperties, ElementOfSeq
  <2>3. \A i \in 0 .. MaxPacketNum - 1 : buf[i] \in 0..MaxSeq
    BY DEF TypeOK
  <2> QED
    BY <2>2, <2>3, StreamAssumption, BufferFacts DEF TypeOK
<1> USE DEF Disorder
<1>2. CASE Send
  BY <1>1, <1>2 DEF Send, OrderInv, DistinctInv, reader
<1>3. ASSUME NEW seq \in net, Lose(seq) PROVE OrderInv'
  BY <1>1, <1>3 DEF Lose, OrderInv, reader
<1>4. ASSUME NEW seq \in net, ReceivePacket(seq) PROVE OrderInv'
  <2>1. PICK d \in 0..1 :
           /\ d <= Len(queue) /\ Len(queue') = Len(queue) - d + 1
           /\ \A i \in 1..Len(queue') :
                \/ i = Len(queue') /\ queue'[i] = seq
                \/ /\ i < Len(queue') /\ i + d \in 1..Len(queue)
                   /\ queue'[i] = queue[i + d]
    BY <1>4, QueueAfterReceive
  <2>2. net' = net \ {seq} /\ UNCHANGED <<buf, sent, newest, rpc, outcome>>
    BY <1>4 DEF ReceivePacket, reader
  <2>3. last' # Disorder => last' = seq /\ last \in 0..seq
    BY <1>4 DEF ReceivePacket
  <2>4. SUFFICES ASSUME last' # Disorder PROVE OrderInv'
    BY DEF OrderInv
  <2>5. last' = seq /\ last \in Nat /\ last < seq /\ seq <= sent
    BY <1>1, <2>3, <2>4 DEF OrderInv, DistinctInv
  <2>6. \A i, k \in 1..Len(queue') : i < k => queue'[i] < queue'[k]
    BY <1>1, <2>1, <2>5, SMTT(30) DEF OrderInv
  <2>7. last # Disorder /\ seq \in 1..MaxSeq
    BY <1>1, <2>5
  <2>8. \A i \in 1..Len(queue') :
          queue'[i] = seq \/ \E h \in 1..Len(queue) : queue'[i] = queue[h]
    BY <2>1
  <2>9. newest < seq /\ \A h \in 1..Len(queue) : newest < queue[h] /\ queue[h] <= seq
    BY <1>1, <2>5, <2>7 DEF OrderInv
  <2>10. \A i \in 1..Len(queue') : newest' < queue'[i] /\ queue'[i] <= last'
    BY <2>2, <2>5, <2>7, <2>8, <2>9
  <2>11. \A i \in 0 .. MaxPacketNum - 1 :
           buf[i] < seq /\ \A h \in 1..Len(queue) : buf[i] < queue[h]
    BY <1>1, <2>5, <2>7 DEF OrderInv
  <2>12. \A i \in 0 .. MaxPacketNum - 1 :
          buf'[i] <= last' /\ \A k \in 1..Len(queue') : buf'[i] < queue'[k]
    BY <1>1, <2>2, <2>5, <2>7, <2>8, <2>11
  <2> QED
    BY <1>1, <2>2, <2>5, <2>6, <2>10, <2>12 DEF OrderInv
<1>5. CASE GetFrames
  <2>1. \A i \in 0 .. MaxPacketNum - 1 : buf'[i] = 0 \/ buf' = buf
    BY <1>5 DEF GetFrames, Empty
  <2>2. UNCHANGED <<net, queue, sent, last>> /\ rpc' = "find" /\ outcome' = "none"
    BY <1>5 DEF GetFrames
  <2>3. CASE outcome = "frame"
    <3>1. remain \in 0..Frame-1
      BY <2>3, RemainRange DEF FrameInv
    <3>2. Used(buf, remain) \subseteq {buf[i] : i \in 0 .. MaxPacketNum - 1}
      <4>1. PacketNum(remain) \in 0..MaxPacketNum
        BY <3>1, PacketNumFacts
      <4> QED
        BY <1>1, <4>1 DEF Used, Kept
    <3>3. newest' = Max(Used(buf, remain) \cup {newest})
      BY <1>5, <2>3 DEF GetFrames
    <3>4. Used(buf, remain) \cup {newest} \subseteq 0..MaxSeq
      BY <1>1, <3>2
    <3>5. newest' = newest \/ \E i \in 0 .. MaxPacketNum - 1 : newest' = buf[i]
      <4> DEFINE S == Used(buf, remain) \cup {newest}
      <4>1. S # {} /\ S \subseteq 0..MaxSeq /\ MaxSeq \in Nat
        BY <1>1, <3>4
      <4>2. \A x \in S : x = newest \/ \E i \in 0 .. MaxPacketNum - 1 : x = buf[i]
        BY <3>2
      <4>3. newest' = Max(S)
        BY <3>3
      <4> HIDE DEF S
      <4>4. Max(S) \in S
        BY <4>1, MaxFacts
      <4> QED
        BY <4>2, <4>3, <4>4
    <3> QED
      BY <1>1, <2>1, <2>2, <3>5 DEF OrderInv
  <2>4. CASE outcome # "frame"
    <3>1. newest' = newest
      BY <1>5, <2>4 DEF GetFrames
    <3> QED
      BY <1>1, <2>1, <2>2, <3>1 DEF OrderInv
  <2> QED
    BY <2>3, <2>4
<1>6. CASE FindStart
  <2>1. UNCHANGED <<net, sent, last, newest>>
    BY <1>6 DEF FindStart
  <2>2. /\ Len(queue) \in Nat \ {0} /\ Len(queue') = Len(queue) - 1
        /\ buf'[0] = queue[1]
        /\ \A i \in 1..Len(queue') :
             i + 1 \in 1..Len(queue) /\ queue'[i] = queue[i + 1]
        /\ \A i \in 1 .. MaxPacketNum - 1 : buf'[i] = buf[i]
    BY <1>6, AfterFindStart
  <2> SUFFICES ASSUME last # Disorder PROVE OrderInv'
    BY <2>1 DEF OrderInv
  <2>3. \A i, k \in 1..Len(queue') : i < k => queue'[i] < queue'[k]
    <3> SUFFICES ASSUME NEW i \in 1..Len(queue'), NEW k \in 1..Len(queue'), i < k
                 PROVE  queue'[i] < queue'[k]
      OBVIOUS
    <3>1. i + 1 < k + 1
      BY <1>1, <2>2
    <3> QED
      BY <2>2, <3>1 DEF OrderInv
  <2>4. \A i \in 1..Len(queue') : newest' < queue'[i] /\ queue'[i] <= last'
    BY <1>1, <2>1, <2>2 DEF OrderInv
  <2>5. \A i \in 0 .. MaxPacketNum - 1 :
          \/ i = 0 /\ buf'[i] = queue[1]
          \/ i \in 1 .. MaxPacketNum - 1 /\ buf'[i] = buf[i]
    BY <1>1, <2>2
  <2>6. 1 \in 1..Len(queue) /\ \A k \in 1..Len(queue') : queue[1] < queue'[k]
    BY <1>1, <2>2, SMTT(30) DEF OrderInv
  <2>7. \A i \in 0 .. MaxPacketNum - 1 :
          buf'[i] <= last' /\ \A k \in 1..Len(queue') : buf'[i] < queue'[k]
    BY <1>1, <2>1, <2>2, <2>5, <2>6 DEF OrderInv
  <2>8. newest' < buf'[0]
    BY <2>1, <2>2, <2>6 DEF OrderInv
  <2> QED
    BY <2>1, <2>3, <2>4, <2>7, <2>8 DEF OrderInv
<1>7. CASE FindTimeout
  BY <1>7 DEF FindTimeout, OrderInv
<1>8. ASSUME NEW n \in 0..MaxPacketNum, ReadRest(n) PROVE OrderInv'
  <2>1. UNCHANGED <<net, sent, last, newest>> /\ rpc = "rest"
    BY <1>8 DEF ReadRest
  <2>2. buf'[0] = buf[0]
    BY <1>1, <1>8, AfterReadRest
  <2>3. /\ n <= Len(queue) /\ Len(queue') = Len(queue) - n
        /\ \A i \in 1..Len(queue') :
             i + n \in 1..Len(queue) /\ queue'[i] = queue[i + n]
        /\ \A i \in 0 .. MaxPacketNum - 1 :
              buf'[i] = IF i \in 1..n THEN queue[i] ELSE buf[i]
    BY <1>8, AfterReadRest
  <2> SUFFICES ASSUME last # Disorder PROVE OrderInv'
    BY <2>1 DEF OrderInv
  <2>4. \A i, k \in 1..Len(queue') : i < k => queue'[i] < queue'[k]
    <3> SUFFICES ASSUME NEW i \in 1..Len(queue'), NEW k \in 1..Len(queue'), i < k
                 PROVE  queue'[i] < queue'[k]
      OBVIOUS
    <3>1. i + n < k + n
      BY <1>1, <2>2
    <3> QED
      BY <2>3, <3>1 DEF OrderInv
  <2>5. \A i \in 1..Len(queue') : newest' < queue'[i] /\ queue'[i] <= last'
    BY <1>1, <2>1, <2>3 DEF OrderInv
  <2>6. \A i \in 0 .. MaxPacketNum - 1 :
          buf'[i] <= last' /\ \A k \in 1..Len(queue') : buf'[i] < queue'[k]
    <3> SUFFICES ASSUME NEW i \in 0 .. MaxPacketNum - 1
                 PROVE  buf'[i] <= last' /\ \A k \in 1..Len(queue') : buf'[i] < queue'[k]
      OBVIOUS
    <3>1. CASE i \in 1..n
      <4>1. buf'[i] = queue[i] /\ i \in 1..Len(queue)
        BY <1>1, <2>3, <3>1
      <4>2. ASSUME NEW k \in 1..Len(queue') PROVE i < k + n
        BY <1>1, <2>3, <3>1
      <4> QED
        BY <2>1, <2>3, <4>1, <4>2 DEF OrderInv
    <3>2. CASE i \notin 1..n
      BY <2>1, <2>3, <3>2 DEF OrderInv
    <3> QED
      BY <3>1, <3>2
  <2> QED
    BY <2>1, <2>2, <2>4, <2>5, <2>6 DEF OrderInv
<1> QED
  BY <1>2, <1>3, <1>4, <1>5, <1>6, <1>7, <1>8 DEF Next

\* The invariant is inductive.
LEMMA NextIInv == IInv /\ [Next]_vars => IInv'
<1> SUFFICES ASSUME IInv, [Next]_vars PROVE IInv'
  OBVIOUS
<1>1. CASE Next
  BY <1>1, TypeStep, FrameStep, DistinctStep, OrderStep DEF IInv
<1>2. CASE UNCHANGED vars
  BY <1>2 DEF vars, IInv, TypeOK, FrameInv, DistinctInv, OrderInv
<1> QED
  BY <1>1, <1>2

\* What the types say of the numbers that SkipInv is about.
LEMMA SkipTypes ==
  ASSUME TypeOK
  PROVE  /\ Len(queue) \in Nat /\ MaxSeq \in Nat /\ last \in Disorder..MaxSeq
         /\ \A i \in 1..Len(queue) : queue[i] \in 1..MaxSeq
         /\ buf[0] \in 0..MaxSeq /\ previous \in Int /\ remain \in Int /\ expected \in Nat
         /\ Payload \in Nat \ {0} /\ Frame \in Nat \ {0} /\ FrameNum \in Nat \ {0}
<1>1. queue \in Seq(1..MaxSeq) /\ buf \in [0 .. MaxPacketNum - 1 -> 0..MaxSeq]
  BY DEF TypeOK
<1>2. Len(queue) \in Nat /\ \A i \in 1..Len(queue) : queue[i] \in 1..MaxSeq
  BY <1>1, LenProperties, ElementOfSeq
<1>3. buf[0] \in 0..MaxSeq
  BY <1>1, BufferFacts
<1> QED
  BY <1>2, <1>3, PacketAssumption, StreamAssumption, BufferFacts DEF TypeOK

\* The latest boundary is one, when the result before began at one.
LEMMA LatestBoundary ==
  ASSUME TypeOK, previous >= 0, previous % Frame = 0
  PROVE  Latest \in Nat /\ Latest % Frame = 0 /\ Latest = previous + FrameNum * Frame + Frame
<1>1. previous \in Nat /\ Frame \in Nat \ {0} /\ FrameNum \in Nat \ {0}
  BY SkipTypes
<1>2. PICK q \in Int, r \in 0..Frame-1 : previous = (Frame * q) + r /\ previous % Frame = r
  BY <1>1, ModSplit
<1>3. PICK k \in Int : k = q + FrameNum + 1
  BY <1>1
<1>4. Latest = (Frame * k) + 0 /\ Latest = previous + FrameNum * Frame + Frame
  BY <1>1, <1>2, <1>3 DEF Latest
<1>5. Latest \in Nat
  BY <1>1, <1>4
<1>6. Latest % Frame = 0
  <2>1. Latest = Frame * k
    BY <1>1, <1>3, <1>4
  <2> QED
    BY <1>1, <1>3, <2>1, ModMultiple
<1> QED
  BY <1>4, <1>5, <1>6

LEMMA SkipInit == Init => SkipInv
  BY EmptySeq DEF Init, SkipInv, Disorder

\* A packet arrives behind the last one, or whole ends.
LEMMA SkipReceive ==
  ASSUME TypeOK, SkipInv, NEW seq \in net, ReceivePacket(seq)
  PROVE  SkipInv'
<1> SUFFICES ASSUME whole' PROVE SkipInv'
  BY DEF SkipInv
<1>1. /\ whole /\ seq = last + 1 /\ queue' = Append(queue, seq)
      /\ UNCHANGED <<rpc, buf, remain, expected, outcome, previous>>
      /\ last' = IF last \in 0..seq THEN seq ELSE Disorder
  BY DEF ReceivePacket, reader
<1>2. seq \in 1..MaxSeq /\ queue \in Seq(1..MaxSeq)
  BY DEF TypeOK
<1>3. /\ Len(queue') = Len(queue) + 1 /\ queue'[Len(queue) + 1] = seq
      /\ \A i \in 1..Len(queue) : queue'[i] = queue[i]
  BY <1>1, <1>2, AppendProperties
<1>4. Len(queue) \in Nat /\ last \in Nat /\ last' = seq
  BY <1>1, <1>2, SkipTypes, SMTT(30) DEF Disorder, SkipInv
<1>5. Front' = Front
  BY <1>1, <1>3, <1>4 DEF Front
<1>6. \A i \in 1..Len(queue') : queue'[i] = last' - Len(queue') + i
  BY <1>1, <1>3, <1>4 DEF SkipInv
<1>7. last' # Disorder
  BY <1>2, <1>4 DEF Disorder
<1> QED
  BY <1>1, <1>5, <1>6, <1>7 DEF SkipInv, Latest, Start

\* A call begins where the one before stopped reading.
LEMMA SkipGet ==
  ASSUME NoWrap, IInv, SkipInv, GetFrames
  PROVE  SkipInv'
<1> SUFFICES ASSUME whole' PROVE SkipInv'
  BY DEF SkipInv
<1>1. /\ whole /\ rpc = "idle" /\ rpc' = "find" /\ outcome' = "none"
      /\ UNCHANGED <<queue, last>>
      /\ previous' = IF outcome = "frame" THEN StartOf(buf, remain) ELSE previous
  BY DEF GetFrames
<1>2. Front' = Front
  BY <1>1 DEF Front
<1>3. CASE outcome # "frame"
  <2>1. ~(previous >= 0) /\ previous' = previous
    BY <1>1, <1>3, SkipTypes DEF SkipInv, IInv
  <2> QED
    BY <1>1, <1>2, <2>1 DEF SkipInv
<1>4. CASE outcome = "frame"
  <2>1. /\ buf[0] \in 1..MaxSeq /\ remain = Remain(buf[0]) /\ expected = PacketNum(remain)
        /\ Front = buf[0] + expected /\ previous' = StartOf(buf, remain)
    BY <1>1, <1>4 DEF IInv, FrameInv, SkipInv
  <2>2. TypeOK
    BY DEF IInv
  <2>3. buf[0] * Payload < Modulus
    BY <2>1, NoWrap, PacketAssumption, StreamAssumption DEF NoWrap
  <2>4. remain \in 0..Frame-1 /\ ((buf[0] - 1) * Payload + remain) % Frame = 0
    BY <2>1, <2>3, RemainFacts
  <2>5. /\ PacketNum(remain) * Payload < remain + FrameNum * Frame + Payload
        /\ PacketNum(remain) \in Nat
    BY <2>4, PacketsCover
  <2>6. PICK p \in Nat : p = (buf[0] - 1) * Payload
    BY <2>1, PacketAssumption
  <2>7. PICK e \in Nat : e = expected
    BY <2>1, <2>5
  <2>8. previous' = p + remain /\ previous' >= 0 /\ previous' % Frame = 0
    BY <2>1, <2>4, <2>6 DEF StartOf
  <2>9. (Front - 1) * Payload = p + e * Payload
    BY <2>1, <2>6, <2>7, PacketAssumption
  <2>10. (FrameNum + 1) * Frame = FrameNum * Frame + Frame /\ FrameNum * Frame \in Nat
         /\ Payload \in Nat /\ Frame \in Nat /\ Payload <= Frame
    BY PacketAssumption
  <2>11. e * Payload < remain + FrameNum * Frame + Payload /\ e * Payload \in Nat
    BY <2>1, <2>5, <2>7, <2>10
  <2>12. (Front - 1) * Payload <= p + remain + (FrameNum + 1) * Frame
    BY <2>4, <2>6, <2>9, <2>10, <2>11
  <2>13. (Front' - 1) * Payload <= Latest'
    BY <1>2, <2>8, <2>12 DEF Latest
  <2> QED
    BY <1>1, <2>8, <2>13 DEF SkipInv
<1> QED
  BY <1>3, <1>4

\* A packet is taken out: it starts a frame that is not too late, or it has no
\* frame boundary, so that the latest one is ahead.
LEMMA SkipFind ==
  ASSUME NoWrap, IInv, SkipInv, FindStart
  PROVE  SkipInv'
<1> SUFFICES ASSUME whole' PROVE SkipInv'
  BY DEF SkipInv
<1>0. TypeOK
  BY DEF IInv
<1>1. /\ whole /\ rpc = "find" /\ outcome # "frame" /\ UNCHANGED <<last, outcome, previous>>
      /\ remain' = Remain(Head(queue))
      /\ StartsFrame(Head(queue)) => rpc' = "rest"
      /\ ~StartsFrame(Head(queue)) => rpc' = "find"
  BY DEF FindStart, IInv, FrameInv
<1>2. /\ Len(queue) \in Nat \ {0} /\ Len(queue') = Len(queue) - 1
      /\ \A i \in 1..Len(queue') : i + 1 \in 1..Len(queue) /\ queue'[i] = queue[i + 1]
      /\ buf'[0] = queue[1] /\ last \in Int
  BY <1>0, AfterFindStart, SkipTypes DEF Disorder
<1>3. Head(queue) = queue[1] /\ queue[1] \in 1..MaxSeq /\ queue[1] = Front
  <2>1. queue \in Seq(1..MaxSeq) /\ queue # << >> /\ 1 \in 1..Len(queue)
    BY <1>0, <1>2 DEF TypeOK, FindStart
  <2>2. Head(queue) = queue[1] /\ queue[1] \in 1..MaxSeq
    <3>1. Head(queue) = queue[1]
      BY <2>1, HeadTailProperties
    <3>2. queue[1] \in 1..MaxSeq
      BY <2>1, ElementOfSeq
    <3> QED
      BY <3>1, <3>2
  <2>3. queue[1] = Front
    BY <1>1, <1>2, <2>1 DEF SkipInv, Front
  <2> QED
    BY <2>2, <2>3
<1>4. Front' = Front + 1 /\ last' # Disorder
      /\ \A i \in 1..Len(queue') : queue'[i] = last' - Len(queue') + i
  BY <1>1, <1>2 DEF SkipInv, Front
<1>5. CASE ~(previous >= 0)
  BY <1>1, <1>2, <1>3, <1>4, <1>5 DEF SkipInv
<1>6. CASE previous >= 0
  <2> DEFINE seq == queue[1]
  <2>1. previous % Frame = 0 /\ (seq - 1) * Payload <= Latest
    BY <1>1, <1>3, <1>6 DEF SkipInv
  <2>2. Latest \in Nat /\ Latest % Frame = 0 /\ Latest' = Latest
    BY <1>0, <1>1, <1>6, <2>1, LatestBoundary DEF Latest
  <2>3. seq \in Nat \ {0} /\ seq * Payload < Modulus
    BY <1>3, NoWrap, PacketAssumption, StreamAssumption DEF NoWrap
  <2>4. /\ (seq - 1) * Payload + Remain(seq) <= Latest
        /\ ~StartsFrame(seq) => seq * Payload <= Latest
    BY <2>1, <2>2, <2>3, BoundaryAhead
  <2>5. Start' = (seq - 1) * Payload + Remain(seq)
    BY <1>1, <1>2, <1>3 DEF Start, StartOf
  <2>6. (Front' - 1) * Payload = seq * Payload
    BY <1>3, <1>4
  <2> QED
    BY <1>1, <1>2, <1>3, <1>4, <2>1, <2>2, <2>4, <2>5, <2>6 DEF SkipInv
<1> QED
  BY <1>5, <1>6

\* The packets of a result are read, all of them while whole.
LEMMA SkipRead ==
  ASSUME IInv, SkipInv, NEW n \in 0 .. MaxPacketNum, ReadRest(n)
  PROVE  SkipInv'
<1> SUFFICES ASSUME whole' PROVE SkipInv'
  BY DEF SkipInv
<1>0. TypeOK
  BY DEF IInv
<1>1. /\ whole /\ n = expected - 1 /\ rpc = "rest" /\ rpc' = "idle" /\ outcome' = "frame"
      /\ UNCHANGED <<last, remain, expected, previous>>
  BY DEF ReadRest
<1>2. /\ Len(queue) \in Nat /\ n <= Len(queue) /\ Len(queue') = Len(queue) - n
      /\ \A i \in 1..Len(queue') : i + n \in 1..Len(queue) /\ queue'[i] = queue[i + n]
      /\ buf'[0] = buf[0] /\ last \in Int /\ n \in Nat /\ expected \in Nat
  BY <1>0, AfterReadRest, BufferFacts, SkipTypes DEF Disorder
<1>3. Front = buf[0] + 1 /\ Front' = Front + n /\ last' # Disorder /\ buf[0] \in Nat
  BY <1>0, <1>1, <1>2, SkipTypes DEF SkipInv, Front
<1>4. \A i \in 1..Len(queue') : queue'[i] = last' - Len(queue') + i
  BY <1>1, <1>2 DEF SkipInv
<1>5. Front' = buf'[0] + expected'
  BY <1>1, <1>2, <1>3
<1>6. Start' = Start /\ Latest' = Latest
  BY <1>1, <1>2 DEF Start, StartOf, Latest
<1> QED
  BY <1>1, <1>3, <1>4, <1>5, <1>6 DEF SkipInv

LEMMA SkipNext ==
  ASSUME NoWrap, IInv, SkipInv, [Next]_vars
  PROVE  SkipInv'
<1>0. TypeOK
  BY DEF IInv
<1>1. ASSUME UNCHANGED <<queue, reader, whole, last>> PROVE SkipInv'
  BY <1>1 DEF SkipInv, Front, Latest, Start, reader
<1>2. CASE Send \/ UNCHANGED vars
  BY <1>1, <1>2 DEF Send, vars, reader
<1>3. ASSUME NEW seq \in net, Lose(seq) PROVE SkipInv'
  BY <1>3 DEF Lose, SkipInv
<1>4. ASSUME NEW seq \in net, ReceivePacket(seq) PROVE SkipInv'
  BY <1>0, <1>4, SkipReceive
<1>5. CASE GetFrames
  BY <1>5, SkipGet
<1>6. CASE FindStart
  BY <1>6, SkipFind
<1>7. CASE FindTimeout
  BY <1>7 DEF FindTimeout, SkipInv
<1>8. ASSUME NEW n \in 0 .. MaxPacketNum, ReadRest(n) PROVE SkipInv'
  BY <1>8, SkipRead
<1> QED
  BY <1>2, <1>3, <1>4, <1>5, <1>6, <1>7, <1>8 DEF Next

-----------------------------------------------------------------------------
(***************************************************************************)
(* The inductive invariant of the capture path holds at all times, with or *)
(* without a wrap of the counters.                                         *)
(***************************************************************************)
THEOREM Invariance == Spec => []IInv
  BY InitIInv, NextIInv, PTL DEF Spec

(***************************************************************************)
(* The types of the capture path's state (main.cpp:297).                   *)
(***************************************************************************)
THEOREM TypeCorrect == Spec => []TypeOK
<1>1. IInv => TypeOK
  BY DEF IInv
<1> QED
  BY <1>1, Invariance, PTL

(***************************************************************************)
(* Frames begin at a frame boundary of the stream (main.cpp:308), for      *)
(* every size of packet, frame, buffer and queue, until a counter wraps.   *)
(***************************************************************************)
THEOREM FramesAligned ==
  ASSUME NoWrap
  PROVE  Spec => []Aligned
<1>1. IInv => Aligned
  <2> SUFFICES ASSUME IInv, outcome = "frame" PROVE Start % Frame = 0
    BY DEF Aligned
  <2>1. buf[0] \in 1..MaxSeq /\ remain = Remain(buf[0])
    BY DEF IInv, FrameInv
  <2>2. buf[0] * Payload < Modulus
    BY <2>1, NoWrap, PacketAssumption, StreamAssumption DEF NoWrap
  <2> QED
    BY <2>1, <2>2, RemainFacts DEF Start, StartOf
<1> QED
  BY <1>1, Invariance, PTL

(***************************************************************************)
(* Behind the first packet's share, no wrong sample is in a frame returned *)
(* (main.cpp:173), whatever is lost, overtaken, dropped from the queue     *)
(* or left in the buffer.                                                  *)
(***************************************************************************)
THEOREM TailIsExact ==
  ASSUME NoWrap
  PROVE  Spec => []TailExact
<1>1. IInv => TailExact
  <2> SUFFICES ASSUME IInv, outcome = "frame",
                      NEW j \in Payload - remain .. FrameNum * Frame - 1
               PROVE  Result[j] \in {Start + j, Unset}
    BY DEF TailExact
  <2>1. buf[0] \in 1..MaxSeq /\ remain = Remain(buf[0]) /\ StartsFrame(buf[0])
    BY DEF IInv, FrameInv
  <2>2. remain \in 0..Frame-1 /\ remain \in 0..Payload-1
    BY <2>1, RemainRange, PacketAssumption DEF StartsFrame
  <2>3. buf \in [0 .. MaxPacketNum - 1 -> 0..MaxSeq]
    BY DEF IInv, TypeOK
  <2>4. SortedWord(buf, remain, j) \in {StartOf(buf, remain) + j, Unset}
    <3>1. MaxSeq \in Nat /\ MaxSeq + MaxPacketNum < Modulus /\ remain < Frame
      BY <2>2, NoWrap, PacketAssumption, StreamAssumption DEF NoWrap
    <3> QED
      BY <2>1, <2>2, <2>3, <3>1, SortedExact
  <2>5. j \in 0 .. FrameNum * Frame - 1
    BY <2>2, PacketAssumption
  <2> QED
    BY <2>4, <2>5 DEF Result, Start, Sorted
<1> QED
  BY <1>1, Invariance, PTL

(***************************************************************************)
(* While packets arrive in order none is sorted into two results, although *)
(* the buffer is not cleared between calls (main.cpp:299).                 *)
(***************************************************************************)
THEOREM NonePacketTwice ==
  ASSUME NoWrap
  PROVE  Spec => []NoPacketTwice
<1>1. IInv => NoPacketTwice
  <2> SUFFICES ASSUME IInv, outcome = "frame", last # Disorder, NEW seq \in Used(buf, remain)
               PROVE  seq > newest
    BY DEF NoPacketTwice
  <2>1. /\ newest < buf[0] /\ newest \in Nat /\ buf[0] \in Nat
        /\ buf \in [0 .. MaxPacketNum - 1 -> 0..MaxSeq]
        /\ MaxSeq \in Nat /\ MaxSeq + MaxPacketNum < Modulus
    BY NoWrap, StreamAssumption DEF IInv, OrderInv, FrameInv, TypeOK, NoWrap
  <2>2. remain \in 0..Frame-1
    BY RemainRange DEF IInv, FrameInv
  <2>3. \A i \in Kept(buf, remain) : buf[i] \in Int /\ buf[i] > buf[0]
    BY <2>1, <2>2, KeptAhead
  <2> QED
    BY <2>1, <2>3 DEF Used
<1> QED
  BY <1>1, Invariance, PTL

(***************************************************************************)
(* receivedPacketNum equal to expectedPacketNum: no packet's share of the  *)
(* frames is missing, so adc.py's comparison of the two tells every loss.  *)
(***************************************************************************)
THEOREM CountsTell ==
  ASSUME NoWrap
  PROVE  Spec => []CountTellsHoles
<1>1. IInv => CountTellsHoles
  <2> SUFFICES ASSUME IInv, outcome = "frame", Received(buf, remain) = expected,
                      NEW j \in Payload - remain .. FrameNum * Frame - 1
               PROVE  Result[j] # Unset
    BY DEF CountTellsHoles
  <2>1. /\ buf[0] \in 1..MaxSeq /\ remain = Remain(buf[0])
        /\ expected = PacketNum(remain)
    BY DEF IInv, FrameInv
  <2>2. remain \in 0..Frame-1 /\ remain \in 0..Payload-1
    BY <2>1, RemainRange, PacketAssumption DEF IInv, FrameInv, StartsFrame
  <2>3. /\ buf \in [0 .. MaxPacketNum - 1 -> 0..MaxSeq]
        /\ MaxSeq \in Nat /\ MaxSeq + MaxPacketNum < Modulus
    BY NoWrap, StreamAssumption DEF IInv, TypeOK, NoWrap
  <2>4. PacketNum(remain) \in 0..MaxPacketNum /\ MaxPacketNum \in Nat
    BY <2>2, PacketNumFacts
  <2>5. PICK N \in Nat : N = PacketNum(remain) - 1 /\ N < MaxPacketNum
    <3>1. Cardinality(Kept(buf, remain)) \in Nat
      <4>1. PICK p \in Int : p = PacketNum(remain) - 1
        BY <2>4
      <4>2. IsFiniteSet(1..p)
        <5>1. 1 \in Int /\ p \in Int
          OBVIOUS
        <5> QED
          BY <5>1, FS_Interval, Zenon
      <4>3. Kept(buf, remain) \in SUBSET (1..p)
        BY <4>1 DEF Kept
      <4> QED
        BY <4>2, <4>3, FS_Subset, FS_CardinalityType
    <3> QED
      BY <2>1, <2>4, <3>1 DEF Received
  <2>6. Kept(buf, remain) = 1..N
    <3>1. IsFiniteSet(1..N) /\ Cardinality(1..N) = N
      BY FS_Interval
    <3>2. Kept(buf, remain) \in SUBSET (1..N)
      BY <2>5 DEF Kept
    <3>3. Cardinality(Kept(buf, remain)) = N
      <4>1. Cardinality(Kept(buf, remain)) \in Nat
        BY <3>1, <3>2, FS_Subset, FS_CardinalityType
      <4> QED
        BY <2>1, <2>4, <2>5, <4>1 DEF Received
    <3> QED
      BY <3>1, <3>2, <3>3, FS_Subset
  <2>7. \A i \in 1..N : Index(buf, i) \in 1..N /\ buf[i] = buf[0] + Index(buf, i)
    BY <2>2, <2>3, <2>5, <2>6, KeptAhead
  <2>8. \A i, k \in 1..N : i # k => Index(buf, i) # Index(buf, k)
    <3> SUFFICES ASSUME NEW i \in 1..N, NEW k \in 1..N, i # k
                 PROVE  Index(buf, i) # Index(buf, k)
      OBVIOUS
    <3>1. i \in 0 .. MaxPacketNum - 1 /\ k \in 0 .. MaxPacketNum - 1
      BY <2>4, <2>5
    <3>2. buf[i] # 0
      BY <2>1, <2>7
    <3>3. buf[i] # buf[k]
      BY <3>1, <3>2 DEF IInv, DistinctInv
    <3> QED
      BY <2>7, <3>3
  <2>9. \A x \in 1..N : \E i \in 1..N : Index(buf, i) = x
    <3> DEFINE f == [i \in 1..N |-> Index(buf, i)]
    <3>1. f \in Injection(1..N, 1..N)
      BY <2>7, <2>8 DEF Injection, IsInjective
    <3>2. IsFiniteSet(1..N)
      BY FS_Interval
    <3>3. f \in Surjection(1..N, 1..N)
      <4> HIDE DEF f
      <4> QED
        BY <3>1, <3>2, FS_Injection
    <3> QED
      BY <3>3 DEF Surjection
  <2>10. (j - (Payload - remain)) \div Payload + 1 \in 1..N
    BY <2>2, <2>5, IndexInRange
  <2>11. PICK i \in Kept(buf, remain) :
           Index(buf, i) = (j - (Payload - remain)) \div Payload + 1
    BY <2>6, <2>9, <2>10
  <2>12. SortedWord(buf, remain, j) = StartOf(buf, remain) + j
    <3>1. remain < Frame
      BY <2>2, PacketAssumption
    <3> QED
      BY <2>1, <2>2, <2>3, <2>11, <3>1, SortedExact
  <2>13. StartOf(buf, remain) + j \in Nat /\ j \in 0 .. FrameNum * Frame - 1
    <3>1. (buf[0] - 1) * Payload \in Nat
      BY <2>1, PacketAssumption, StreamAssumption
    <3>2. j \in 0 .. FrameNum * Frame - 1
      BY <2>2, PacketAssumption
    <3> QED
      BY <2>2, <3>1, <3>2 DEF StartOf
  <2> QED
    BY <2>12, <2>13 DEF Result, Sorted, Unset
<1> QED
  BY <1>1, Invariance, PTL

(***************************************************************************)
(* While packets come one after the other and none is dropped, at most one *)
(* frame is missing between successive results (main.cpp:308), for every   *)
(* size of packet and frame: the frames need not fit the packets.          *)
(***************************************************************************)
THEOREM OneSkippedAtMost ==
  ASSUME NoWrap
  PROVE  Spec => []AtMostOneSkipped
<1>1. Init => IInv /\ SkipInv
  BY InitIInv, SkipInit
<1>2. IInv /\ SkipInv /\ [Next]_vars => IInv' /\ SkipInv'
  BY NoWrap, NextIInv, SkipNext
<1>3. SkipInv => AtMostOneSkipped
  BY DEF SkipInv, AtMostOneSkipped, Latest
<1> QED
  BY <1>1, <1>2, <1>3, PTL DEF Spec
=============================================================================
