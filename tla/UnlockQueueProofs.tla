-------------------------- MODULE UnlockQueueProofs --------------------------
(***************************************************************************)
(* The safety properties of UnlockQueue, for every ring size, every length *)
(* of Put and Get_wait and every bound: IInv is inductive.                 *)
(***************************************************************************)
EXTENDS UnlockQueue, ModuloLemmas

\* Converting the counters' difference to uint32_t twice, as the test of Put
\* does, yields the room in the ring as long as _out is not too far ahead.
LEMMA RoomIsRoom ==
  ASSUME TypeOK, RoomInv, LeadInv
  PROVE  Room = Size - (in - out)
<1> USE SizeAssumption
<1>1. PICK d \in Int : d = in - out
  BY DEF TypeOK
<1>2. d <= Size /\ -(MaxLead + MaxGet + MaxPut) <= d
  BY <1>1 DEF TypeOK, RoomInv, LeadInv, Filling
<1>3. CASE d >= 0
  <2>1. U(d) = d
    BY <1>2, <1>3, ModSmall DEF U
  <2>2. U(Size - d) = Size - d
    BY <1>2, <1>3, ModSmall DEF U
  <2> QED
    BY <1>1, <2>1, <2>2 DEF Room
<1>4. CASE d < 0
  <2>1. U(d) = d + Modulus
    BY <1>2, <1>4, ModNegative DEF U
  <2>2. PICK e \in Int : e = Size - (d + Modulus)
    OBVIOUS
  <2>3. -Modulus <= e /\ e < 0
    BY <1>2, <1>4, <2>2
  <2>4. U(e) = e + Modulus
    BY <2>3, ModNegative DEF U
  <2> QED
    BY <1>1, <2>1, <2>2, <2>4 DEF Room
<1> QED
  BY <1>1, <1>3, <1>4

\* The memcpys out of the ring read the slots of the items from .. from+clen-1.
LEMMA SourceIsSlot ==
  ASSUME NEW o \in Nat, NEW c \in 0..Size, NEW k \in 1..c, NEW m \in Nat,
         m = Min2(c, Size - (o % Size))
  PROVE  (IF k <= m THEN (o % Size) + k - 1 ELSE k - m - 1) = (o + k - 1) % Size
<1>1. o \in Int /\ Size \in Nat \ {0} /\ o % Size \in 0..Size-1
  BY SizeAssumption, ModRange
<1>2. PICK x \in Int : x = o + k - 1
  OBVIOUS
<1>3. CASE k <= m
  <2>1. (o % Size) + (x - o) \in 0..Size-1
    BY <1>1, <1>2, <1>3 DEF Min2
  <2>2. x % Size = (o % Size) + (x - o)
    BY <1>1, <2>1, ModAdd
  <2> QED
    BY <1>1, <1>2, <1>3, <2>2
<1>4. CASE ~(k <= m)
  <2>1. m = Size - (o % Size) /\ (o % Size) + (x - o) - Size \in 0..Size-1
    BY <1>1, <1>2, <1>4 DEF Min2
  <2>2. x % Size = (o % Size) + (x - o) - Size
    BY <1>1, <2>1, ModWrap
  <2> QED
    BY <1>1, <1>2, <1>4, <2>1, <2>2
<1> QED
  BY <1>3, <1>4

\* The items a Put has to leave alone are in their slots, and it fills others.
LEMMA WindowItem ==
  ASSUME TypeOK, WindowInv, NEW x \in 0..in-1, in + plen - Size <= x
  PROVE  x % Size \in 0..Size-1 /\ x % Size \notin Written /\ buf[x % Size] = x
<1>1. x \in Int /\ in \in Nat /\ plen \in Nat /\ plen >= 1 /\ Size \in Nat \ {0}
  BY SizeAssumption DEF TypeOK
<1>2. x % Size \in 0..Size-1
  BY <1>1, ModRange
<1>3. ASSUME NEW j \in 0..plen-1, x % Size = (in + j) % Size
      PROVE  FALSE
  <2>1. PICK y \in Int : y = in + j
    BY <1>1
  <2>2. x < y /\ y < x + Size
    BY <1>1, <2>1
  <2>3. x % Size # y % Size
    BY <1>1, <2>2, ModInjective
  <2> QED
    BY <1>3, <2>1, <2>3
<1>4. x % Size \notin Written
  BY <1>3 DEF Written
<1>5. in + (IF ppc \in {"copy", "publish"} THEN plen ELSE 0) - Size <= x
  BY <1>1, SizeAssumption
<1>6. buf[x % Size] = x
  BY <1>5 DEF WindowInv
<1> QED
  BY <1>2, <1>4, <1>6

\* An undisturbed copy reads the slots of the items it is entitled to.
LEMMA CleanSource ==
  ASSUME TypeOK, RoomInv, CleanInv, clean, cpc \in {"base", "copy"},
         NEW k \in 1..clen
  PROVE  /\ out + k - 1 \in 0..in-1
         /\ in - Size <= out + k - 1
         /\ Filling => in + plen - Size <= out + k - 1
         /\ (IF k <= l THEN (out % Size) + k - 1 ELSE k - l - 1) = (out + k - 1) % Size
<1>1. out \in Nat /\ in \in Nat /\ plen \in Nat /\ l \in Nat /\ clen \in Nat
      /\ Size \in Nat \ {0}
  BY SizeAssumption DEF TypeOK
<1>2. clen <= in - out /\ in - out <= Size /\ (Filling => in + plen - out <= Size)
  BY DEF CleanInv, RoomInv
<1>3. clen \in 0..Size /\ out \in Nat
  BY <1>1, <1>2
<1>4. l = Min2(clen, Size - (out % Size))
  BY DEF CleanInv
<1>5. \A m \in Nat : m = Min2(clen, Size - (out % Size)) =>
        (IF k <= m THEN (out % Size) + k - 1 ELSE k - m - 1) = (out + k - 1) % Size
  BY <1>3, SourceIsSlot
<1>6. (IF k <= l THEN (out % Size) + k - 1 ELSE k - l - 1) = (out + k - 1) % Size
  BY <1>1, <1>4, <1>5
<1> QED
  BY <1>1, <1>2, <1>6

\* The invariant holds when both threads are idle and the ring is new.
LEMMA InitIInv == Init => IInv
  BY SizeAssumption
  DEF Init, IInv, TypeOK, Cell, RoomInv, Filling, LeadInv, WindowInv, CleanInv,
      CleanGet, ShortMeansTimeout, EveryItemAccounted, UndisturbedInv, Unset, IsBuffer

\* The check of Put takes the override branch whenever the room is short
\* (unlock_queue.h:44).
LEMMA PutCheckStep ==
  ASSUME IInv, NEW len \in 1..MaxPut, PutCheck(len)
  PROVE  IInv'
<1> USE SizeAssumption DEF IInv, PutCheck, getVars
<1>1. Room = Size - (in - out)
  BY RoomIsRoom
<1>2. TypeOK'
  BY DEF TypeOK, Cell
<1>3. RoomInv'
  BY <1>1 DEF TypeOK, RoomInv, Filling
<1>4. LeadInv'
  BY DEF TypeOK, LeadInv, Filling
<1>5. WindowInv'
  BY DEF TypeOK, WindowInv
<1>6. CleanInv'
  BY DEF CleanInv, Min2
<1>7. CleanGet' /\ ShortMeansTimeout' /\ EveryItemAccounted' /\ UndisturbedInv'
  BY DEF CleanGet, ShortMeansTimeout, EveryItemAccounted, UndisturbedInv
<1> QED
  BY <1>2, <1>3, <1>4, <1>5, <1>6, <1>7

\* After an override there is room for the Put that made it (unlock_queue.h:45).
LEMMA PutOverrideStep ==
  ASSUME IInv, PutOverride
  PROVE  IInv'
<1> USE SizeAssumption DEF IInv, PutOverride, getVars
<1>1. TypeOK'
  <2>1. in + plen \in Nat /\ out + plen \in Nat /\ skipped + plen \in Nat
    BY DEF TypeOK
  <2> QED
    BY <2>1 DEF TypeOK
<1>2. RoomInv'
  BY DEF TypeOK, RoomInv, Filling
<1>3. LeadInv'
  BY DEF TypeOK, LeadInv, Filling
<1>4. WindowInv'
  BY DEF TypeOK, WindowInv
<1>5. CleanInv' /\ CleanGet' /\ ShortMeansTimeout' /\ EveryItemAccounted' /\ UndisturbedInv'
  BY DEF TypeOK, CleanInv, CleanGet, ShortMeansTimeout, EveryItemAccounted, UndisturbedInv
<1> QED
  BY <1>1, <1>2, <1>3, <1>4, <1>5

\* Publishing extends the window by the items just copied (unlock_queue.h:57).
LEMMA PutPublishStep ==
  ASSUME IInv, PutPublish
  PROVE  IInv'
<1> USE SizeAssumption DEF IInv, PutPublish, getVars
<1>1. TypeOK'
  <2>1. in + plen \in Nat /\ out + plen \in Nat /\ skipped + plen \in Nat
    BY DEF TypeOK
  <2> QED
    BY <2>1 DEF TypeOK
<1>2. RoomInv'
  BY DEF TypeOK, RoomInv, Filling
<1>3. LeadInv'
  BY DEF TypeOK, LeadInv, Filling
<1>4. WindowInv'
  <2>1. ASSUME NEW i \in 0..in'-1, in' - Size <= i
        PROVE  buf[i % Size] = i
    <3>1. CASE i < in
      BY <2>1, <3>1 DEF TypeOK, WindowInv
    <3>2. CASE in <= i
      <4>1. PICK j \in 0..plen-1 : i = in + j
        BY <2>1, <3>2 DEF TypeOK
      <4> QED
        BY <4>1 DEF TypeOK, WindowInv
    <3> QED
      BY <2>1, <3>1, <3>2 DEF TypeOK
  <2> QED
    BY <2>1 DEF TypeOK, WindowInv
<1>5. CleanInv'
  BY DEF TypeOK, CleanInv, Min2
<1>6. CleanGet' /\ ShortMeansTimeout' /\ EveryItemAccounted' /\ UndisturbedInv'
  BY DEF CleanGet, ShortMeansTimeout, EveryItemAccounted, UndisturbedInv
<1> QED
  BY <1>1, <1>2, <1>3, <1>4, <1>5, <1>6

\* The copy into the ring starts outside the window (unlock_queue.h:52-54).
LEMMA PutCopyBeginStep ==
  ASSUME IInv, PutCopyBegin
  PROVE  IInv'
<1> USE SizeAssumption DEF IInv, PutCopyBegin
<1>1. TypeOK'
  <2>1. buf' \in [0..Size-1 -> Cell]
    BY DEF TypeOK, Cell, Torn
  <2>2. IsBuffer(data)'
    <3>1. CASE cpc # "copy"
      BY <3>1 DEF TypeOK
    <3>2. CASE cpc = "copy"
      <4>1. ASSUME NEW k \in 1..clen
            PROVE  (IF Source(k) \in Written THEN Torn ELSE data[k]) \in Cell
        BY <3>2, <4>1 DEF TypeOK, IsBuffer, Cell, Torn
      <4>2. data' \in [1..clen -> Cell]
        BY <3>2, <4>1
      <4> QED
        BY <4>2 DEF TypeOK, IsBuffer
    <3> QED
      BY <3>1, <3>2
  <2> QED
    BY <2>1, <2>2 DEF TypeOK
<1>2. RoomInv' /\ LeadInv'
  BY DEF TypeOK, RoomInv, LeadInv, Filling
<1>3. WindowInv'
  <2>1. ASSUME NEW i \in 0..in-1, in + plen - Size <= i
        PROVE  buf'[i % Size] = i
    <3>1. i % Size \in 0..Size-1 /\ i % Size \notin Written /\ buf[i % Size] = i
      BY <2>1, WindowItem
    <3> QED
      BY <3>1
  <2> QED
    BY <2>1 DEF WindowInv
<1>4. CleanInv'
  <2>1. ASSUME clean, cpc = "copy", NEW k \in 1..clen
        PROVE  Source(k) \notin Written
    <3>1. PICK x \in 0..in-1 :
            /\ x = out + k - 1 /\ in + plen - Size <= x
            /\ (IF k <= l THEN (out % Size) + k - 1 ELSE k - l - 1) = x % Size
      BY <2>1, CleanSource DEF Filling
    <3>2. Source(k) = x % Size
      BY <2>1, <3>1 DEF CleanInv, Source
    <3> QED
      BY <3>1, <3>2, WindowItem
  <2>2. ASSUME clean, cpc = "copy"
        PROVE  data' = [k \in 1..clen |-> from + k - 1]
    <3>1. \A k \in 1..clen : data[k] = from + k - 1
      BY <2>2 DEF CleanInv
    <3>2. data' = [k \in 1..clen |-> data[k]]
      BY <2>1, <2>2
    <3> QED
      BY <3>1, <3>2
  <2> QED
    BY <2>2 DEF CleanInv, Min2
<1>5. CleanGet' /\ ShortMeansTimeout' /\ EveryItemAccounted' /\ UndisturbedInv'
  BY DEF CleanGet, ShortMeansTimeout, EveryItemAccounted, UndisturbedInv
<1> QED
  BY <1>1, <1>2, <1>3, <1>4, <1>5

\* The copy into the ring ends with its items in their slots
\* (unlock_queue.h:52-54).
LEMMA PutCopyEndStep ==
  ASSUME IInv, PutCopyEnd
  PROVE  IInv'
<1> USE SizeAssumption DEF IInv, PutCopyEnd, getVars
<1>1. TypeOK'
  <2>1. ASSUME NEW s \in 0..Size-1
        PROVE  in + ((s - in) % Size) \in Cell
    BY ModRange DEF TypeOK, Cell
  <2>2. buf' \in [0..Size-1 -> Cell]
    BY <2>1 DEF TypeOK
  <2> QED
    BY <2>2 DEF TypeOK
<1>2. RoomInv' /\ LeadInv'
  BY DEF TypeOK, RoomInv, LeadInv, Filling
<1>3. WindowInv'
  <2>1. ASSUME NEW i \in 0..in-1, in + plen - Size <= i
        PROVE  buf'[i % Size] = i
    <3>1. i % Size \in 0..Size-1 /\ i % Size \notin Written /\ buf[i % Size] = i
      BY <2>1, WindowItem
    <3> QED
      BY <3>1
  <2>2. ASSUME NEW j \in 0..plen-1
        PROVE  buf'[(in + j) % Size] = in + j
    <3>1. (in + j) % Size \in Written
      BY DEF Written
    <3>2. (in + j) % Size \in 0..Size-1
      BY ModRange DEF TypeOK
    <3>3. (((in + j) % Size) - in) % Size = j
      <4>1. in \in Int /\ j \in 0..Size-1 /\ Size \in Nat \ {0}
        BY DEF TypeOK
      <4> QED
        BY <4>1, ModBack
    <3> QED
      BY <3>1, <3>2, <3>3
  <2> QED
    BY <2>1, <2>2 DEF WindowInv
<1>4. CleanInv'
  BY DEF CleanInv, Min2
<1>5. CleanGet' /\ ShortMeansTimeout' /\ EveryItemAccounted' /\ UndisturbedInv'
  BY DEF CleanGet, ShortMeansTimeout, EveryItemAccounted, UndisturbedInv
<1> QED
  BY <1>1, <1>2, <1>3, <1>4, <1>5

\* The steps of the consumer leave to the producer's invariants what they need:
\* the ring and _in untouched, _out where it was.
LEMMA ProducerSide ==
  ASSUME IInv, UNCHANGED <<buf, in, out, putVars>>, cpc # "idle"
  PROVE  RoomInv' /\ LeadInv' /\ WindowInv'
  BY DEF IInv, putVars, RoomInv, LeadInv, WindowInv, Filling

\* A Get_wait begins clean when _out is not ahead (unlock_queue.h:80-81).
LEMMA GetCallStep ==
  ASSUME IInv, NEW n \in 0..MaxGet, GetCall(n)
  PROVE  IInv'
<1> USE SizeAssumption DEF IInv, GetCall, putVars
<1>1. TypeOK'
  BY DEF TypeOK
<1>2. RoomInv' /\ LeadInv' /\ WindowInv'
  BY DEF TypeOK, RoomInv, LeadInv, WindowInv, Filling
<1>3. CleanInv' /\ CleanGet' /\ ShortMeansTimeout' /\ EveryItemAccounted' /\ UndisturbedInv'
  BY DEF TypeOK, CleanInv, CleanGet, ShortMeansTimeout, EveryItemAccounted, UndisturbedInv
<1> QED
  BY <1>1, <1>2, <1>3

\* Loading the first counter of a difference, in either order
\* (unlock_queue.h:64, 91).
LEMMA LoadStep ==
  ASSUME IInv, PollLoad \/ GetLoad
  PROVE  IInv'
<1> USE DEF PollLoad, GetLoad, LoadFirst
<1>1. TypeOK'
  BY DEF IInv, TypeOK, putVars
<1>2. RoomInv' /\ LeadInv' /\ WindowInv'
  BY ProducerSide
<1>3. CleanInv'
  <2>1. UNCHANGED <<in, out, want, cnt, clean>>
    OBVIOUS
  <2>2. CASE cpc = "poll" /\ cpc' \in {"pollIn", "pollOut"}
    BY <2>1, <2>2 DEF IInv, TypeOK, CleanInv
  <2>3. CASE cpc = "load" /\ cpc' = "lenIn" /\ ld' = in
    BY <2>1, <2>3 DEF IInv, TypeOK, CleanInv
  <2>4. CASE cpc = "load" /\ cpc' = "lenOut" /\ ld' = out
    BY <2>1, <2>4 DEF IInv, TypeOK, CleanInv
  <2> QED
    BY <2>2, <2>3, <2>4
<1>4. CleanGet' /\ ShortMeansTimeout' /\ EveryItemAccounted' /\ UndisturbedInv'
  BY DEF IInv, CleanGet, ShortMeansTimeout, EveryItemAccounted, UndisturbedInv
<1> QED
  BY <1>1, <1>2, <1>3, <1>4 DEF IInv

\* What an undisturbed length() finds: no more items than there are, and as many
\* as there were when the first counter was loaded.
LEMMA CleanLength ==
  ASSUME TypeOK, RoomInv, CleanInv, clean, NEW inFirst \in BOOLEAN,
         cpc \in (IF inFirst THEN {"pollIn", "lenIn"} ELSE {"pollOut", "lenOut"})
  PROVE  /\ Length(inFirst) = IF inFirst THEN ld - out ELSE in - out
         /\ Length(inFirst) \in 0 .. in - out
<1>1. in \in Nat /\ out \in Nat /\ ld \in Nat /\ in - out <= Size /\ out <= in
  BY DEF TypeOK, RoomInv, CleanInv
<1>2. \A d \in 0..Size : U(d) = d
  BY SizeAssumption, ModSmall DEF U
<1>3. CASE inFirst
  <2>1. out <= ld /\ ld <= in
    BY <1>3 DEF CleanInv
  <2>2. U(ld - out) = ld - out
    BY <1>1, <1>2, <2>1, SizeAssumption
  <2> QED
    BY <1>1, <1>3, <2>1, <2>2 DEF Length
<1>4. CASE ~inFirst
  <2>1. ld = out
    BY <1>4 DEF CleanInv
  <2>2. U(in - ld) = in - out
    BY <1>1, <1>2, <2>1, SizeAssumption
  <2> QED
    BY <1>1, <1>4, <2>1, <2>2 DEF Length
<1> QED
  BY <1>3, <1>4

\* A length is a uint32_t (unlock_queue.h:91).
LEMMA LengthIsNat ==
  ASSUME TypeOK, NEW inFirst \in BOOLEAN
  PROVE  Length(inFirst) \in Nat
  BY SizeAssumption, ModRange DEF TypeOK, Length, U

\* The polling loop leaves with enough items or after its last poll
\* (unlock_queue.h:82-86).
LEMMA PollTestStep ==
  ASSUME IInv, PollTest
  PROVE  IInv'
<1>1. TypeOK'
  <2>1. cnt' \in 0..TimeoutMs+1 /\ (cpc' = "poll" => cnt' <= TimeoutMs)
    BY SizeAssumption DEF IInv, TypeOK, PollTest
  <2>2. cpc' \in {"poll", "load"}
    BY DEF PollTest
  <2> QED
    BY <2>1, <2>2 DEF IInv, TypeOK, PollTest, putVars
<1>2. RoomInv' /\ LeadInv' /\ WindowInv'
  BY ProducerSide DEF PollTest
<1>3. CleanInv'
  <2>1. ASSUME clean, cpc' = "load"
        PROVE  want <= in - out \/ cnt' > TimeoutMs
    <3>1. Length(cpc = "pollIn") \in 0 .. in - out
      BY <2>1, CleanLength DEF IInv, PollTest
    <3> QED
      BY <2>1, <3>1, SizeAssumption DEF IInv, TypeOK, PollTest
  <2> QED
    BY <2>1 DEF IInv, CleanInv, PollTest, putVars
<1>4. CleanGet' /\ ShortMeansTimeout' /\ EveryItemAccounted' /\ UndisturbedInv'
  BY DEF IInv, PollTest, CleanGet, ShortMeansTimeout, EveryItemAccounted, UndisturbedInv
<1> QED
  BY <1>1, <1>2, <1>3, <1>4 DEF IInv

\* The cut length is covered by the window (unlock_queue.h:64).
LEMMA GetLenStep ==
  ASSUME IInv, GetLen
  PROVE  IInv'
<1>1. clen' \in 0..MaxGet /\ clen' <= want /\ clen' <= Length(cpc = "lenIn")
  <2>1. PICK n \in Nat : n = Length(cpc = "lenIn")
    BY LengthIsNat DEF IInv
  <2>2. want \in 0..MaxGet /\ clen' = Min2(want, n)
    BY <2>1 DEF IInv, TypeOK, GetLen
  <2> QED
    BY <2>1, <2>2, SizeAssumption DEF Min2
<1>2. TypeOK'
  BY <1>1 DEF IInv, TypeOK, GetLen, putVars
<1>3. RoomInv' /\ LeadInv' /\ WindowInv'
  BY ProducerSide DEF GetLen
<1>4. CleanInv'
  <2>1. ASSUME clean
        PROVE  clen' <= in - out /\ (clen' < want => cnt > TimeoutMs)
    <3>1. /\ Length(cpc = "lenIn") = IF cpc = "lenIn" THEN ld - out ELSE in - out
          /\ Length(cpc = "lenIn") \in 0 .. in - out
      BY <2>1, CleanLength DEF IInv, GetLen
    <3>2. want <= Length(cpc = "lenIn") \/ cnt > TimeoutMs
      BY <2>1, <3>1 DEF IInv, CleanInv, GetLen
    <3>3. clen' < want => Length(cpc = "lenIn") < want
      BY <3>1 DEF IInv, TypeOK, GetLen, Min2
    <3> QED
      BY <1>1, <3>1, <3>2, <3>3 DEF IInv, TypeOK
  <2> QED
    BY <2>1 DEF IInv, CleanInv, GetLen, putVars
<1>5. CleanGet' /\ ShortMeansTimeout' /\ EveryItemAccounted' /\ UndisturbedInv'
  BY DEF IInv, GetLen, CleanGet, ShortMeansTimeout, EveryItemAccounted, UndisturbedInv
<1> QED
  BY <1>2, <1>3, <1>4, <1>5 DEF IInv

\* The split of the copy where the ring ends (unlock_queue.h:69).
LEMMA GetSpanStep ==
  ASSUME IInv, GetSpan
  PROVE  IInv'
<1>1. l' \in 0..MaxGet
  <2>1. out % Size \in 0..Size-1
    BY SizeAssumption, ModRange DEF IInv, TypeOK
  <2> QED
    BY <2>1, SizeAssumption DEF IInv, TypeOK, GetSpan, Min2
<1>2. TypeOK'
  BY <1>1 DEF IInv, TypeOK, GetSpan, putVars
<1>3. RoomInv' /\ LeadInv' /\ WindowInv'
  BY ProducerSide DEF GetSpan
<1>4. CleanInv'
  BY DEF IInv, CleanInv, GetSpan, putVars, Min2
<1>5. CleanGet' /\ ShortMeansTimeout' /\ EveryItemAccounted' /\ UndisturbedInv'
  BY DEF IInv, GetSpan, CleanGet, ShortMeansTimeout, EveryItemAccounted, UndisturbedInv
<1> QED
  BY <1>2, <1>3, <1>4, <1>5 DEF IInv

\* An undisturbed copy reads the items from _out on (unlock_queue.h:70-71).
LEMMA GetCopyBeginStep ==
  ASSUME IInv, GetCopyBegin
  PROVE  IInv'
<1> DEFINE at(k) == IF k <= l THEN (out % Size) + k - 1 ELSE k - l - 1
           cell(k) == IF at(k) < Size THEN buf[at(k)] ELSE Beyond
<1>1. data' = [k \in 1..clen |-> cell(k)]
  BY DEF GetCopyBegin
<1>2. out % Size \in 0..Size-1
  BY SizeAssumption, ModRange DEF IInv, TypeOK
<1>3. TypeOK'
  <2>1. ASSUME NEW k \in 1..clen
        PROVE  cell(k) \in Cell
    <3>1. at(k) \in Nat
      BY <1>2, SizeAssumption DEF IInv, TypeOK
    <3>2. CASE at(k) < Size
      BY <3>1, <3>2, SizeAssumption DEF IInv, TypeOK
    <3>3. CASE ~(at(k) < Size)
      BY <3>3 DEF Beyond, Cell
    <3> QED
      BY <3>2, <3>3
  <2> HIDE DEF cell
  <2>2. data' \in [1..clen -> Cell] /\ DOMAIN data' = 1..clen
    BY <1>1, <2>1
  <2>3. IsBuffer(data)'
    BY <2>2 DEF IInv, TypeOK, IsBuffer, GetCopyBegin
  <2> QED
    BY <1>2, <2>2, <2>3 DEF IInv, TypeOK, GetCopyBegin, putVars
<1>4. RoomInv' /\ LeadInv' /\ WindowInv'
  BY ProducerSide DEF GetCopyBegin
<1>5. CleanInv'
  <2>1. ASSUME clean, NEW k \in 1..clen
        PROVE  cell(k) = out + k - 1
    <3>1. PICK x \in 0..in-1 :
            /\ x = out + k - 1 /\ in - Size <= x
            /\ (Filling => in + plen - Size <= x) /\ at(k) = x % Size
      BY <2>1, CleanSource DEF IInv, GetCopyBegin
    <3>2. x % Size \in 0..Size-1
      BY SizeAssumption, ModRange DEF IInv, TypeOK
    <3>3. buf[x % Size] = x
      <4>1. in + (IF ppc \in {"copy", "publish"} THEN plen ELSE 0) - Size <= x
        BY <3>1, SizeAssumption DEF IInv, TypeOK, Filling
      <4> QED
        BY <4>1 DEF IInv, WindowInv
    <3> QED
      BY <3>1, <3>2, <3>3, SizeAssumption
  <2> HIDE DEF cell
  <2>2. clean => data' = [k \in 1..clen |-> out + k - 1]
    BY <1>1, <2>1
  <2> QED
    BY <2>2 DEF IInv, CleanInv, GetCopyBegin, putVars, Min2
<1>6. CleanGet' /\ ShortMeansTimeout' /\ EveryItemAccounted' /\ UndisturbedInv'
  BY DEF IInv, GetCopyBegin, CleanGet, ShortMeansTimeout, EveryItemAccounted, UndisturbedInv
<1> QED
  BY <1>3, <1>4, <1>5, <1>6 DEF IInv

\* Releasing the slots moves _out by what was copied (unlock_queue.h:75).
LEMMA GetAdvanceStep ==
  ASSUME IInv, GetAdvance
  PROVE  IInv'
<1> USE SizeAssumption DEF IInv, GetAdvance, putVars
<1>1. TypeOK'
  <2>1. out + clen \in Nat /\ delivered + clen \in Nat
    BY DEF TypeOK
  <2> QED
    BY <2>1 DEF TypeOK
<1>2. RoomInv'
  BY DEF TypeOK, RoomInv, Filling
<1>3. LeadInv'
  BY DEF TypeOK, LeadInv, Filling
<1>4. WindowInv'
  BY DEF WindowInv
<1>5. CleanInv'
  BY DEF TypeOK, CleanInv
<1>6. CleanGet' /\ ShortMeansTimeout'
  BY DEF CleanInv, CleanGet, ShortMeansTimeout
<1>7. EveryItemAccounted' /\ UndisturbedInv'
  BY DEF TypeOK, EveryItemAccounted, UndisturbedInv
<1> QED
  BY <1>1, <1>2, <1>3, <1>4, <1>5, <1>6, <1>7

\* Every step of either thread preserves the invariant.
LEMMA NextIInv == IInv /\ [Next]_vars => IInv'
<1> SUFFICES ASSUME IInv, [Next]_vars PROVE IInv'
  OBVIOUS
<1>1. CASE \E len \in 1..MaxPut : PutCheck(len)
  BY <1>1, PutCheckStep
<1>2. CASE \E n \in 0..MaxGet : GetCall(n)
  BY <1>2, GetCallStep
<1>3. CASE PutStep
  BY <1>3, PutOverrideStep, PutCopyBeginStep, PutCopyEndStep, PutPublishStep
  DEF PutStep
<1>4. CASE GetStep
  BY <1>4, LoadStep, PollTestStep, GetLenStep, GetSpanStep, GetCopyBeginStep,
     GetAdvanceStep
  DEF GetStep
<1>5. CASE UNCHANGED vars
  BY <1>5
  DEF vars, putVars, getVars, IInv, TypeOK, RoomInv, LeadInv, WindowInv, CleanInv,
      CleanGet, ShortMeansTimeout, EveryItemAccounted, UndisturbedInv, Filling
<1> QED
  BY <1>1, <1>2, <1>3, <1>4, <1>5 DEF Next

-----------------------------------------------------------------------------
\* The inductive invariant holds in every state of every behaviour of the queue.
THEOREM QueueInvariant == Spec => []IInv
  BY InitIInv, NextIInv, PTL DEF Spec

\* Every variable of Put and Get keeps its type (unlock_queue.h:43-88).
THEOREM QueueTypeCorrect == Spec => []TypeOK
<1>1. IInv => TypeOK
  BY DEF IInv
<1> QED
  BY <1>1, QueueInvariant, PTL

\* Put never stores into a slot of the window Get may take items from, whatever
\* the threads' interleaving (unlock_queue.h:43-61).
THEOREM QueueRoom == Spec => []RoomInv
<1>1. IInv => RoomInv
  BY DEF IInv
<1> QED
  BY <1>1, QueueInvariant, PTL

\* A Get_wait no override disturbed returns the oldest items, exactly and in
\* order (unlock_queue.h:63-88).
THEOREM QueueCleanGet == Spec => []CleanGet
<1>1. IInv => CleanGet
  BY DEF IInv
<1> QED
  BY <1>1, QueueInvariant, PTL

\* Undisturbed, only a timeout makes Get_wait come back short
\* (unlock_queue.h:80-88).
THEOREM QueueShortMeansTimeout == Spec => []ShortMeansTimeout
<1>1. IInv => ShortMeansTimeout
  BY DEF IInv
<1> QED
  BY <1>1, QueueInvariant, PTL

\* No move of _out by one thread is lost to the other (unlock_queue.h:45, 75).
THEOREM QueueAccounted == Spec => []EveryItemAccounted
<1>1. IInv => EveryItemAccounted
  BY DEF IInv
<1> QED
  BY <1>1, QueueInvariant, PTL

(***************************************************************************)
(* Refinement: every step of the ring is a step of the bounded FIFO, or    *)
(* leaves it as it is.                                                     *)
(***************************************************************************)
LEMMA InitStream == Init => Stream!Init
  BY DEF Init, Stream!Init

\* Every step of the queue is a step of PacketStream or leaves it as it is.
LEMMA StreamStep == IInv /\ [Next]_vars => [Stream!Next]_Stream!vars
<1> SUFFICES ASSUME IInv, [Next]_vars PROVE [Stream!Next]_Stream!vars
  OBVIOUS
<1> USE DEF Stream!Next, Stream!vars
<1>1. skipped \in Nat /\ skipped' \in Nat /\ skipped <= skipped'
  <2>1. skipped \in Nat /\ skipped' \in Nat /\ plen \in Nat
    BY NextIInv, SizeAssumption DEF IInv, TypeOK
  <2>2. CASE PutOverride
    BY <2>1, <2>2 DEF PutOverride
  <2>3. CASE \/ PutCopyBegin \/ PutCopyEnd \/ PutPublish \/ UNCHANGED vars
             \/ \E len \in 1..MaxPut : PutCheck(len)
             \/ \E n \in 0..MaxGet : GetCall(n)
    BY <2>1, <2>3 DEF PutCopyBegin, PutCopyEnd, PutPublish, PutCheck, GetCall, vars
  <2>4. CASE GetStep
    BY <2>1, <2>4 DEF GetStep, PollLoad, GetLoad, LoadFirst, PollTest, GetLen,
                      GetSpan, GetCopyBegin, GetAdvance
  <2> QED
    BY <2>2, <2>3, <2>4 DEF Next, PutStep
<1>2. CASE skipped' > 0
  BY <1>2 DEF Stream!Overrun
<1>3. CASE skipped' = 0
  <2>1. skipped = 0 /\ clean
    BY <1>1, <1>3 DEF IInv, UndisturbedInv
  <2>2. CASE PutPublish
    <3>1. plen \in 1..MaxPut /\ in + plen - out <= Size
      BY <2>2 DEF PutPublish, IInv, TypeOK, RoomInv, Filling
    <3>2. Stream!Put(plen)
      BY <2>2, <3>1 DEF PutPublish, Stream!Put, getVars
    <3> QED
      BY <2>1, <3>1, <3>2
  <2>3. CASE GetAdvance
    <3>1. clen \in 0..MaxGet /\ clen <= in - out
      BY <2>1, <2>3 DEF GetAdvance, IInv, TypeOK, CleanInv
    <3>2. result' = [k \in 1..clen |-> out + k - 1]
      BY <2>1, <2>3 DEF GetAdvance, IInv, CleanInv
    <3>3. Stream!Get(clen)
      BY <2>3, <3>1, <3>2 DEF GetAdvance, Stream!Get
    <3> QED
      BY <2>1, <3>1, <3>3
  <2>4. CASE PutOverride
    BY <1>3, <2>1, <2>4 DEF PutOverride, IInv, TypeOK
  <2>5. CASE \/ PutCopyBegin \/ PutCopyEnd \/ UNCHANGED vars
             \/ \E len \in 1..MaxPut : PutCheck(len)
             \/ \E n \in 0..MaxGet : GetCall(n)
    BY <2>5 DEF PutCopyBegin, PutCopyEnd, PutCheck, GetCall, vars, putVars, getVars
  <2>6. CASE \/ PollLoad \/ GetLoad \/ PollTest \/ GetLen \/ GetSpan
             \/ GetCopyBegin
    BY <2>6 DEF PollLoad, GetLoad, LoadFirst, PollTest, GetLen, GetSpan,
                GetCopyBegin
  <2> QED
    BY <2>2, <2>3, <2>4, <2>5, <2>6 DEF Next, PutStep, GetStep
<1> QED
  BY <1>1, <1>2, <1>3

\* Up to its first override the ring buffer is the exact bounded FIFO of
\* PacketStream: the producer and the consumer each see a queue that neither
\* loses, reorders nor invents a packet.
THEOREM QueueImplementsStream == Spec => ImplementsStream
<1>1. Spec => []IInv
  BY QueueInvariant
<1> QED
  BY <1>1, InitStream, StreamStep, PTL DEF Spec, ImplementsStream, Stream!Spec
=============================================================================
