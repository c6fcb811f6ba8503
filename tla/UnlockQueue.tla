----------------------------- MODULE UnlockQueue -----------------------------
(***************************************************************************)
(* The lock-free ring buffer of fpga_udp/src/kfifo/unlock_queue.h, with    *)
(* which the UDP receive thread (the producer) hands packets to the thread *)
(* that assembles frames (the consumer).                                   *)
(*                                                                         *)
(* An item is named by the number of items put before it, so the queue is  *)
(* an exact FIFO when item i sits in slot i % Size and leaves in order.    *)
(* The counters _in and _out are kept unbounded; the code only ever uses   *)
(* their difference as a uint32_t (U below) and their low bits             *)
(* (x & (_size - 1) is x % Size, the size being a power of two that        *)
(* divides Modulus), so both are what the code computes.                   *)
(*                                                                         *)
(* A memcpy takes two steps.  A slot read while it is being written holds  *)
(* Torn: the data race leaves any mixture of old and new bytes.            *)
(***************************************************************************)
EXTENDS Integers

CONSTANTS
  Size,      \* _size: the slots of the ring
  Modulus,   \* 2^32: the range of a uint32_t
  MaxPut,    \* largest len of a Put
  MaxGet,    \* largest len of a Get_wait
  TimeoutMs, \* timeout_ms of a Get_wait, in polls of one millisecond
  MaxIn,     \* bound: no Put starts that would move _in past it
  MaxLead    \* bound: no Get_wait starts with _out further ahead of _in

ASSUME SizeAssumption ==
  /\ Size \in Nat \ {0}
  /\ MaxPut \in 1..Size
  /\ MaxGet \in Nat
  /\ TimeoutMs \in Nat
  /\ MaxIn \in Nat
  /\ MaxLead \in Nat
  /\ Modulus \in Nat
  /\ Modulus > Size + MaxLead + MaxGet + MaxPut

Torn     == -1   \* read while being written, or written while being read
Unset    == -2   \* new T[_size] leaves the slots uninitialised
Beyond   == -3   \* memory past the last slot
Cell     == Int  \* the content of a slot: an item, or one of these three

VARIABLES
  buf,       \* _buffer
  in, out,   \* _in and _out
  ppc, plen, \* the Put in progress: next step, len
  cpc,       \* the Get_wait in progress: next step
  want, cnt, \* its parameter len and its local cnt
  ld,        \* the counter it loaded first, of _in and _out
  clen, l,   \* the locals len and l of Get
  base,      \* _out & (_size - 1) as read for the first memcpy
  data,      \* what the two memcpys have copied
  result,    \* the caller's buffer after the last Get_wait that returned
  clean,     \* history: _out was not ahead when this Get_wait began, and no
             \*   Put has overridden an item since
  from,      \* history: _out when the copy began
  skipped,   \* history: items the overriding Puts have dropped
  delivered  \* history: items the Gets have taken

putVars  == <<ppc, plen>>
getVars  == <<cpc, want, cnt, ld, clen, l, base, data, result, from, delivered>>
vars     == <<buf, in, out, putVars, getVars, clean, skipped>>

U(x)     == x % Modulus
Min2(a, b) == IF a < b THEN a ELSE b
\* Variant: the size of the ring counted one too large.
RoomOneTooMany == U(Size + 1 - U(in - out))

Room     == U(Size - U(in - out))

-----------------------------------------------------------------------------
Init ==
  /\ buf = [s \in 0..Size-1 |-> Unset]
  /\ in = 0 /\ out = 0
  /\ ppc = "idle" /\ plen = 1
  /\ cpc = "idle" /\ want = 0 /\ cnt = 0 /\ ld = 0
  /\ clen = 0 /\ l = 0 /\ base = 0
  /\ data = << >> /\ result = << >>
  /\ clean = TRUE /\ from = 0 /\ skipped = 0 /\ delivered = 0

(***************************************************************************)
(* The producer: Put(buffer, len).                                         *)
(***************************************************************************)
PutCheck(len) ==
  /\ ppc = "idle"
  /\ in + len <= MaxIn
  /\ plen' = len
  /\ ppc' = IF len > Room THEN "override" ELSE "write"
  /\ UNCHANGED <<buf, in, out, getVars, clean, skipped>>

\* Allow override: make room by moving the consumer's counter.
PutOverride ==
  /\ ppc = "override"
  /\ out' = out + plen
  /\ skipped' = skipped + plen
  /\ clean' = FALSE
  /\ ppc' = "write"
  /\ UNCHANGED <<buf, in, plen, getVars>>

Written == {(in + j) % Size : j \in 0..plen-1}

\* The slot memcpy of the k-th copied item reads: l items from base, the rest
\* from the start of the ring.
Source(k) == IF k <= l THEN base + k - 1 ELSE k - l - 1

\* The two memcpys into the ring begin: the slots they fill are not readable,
\* and a copy the consumer has under way of one of them is spoilt.
PutCopyBegin ==
  /\ ppc = "write"
  /\ buf' = [s \in 0..Size-1 |-> IF s \in Written THEN Torn ELSE buf[s]]
  /\ data' = IF cpc # "copy" THEN data ELSE
               [k \in 1..clen |-> IF Source(k) \in Written THEN Torn ELSE data[k]]
  /\ ppc' = "copy"
  /\ UNCHANGED <<in, out, plen, cpc, want, cnt, ld, clen, l, base, result,
                 from, delivered, clean, skipped>>

\* Variant: the second memcpy starts again at the first item.
PutCopyEndTailFromStart ==
  /\ ppc = "copy"
  /\ buf' = [s \in 0..Size-1 |->
               IF s \notin Written THEN buf[s]
               ELSE IF s < in % Size THEN in + s
               ELSE in + ((s - in) % Size)]
  /\ ppc' = "publish"
  /\ UNCHANGED <<in, out, plen, getVars, clean, skipped>>

PutCopyEnd ==
  /\ ppc = "copy"
  /\ buf' = [s \in 0..Size-1 |->
               IF s \in Written THEN in + ((s - in) % Size) ELSE buf[s]]
  /\ ppc' = "publish"
  /\ UNCHANGED <<in, out, plen, getVars, clean, skipped>>

PutPublish ==
  /\ ppc = "publish"
  /\ in' = in + plen
  /\ ppc' = "idle"
  /\ UNCHANGED <<buf, out, plen, getVars, clean, skipped>>

(***************************************************************************)
(* The consumer: Get_wait(buffer, len, timeout_ms), then Get(buffer, len). *)
(***************************************************************************)
GetCall(n) ==
  /\ cpc = "idle"
  /\ out - in <= MaxLead
  /\ want' = n /\ cnt' = 0
  /\ clean' = (out <= in)
  /\ cpc' = "poll"
  /\ UNCHANGED <<buf, in, out, putVars, ld, clen, l, base, data, result,
                 from, delivered, skipped>>

\* in - out is two loads, and C++ leaves their order to the compiler.
LoadFirst(at, inFirst, outFirst) ==
  /\ cpc = at
  /\ \/ ld' = in  /\ cpc' = inFirst
     \/ ld' = out /\ cpc' = outFirst
  /\ UNCHANGED <<buf, in, out, putVars, want, cnt, clen, l, base, data, result,
                 from, delivered, clean, skipped>>

PollLoad == LoadFirst("poll", "pollIn", "pollOut")
GetLoad  == LoadFirst("load", "lenIn", "lenOut")

Length(inLoaded) == IF inLoaded THEN U(ld - out) ELSE U(in - ld)

\* Variant: the test is made once.
PollTestOnce ==
  /\ cpc \in {"pollIn", "pollOut"}
  /\ cpc' = "load"
  /\ UNCHANGED <<buf, in, out, putVars, want, cnt, ld, clen, l, base, data, result,
                 from, delivered, clean, skipped>>

\* Variant: the loop is never broken off.
PollTestNoBreak ==
  /\ cpc \in {"pollIn", "pollOut"}
  /\ LET short == Length(cpc = "pollIn") < want
     IN  /\ cnt' = IF short THEN cnt + 1 ELSE cnt
         /\ cpc' = IF short THEN "poll" ELSE "load"
  /\ UNCHANGED <<buf, in, out, putVars, want, ld, clen, l, base, data, result,
                 from, delivered, clean, skipped>>

\* Variant: the polls are not counted.
PollTestNoCount ==
  /\ cpc \in {"pollIn", "pollOut"}
  /\ LET short == Length(cpc = "pollIn") < want
     IN  cpc' = IF short /\ cnt < TimeoutMs THEN "poll" ELSE "load"
  /\ UNCHANGED <<buf, in, out, putVars, want, cnt, ld, clen, l, base, data, result,
                 from, delivered, clean, skipped>>

\* while (length() < len) { if (cnt++ >= timeout_ms) break; sleep 1 ms; }
PollTest ==
  /\ cpc \in {"pollIn", "pollOut"}
  /\ LET short == Length(cpc = "pollIn") < want
     IN  /\ cnt' = IF short THEN cnt + 1 ELSE cnt
         /\ cpc' = IF short /\ cnt < TimeoutMs THEN "poll" ELSE "load"
  /\ UNCHANGED <<buf, in, out, putVars, want, ld, clen, l, base, data, result,
                 from, delivered, clean, skipped>>

\* Variant: len is not cut to what there is.
GetLenUncut ==
  /\ cpc \in {"lenIn", "lenOut"}
  /\ clen' = want
  /\ cpc' = "span"
  /\ UNCHANGED <<buf, in, out, putVars, want, cnt, ld, l, base, data, result,
                 from, delivered, clean, skipped>>

\* len = min(len, _in - _out)
GetLen ==
  /\ cpc \in {"lenIn", "lenOut"}
  /\ clen' = Min2(want, Length(cpc = "lenIn"))
  /\ cpc' = "span"
  /\ UNCHANGED <<buf, in, out, putVars, want, cnt, ld, l, base, data, result,
                 from, delivered, clean, skipped>>

\* Variant: the copy is not split where the ring ends.
GetSpanWhole ==
  /\ cpc = "span"
  /\ l' = clen
  /\ cpc' = "base"
  /\ UNCHANGED <<buf, in, out, putVars, want, cnt, ld, clen, base, data, result,
                 from, delivered, clean, skipped>>

\* l = min(len, _size - (_out & (_size - 1)))
GetSpan ==
  /\ cpc = "span"
  /\ l' = Min2(clen, Size - (out % Size))
  /\ cpc' = "base"
  /\ UNCHANGED <<buf, in, out, putVars, want, cnt, ld, clen, base, data, result,
                 from, delivered, clean, skipped>>

\* The two memcpys out of the ring begin, from _out as it is read again.
GetCopyBegin ==
  /\ cpc = "base"
  /\ base' = out % Size
  /\ from' = out
  /\ data' = [k \in 1..clen |->
                LET s == IF k <= l THEN (out % Size) + k - 1 ELSE k - l - 1
                IN  IF s < Size THEN buf[s] ELSE Beyond]
  /\ cpc' = "copy"
  /\ UNCHANGED <<buf, in, out, putVars, want, cnt, ld, clen, l, result,
                 delivered, clean, skipped>>

\* Variant: _out is stored from the value read before the copy, not added to.
GetAdvanceStore ==
  /\ cpc = "copy"
  /\ out' = from + clen
  /\ delivered' = delivered + clen
  /\ result' = data
  /\ cpc' = "idle"
  /\ UNCHANGED <<buf, in, putVars, want, cnt, ld, clen, l, base, data, from,
                 clean, skipped>>

\* The copies are over: release the slots and return.
GetAdvance ==
  /\ cpc = "copy"
  /\ out' = out + clen
  /\ delivered' = delivered + clen
  /\ result' = data
  /\ cpc' = "idle"
  /\ UNCHANGED <<buf, in, putVars, want, cnt, ld, clen, l, base, data, from,
                 clean, skipped>>

-----------------------------------------------------------------------------
PutStep == PutOverride \/ PutCopyBegin \/ PutCopyEnd \/ PutPublish
GetStep == PollLoad \/ PollTest \/ GetLoad \/ GetLen \/ GetSpan
             \/ GetCopyBegin \/ GetAdvance
Next ==
  \/ \E len \in 1..MaxPut : PutCheck(len)
  \/ \E n \in 0..MaxGet : GetCall(n)
  \/ PutStep
  \/ GetStep

Spec == Init /\ [][Next]_vars

\* A call that has begun is run on by its thread; no call has to be made.
FairSpec == Spec /\ WF_vars(PutStep) /\ WF_vars(GetStep)

-----------------------------------------------------------------------------
IsBuffer(b) == \E n \in 0..MaxGet : b \in [1..n -> Cell]

TypeOK ==
  /\ buf \in [0..Size-1 -> Cell]
  /\ in \in Nat /\ out \in Nat /\ ld \in Nat /\ from \in Nat
  /\ ppc \in {"idle", "override", "write", "copy", "publish"}
  /\ plen \in 1..MaxPut
  /\ cpc \in {"idle", "poll", "pollIn", "pollOut", "load", "lenIn", "lenOut",
              "span", "base", "copy"}
  /\ want \in 0..MaxGet /\ clen \in 0..MaxGet /\ l \in 0..MaxGet
  /\ cnt \in 0..TimeoutMs+1
  /\ cpc \in {"poll", "pollIn", "pollOut"} => cnt <= TimeoutMs
  /\ base \in 0..Size-1
  /\ IsBuffer(data) /\ IsBuffer(result)
  /\ cpc = "copy" => DOMAIN data = 1..clen
  /\ clean \in BOOLEAN
  /\ skipped \in Nat /\ delivered \in Nat

(***************************************************************************)
(* The producer never stores into a slot of the window [_out, _in) that    *)
(* the consumer may take items from: the room it needs is there once it    *)
(* writes, by its check or by the override it made.                        *)
(***************************************************************************)
Filling == ppc \in {"write", "copy", "publish"}
RoomInv ==
  /\ in - out <= Size
  /\ Filling => in + plen - out <= Size

\* The bound MaxLead keeps every difference of the counters a small uint32_t
\* or a small negative one, so that Room is the room there is.
LeadInv ==
  LET ahead == out - in - (IF Filling THEN plen ELSE 0)
  IN  /\ ahead <= MaxLead + MaxGet
      /\ cpc # "idle" => ahead <= MaxLead

\* The ring holds the last Size items put, less those being overwritten.
WindowInv ==
  /\ \A i \in 0..in-1 :
       in + (IF ppc \in {"copy", "publish"} THEN plen ELSE 0) - Size <= i
         => buf[i % Size] = i
  /\ ppc = "publish" => \A j \in 0..plen-1 : buf[(in + j) % Size] = in + j

\* What each program point of an undisturbed Get_wait knows.
CleanInv ==
  clean =>
    /\ out <= in
    /\ cpc \in {"pollIn", "lenIn"} => out <= ld /\ ld <= in
    /\ cpc \in {"pollOut", "lenOut"} => ld = out
    /\ cpc \in {"load", "lenIn", "lenOut"} => want <= in - out \/ cnt > TimeoutMs
    /\ cpc = "lenIn" => want <= ld - out \/ cnt > TimeoutMs
    /\ cpc \in {"span", "base", "copy"} =>
         clen <= in - out /\ (clen < want => cnt > TimeoutMs)
    /\ cpc \in {"base", "copy"} => l = Min2(clen, Size - (out % Size))
    /\ cpc = "copy" =>
         base = out % Size /\ from = out /\ data = [k \in 1..clen |-> from + k - 1]

\* Until the first override every Get_wait is undisturbed.
UndisturbedInv == skipped = 0 => clean

(***************************************************************************)
(* A Get_wait that no override disturbed returns exactly the oldest items, *)
(* in order, none torn, stale or read past the ring.  It is what the frame *)
(* assembly needs of Get, and what the reads of _out at lines 64, 69 and   *)
(* 70 put at risk.                                                         *)
(***************************************************************************)
CleanGet ==
  cpc = "idle" /\ clean => result = [k \in 1..clen |-> from + k - 1]

(***************************************************************************)
(* Undisturbed, Get_wait comes back short only after timeout_ms polls: the *)
(* "udp time out" its caller prints for a short read is then true.         *)
(***************************************************************************)
ShortMeansTimeout ==
  cpc = "idle" /\ clean /\ clen < want => cnt > TimeoutMs

(***************************************************************************)
(* Both threads move _out; no move is lost to the other: every item below  *)
(* _out was delivered by a Get or dropped by an override.                  *)
(***************************************************************************)
EveryItemAccounted == out = delivered + skipped

\* The inductive invariant of the safety properties above.
IInv == /\ TypeOK /\ RoomInv /\ LeadInv /\ WindowInv /\ CleanInv
        /\ UndisturbedInv /\ CleanGet /\ ShortMeansTimeout /\ EveryItemAccounted

(***************************************************************************)
(* Get_wait returns whether or not a packet ever arrives.                  *)
(***************************************************************************)
GetReturns == cpc = "poll" ~> cpc = "idle"

(***************************************************************************)
(* What the comment at lines 72-73 promises, that the items are read out   *)
(* of the buffer before _out is modified: every Get returns consecutive    *)
(* items.  An override between the loads and the fetch_add breaks it.      *)
(***************************************************************************)
ReadBeforeOutMoves ==
  cpc = "idle" => \A k \in 1..clen : result[k] = from + k - 1

(***************************************************************************)
(* Until the first override the ring is the exact FIFO of PacketStream.    *)
(***************************************************************************)
Stream == INSTANCE PacketStream WITH
            Capacity <- Size, head <- out, tail <- in,
            taken <- result, overrun <- (skipped > 0)
ImplementsStream == Stream!Spec
=============================================================================
