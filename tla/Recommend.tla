------------------------------ MODULE Recommend ------------------------------
(***************************************************************************)
(* The buffer size internal/tune computes from the bandwidth and the RTT   *)
(* given by the operator and the memory of the host, in the fixed-width    *)
(* signed arithmetic of Go.  The behaviours are questions put one after    *)
(* the other; the answer depends on the inputs of the question alone.      *)
(***************************************************************************)
EXTENDS Integers

CONSTANTS
  MaxInt,           \* math.MaxInt64
  MiB,              \* bytes in the unit of memory
  BytesPerMbitMs,   \* 125, the bytes one Mbps delivers in one ms
  MaxBandwidth,     \* the largest bandwidth accepted
  MaxRTT,           \* the largest RTT accepted
  MinMemory,        \* the least memory accepted
  Bandwidths,       \* the bandwidths asked for
  Delays,           \* the RTTs asked for
  Memories          \* the memory sizes of hosts

ASSUME WidthAssumption ==
  /\ {MiB, BytesPerMbitMs, MaxBandwidth, MaxRTT, MinMemory} \subseteq Nat \ {0}
  /\ MaxInt \in Nat
  /\ MaxInt >= 256 * MiB

ASSUME QuestionsAssumption ==
  Bandwidths \subseteq Int /\ Delays \subseteq Int /\ Memories \subseteq Int

VARIABLES bandwidth, rtt, memory

vars == <<bandwidth, rtt, memory>>

MinimumBuffer == 4 * MiB
AbsoluteMax   == 256 * MiB

(* A result of int64 arithmetic.                                           *)
Wrap(n) ==
  LET m == n % (2 * (MaxInt + 1))
  IN IF m > MaxInt THEN m - 2 * (MaxInt + 1) ELSE m

WrappingProduct(a, b) == Wrap(a * b)
CapByMemoryOnly(m) ==
  LET budget == Wrap(m * MiB) \div 32
  IN IF budget < MinimumBuffer THEN MinimumBuffer ELSE budget

SaturatingProduct(a, b) == IF b > 0 /\ a > MaxInt \div b THEN MaxInt ELSE a * b

SaturatingAdd(a, b) == IF b > 0 /\ a > MaxInt - b THEN MaxInt ELSE a + b

BDP(bw, delay) ==
  SaturatingProduct(SaturatingProduct(SaturatingProduct(1, bw), delay), BytesPerMbitMs)

TargetBuffer(bw, delay) ==
  LET target == SaturatingAdd(SaturatingProduct(SaturatingProduct(1, BDP(bw, delay)), 2), 2 * MiB)
  IN IF target < MinimumBuffer THEN MinimumBuffer ELSE target

(* Go divides towards zero; a negative budget ends as MinimumBuffer either *)
(* way.                                                                    *)
MemoryCap(m) ==
  LET budget == Wrap(m * MiB) \div 32
  IN CASE budget < MinimumBuffer -> MinimumBuffer
       [] budget > AbsoluteMax   -> AbsoluteMax
       [] OTHER                  -> budget

BufferMax(bw, delay, m) ==
  IF TargetBuffer(bw, delay) > MemoryCap(m) THEN MemoryCap(m) ELSE TargetBuffer(bw, delay)

(* What Recommend refuses before it computes anything.                     *)
Accepted(bw, delay, m) == bw \in 1..MaxBandwidth /\ delay \in 1..MaxRTT /\ m >= MinMemory

Init ==
  /\ bandwidth \in Bandwidths
  /\ rtt \in Delays
  /\ memory \in Memories
  /\ Accepted(bandwidth, rtt, memory)

Ask(bw, delay, m) ==
  /\ Accepted(bw, delay, m)
  /\ bandwidth' = bw
  /\ rtt' = delay
  /\ memory' = m

Next == \E bw \in Bandwidths, delay \in Delays, m \in Memories : Ask(bw, delay, m)

Spec == Init /\ [][Next]_vars

-----------------------------------------------------------------------------
(* Properties.                                                             *)

Least(a, b) == IF a < b THEN a ELSE b
Greatest(a, b) == IF a < b THEN b ELSE a

(* The answer is between 4 MiB and 256 MiB, whatever overflows on the way  *)
(* (recommend.go:12-15, README.md:171-178).                                *)
BufferInBounds ==
  /\ MinimumBuffer <= BufferMax(bandwidth, rtt, memory)
  /\ BufferMax(bandwidth, rtt, memory) <= AbsoluteMax

(* README.md:171-178: the answer is the least of 2 BDP + 2 MiB, memory/32  *)
(* and 256 MiB, in exact arithmetic, and not below 4 MiB: saturation never *)
(* shows as long as the memory in bytes fits an int64.                     *)
BufferAsDocumented ==
  memory * MiB <= MaxInt =>
    BufferMax(bandwidth, rtt, memory) =
      Greatest(MinimumBuffer,
               Least(2 * bandwidth * rtt * BytesPerMbitMs + 2 * MiB,
                     Least((memory * MiB) \div 32, AbsoluteMax)))
=============================================================================
