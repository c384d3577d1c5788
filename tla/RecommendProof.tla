--------------------------- MODULE RecommendProof ---------------------------
(***************************************************************************)
(* Proofs about Recommend, for every width of the integers, every limit    *)
(* and every set of questions.                                             *)
(***************************************************************************)
EXTENDS Recommend, TLAPS

(* The inputs that reach the arithmetic.                                   *)
TypeInv ==
  /\ bandwidth \in Nat \ {0}
  /\ rtt \in Nat \ {0}
  /\ memory \in Nat \ {0}

LEMMA TypeInvariant == Spec => []TypeInv
<1>1. Init => TypeInv
  BY WidthAssumption, QuestionsAssumption DEF Init, Accepted, TypeInv
<1>2. TypeInv /\ [Next]_vars => TypeInv'
  <2> SUFFICES ASSUME TypeInv, [Next]_vars PROVE TypeInv'
    OBVIOUS
  <2>1. ASSUME NEW bw, NEW delay, NEW m \in Int, Ask(bw, delay, m) PROVE TypeInv'
    BY <2>1, WidthAssumption DEF Ask, Accepted, TypeInv
  <2>2. CASE UNCHANGED vars
    BY <2>2 DEF vars, TypeInv
  <2> QED
    BY <2>1, <2>2, QuestionsAssumption DEF Next
<1> QED
  BY <1>1, <1>2, PTL DEF Spec

-----------------------------------------------------------------------------
(* The saturating operators return the exact result or MaxInt, whichever   *)
(* is less.                                                                *)

LEMMA QuotientBounds ==
  ASSUME NEW n \in Nat, NEW b \in Nat \ {0}
  PROVE  /\ n \div b \in Nat
         /\ (n \div b) * b <= n
         /\ n < (n \div b) * b + b
<1>1. b * (n \div b) <= n /\ n < b * (n \div b) + b
  BY SMT
<1>2. n \div b \in Nat
  BY SMT
<1> QED
  BY <1>1, <1>2, SMT

LEMMA ProductMonotone ==
  ASSUME NEW a \in Nat, NEW b \in Nat, NEW c \in Nat, a <= b
  PROVE  a * c <= b * c
<1>1. b * c - a * c = (b - a) * c
  BY SMT
<1>2. (b - a) * c >= 0
  BY SMT
<1> QED
  BY <1>1, <1>2, SMT

LEMMA ProductExact ==
  ASSUME NEW a \in Nat, NEW b \in Nat
  PROVE  /\ SaturatingProduct(a, b) \in Nat
         /\ SaturatingProduct(a, b) = Least(a * b, MaxInt)
<1> USE WidthAssumption
<1>0. a * b \in Nat
  BY SMT
<1>1. CASE b = 0
  BY <1>0, <1>1, SMT DEF SaturatingProduct, Least
<1>2. CASE b > 0
  <2> DEFINE q == MaxInt \div b
  <2>1. q \in Nat /\ q * b <= MaxInt /\ MaxInt < q * b + b
    BY <1>2, QuotientBounds
  <2> HIDE DEF q
  <2>2. CASE a > q
    <3>1. (q + 1) * b <= a * b
      BY <2>1, <2>2, ProductMonotone
    <3>2. (q + 1) * b = q * b + b
      BY <2>1, SMT
    <3>3. MaxInt < a * b
      BY <1>0, <2>1, <3>1, <3>2, SMT
    <3> QED
      BY <1>0, <1>2, <2>2, <3>3 DEF SaturatingProduct, Least, q
  <2>3. CASE a <= q
    <3>1. a * b <= q * b
      BY <2>1, <2>3, ProductMonotone
    <3>2. a * b <= MaxInt
      BY <1>0, <2>1, <3>1, SMT
    <3> QED
      BY <1>0, <1>2, <2>1, <2>3, <3>2 DEF SaturatingProduct, Least, q
  <2> QED
    BY <2>1, <2>2, <2>3
<1> QED
  BY <1>1, <1>2

LEMMA SumExact ==
  ASSUME NEW a \in Nat, NEW b \in Nat \ {0}
  PROVE  /\ SaturatingAdd(a, b) \in Nat
         /\ SaturatingAdd(a, b) = Least(a + b, MaxInt)
BY WidthAssumption DEF SaturatingAdd, Least

(* Saturating early or late is the same as long as the other factor is     *)
(* not zero, so a chain of saturating operators saturates once.            *)
LEMMA SaturateOnce ==
  ASSUME NEW a \in Nat, NEW b \in Nat \ {0}
  PROVE  Least(Least(a, MaxInt) * b, MaxInt) = Least(a * b, MaxInt)
<1> USE WidthAssumption
<1>1. CASE a <= MaxInt
  BY <1>1 DEF Least
<1>2. CASE a > MaxInt
  <2>1. Least(a, MaxInt) = MaxInt
    BY <1>2 DEF Least
  <2>2. MaxInt * 1 <= MaxInt * b /\ a * 1 <= a * b
    <3>1. 1 * MaxInt <= b * MaxInt /\ 1 * a <= b * a
      BY ProductMonotone
    <3> QED
      BY <3>1, SMT
  <2>3. MaxInt * b \in Nat /\ a * b \in Nat /\ MaxInt * b >= MaxInt /\ a * b > MaxInt
    BY <1>2, <2>2, SMT
  <2> QED
    BY <2>1, <2>3 DEF Least
<1> QED
  BY <1>1, <1>2

(* TargetBuffer before its lower limit, in exact arithmetic.               *)
Exact(bw, delay) == 2 * bw * delay * BytesPerMbitMs + 2 * MiB

LEMMA BDPExact ==
  ASSUME NEW bw \in Nat \ {0}, NEW delay \in Nat \ {0}
  PROVE  /\ BDP(bw, delay) \in Nat
         /\ BDP(bw, delay) = Least(bw * delay * BytesPerMbitMs, MaxInt)
<1> USE WidthAssumption
<1> DEFINE P1 == SaturatingProduct(1, bw)
           P2 == SaturatingProduct(P1, delay)
<1>1. P1 \in Nat /\ P1 = Least(bw, MaxInt)
  <2>1. 1 * bw = bw
    OBVIOUS
  <2>2. P1 \in Nat /\ P1 = Least(1 * bw, MaxInt)
    BY ProductExact, Zenon
  <2> QED
    BY <2>1, <2>2, Zenon
<1> HIDE DEF P1
<1>2. P2 \in Nat /\ P2 = Least(P1 * delay, MaxInt)
  BY <1>1, ProductExact
<1>3. P2 = Least(bw * delay, MaxInt)
  BY <1>1, <1>2, SaturateOnce
<1>4. BDP(bw, delay) = SaturatingProduct(P2, BytesPerMbitMs)
  BY DEF BDP, P1
<1> HIDE DEF P2
<1>5. /\ BDP(bw, delay) \in Nat
      /\ BDP(bw, delay) = Least(P2 * BytesPerMbitMs, MaxInt)
  BY <1>2, <1>4, ProductExact
<1>6. bw * delay \in Nat
  BY SMT
<1> QED
  BY <1>3, <1>5, <1>6, SaturateOnce

LEMMA TargetExact ==
  ASSUME NEW bw \in Nat \ {0}, NEW delay \in Nat \ {0}
  PROVE  /\ Exact(bw, delay) \in Nat
         /\ TargetBuffer(bw, delay)
              = Greatest(MinimumBuffer, Least(Exact(bw, delay), MaxInt))
<1> USE WidthAssumption
<1> DEFINE B == BDP(bw, delay)
           X == bw * delay * BytesPerMbitMs
           R == SaturatingProduct(SaturatingProduct(1, B), 2)
           T == SaturatingAdd(R, 2 * MiB)
<1>1. X \in Nat
  <2>1. bw * delay \in Nat
    BY SMT
  <2> QED
    BY <2>1, SMT
<1>2. B \in Nat /\ B = Least(X, MaxInt)
  BY BDPExact
<1>3. Exact(bw, delay) = X * 2 + 2 * MiB
  BY SMT DEF Exact
<1> HIDE DEF B, X
<1>4. SaturatingProduct(1, B) = B
  <2>1. 1 * B = B
    BY <1>2
  <2>2. SaturatingProduct(1, B) = Least(1 * B, MaxInt)
    BY <1>2, ProductExact, Zenon
  <2>3. SaturatingProduct(1, B) = Least(B, MaxInt)
    BY <2>1, <2>2, Zenon
  <2> QED
    BY <1>1, <1>2, <2>3 DEF Least
<1>5. R \in Nat /\ R = Least(B * 2, MaxInt)
  BY <1>2, <1>4, ProductExact
<1>6. R = Least(X * 2, MaxInt)
  BY <1>1, <1>2, <1>5, SaturateOnce
<1> HIDE DEF R
<1>7. T \in Nat /\ T = Least(R + 2 * MiB, MaxInt)
  <2>1. 2 * MiB \in Nat \ {0}
    OBVIOUS
  <2> QED
    BY <1>5, <2>1, SumExact, Zenon
<1>8. TargetBuffer(bw, delay) = Greatest(MinimumBuffer, T)
  <2> SUFFICES TargetBuffer(bw, delay)
                 = IF T < MinimumBuffer THEN MinimumBuffer ELSE T
    <3>1. MinimumBuffer \in Nat
      BY DEF MinimumBuffer
    <3> QED
      BY <1>7, <3>1 DEF Greatest
  <2> QED
    BY DEF TargetBuffer, B, R
<1>9. T = Least(X * 2 + 2 * MiB, MaxInt)
  BY <1>1, <1>5, <1>6, <1>7 DEF Least
<1> QED
  BY <1>1, <1>3, <1>8, <1>9

-----------------------------------------------------------------------------
(* The answer.                                                             *)

(* The cap is within the two limits also when memory in bytes overflows.   *)
LEMMA CapInBounds ==
  ASSUME NEW m \in Nat
  PROVE  /\ MemoryCap(m) \in Int
         /\ MinimumBuffer <= MemoryCap(m)
         /\ MemoryCap(m) <= AbsoluteMax
<1> USE WidthAssumption
<1> DEFINE budget == Wrap(m * MiB) \div 32
<1>1. m * MiB \in Nat
  BY SMT
<1>2. Wrap(m * MiB) \in Int
  <2> DEFINE w == 2 * (MaxInt + 1)
  <2>1. w \in Nat /\ w > 0
    OBVIOUS
  <2> HIDE DEF w
  <2>2. (m * MiB) % w \in Int
    BY <1>1, <2>1, SMT
  <2>3. Wrap(m * MiB) = IF (m * MiB) % w > MaxInt THEN ((m * MiB) % w) - w
                        ELSE (m * MiB) % w
    BY DEF Wrap, w
  <2> QED
    BY <2>1, <2>2, <2>3
<1>3. budget \in Int
  BY <1>2
<1>4. MinimumBuffer \in Nat /\ AbsoluteMax \in Nat /\ MinimumBuffer <= AbsoluteMax
  BY DEF MinimumBuffer, AbsoluteMax
<1>5. MemoryCap(m) = CASE budget < MinimumBuffer -> MinimumBuffer
                       [] budget > AbsoluteMax   -> AbsoluteMax
                       [] OTHER                  -> budget
  BY DEF MemoryCap
<1> HIDE DEF budget
<1> QED
  BY <1>3, <1>4, <1>5

(* The answer of Recommend is between 4 MiB and 256 MiB for every          *)
(* bandwidth, RTT and memory it accepts (recommend.go:53-70).              *)
THEOREM BufferBounded == Spec => []BufferInBounds
<1>1. TypeInv => BufferInBounds
  <2> SUFFICES ASSUME TypeInv PROVE BufferInBounds
    OBVIOUS
  <2> USE WidthAssumption
  <2>1. /\ MemoryCap(memory) \in Int
        /\ MinimumBuffer <= MemoryCap(memory)
        /\ MemoryCap(memory) <= AbsoluteMax
    BY CapInBounds DEF TypeInv
  <2>2. /\ Exact(bandwidth, rtt) \in Nat
        /\ TargetBuffer(bandwidth, rtt)
             = Greatest(MinimumBuffer, Least(Exact(bandwidth, rtt), MaxInt))
    BY TargetExact DEF TypeInv
  <2>3. MinimumBuffer \in Nat /\ AbsoluteMax \in Nat
    BY DEF MinimumBuffer, AbsoluteMax
  <2>4. TargetBuffer(bandwidth, rtt) \in Nat /\ MinimumBuffer <= TargetBuffer(bandwidth, rtt)
    BY <2>2, <2>3 DEF Greatest, Least
  <2> QED
    BY <2>1, <2>3, <2>4 DEF BufferInBounds, BufferMax
<1> QED
  BY <1>1, TypeInvariant, PTL

(* What the README promises in exact arithmetic, as a function.            *)
Documented(bw, delay, m) ==
  Greatest(MinimumBuffer,
           Least(Exact(bw, delay), Least((m * MiB) \div 32, AbsoluteMax)))

(* The documented answer for inputs whose memory in bytes fits MaxInt.     *)
LEMMA AnswerExact ==
  ASSUME NEW bw \in Nat \ {0}, NEW delay \in Nat \ {0}, NEW m \in Nat,
         m * MiB <= MaxInt
  PROVE  BufferMax(bw, delay, m) = Documented(bw, delay, m)
<1> USE WidthAssumption
<1> DEFINE n == m * MiB
<1>1. n \in Nat /\ n <= MaxInt
  BY SMT
<1>2. Wrap(m * MiB) = n
  <2> HIDE DEF n
  <2>1. n % (2 * (MaxInt + 1)) = n
    <3> DEFINE w == 2 * (MaxInt + 1)
    <3>1. w \in Nat /\ w > 0 /\ n < w
      BY <1>1
    <3> HIDE DEF w
    <3>2. n % w = n
      BY <1>1, <3>1, SMTT(30)
    <3> QED
      BY <3>2 DEF w
  <2>2. Wrap(n) = n
    BY <1>1, <2>1 DEF Wrap
  <2> QED
    BY <2>2 DEF n
<1>3. MemoryCap(m) = CASE n \div 32 < MinimumBuffer -> MinimumBuffer
                       [] n \div 32 > AbsoluteMax   -> AbsoluteMax
                       [] OTHER                     -> n \div 32
  BY <1>2 DEF MemoryCap
<1>4. Documented(bw, delay, m)
       = Greatest(MinimumBuffer, Least(Exact(bw, delay), Least(n \div 32, AbsoluteMax)))
  BY DEF Documented
<1>5. /\ Exact(bw, delay) \in Nat
      /\ TargetBuffer(bw, delay)
           = Greatest(MinimumBuffer, Least(Exact(bw, delay), MaxInt))
  BY TargetExact
<1> HIDE DEF n
<1>6. n \div 32 \in Int
  BY <1>1
<1>7. /\ MinimumBuffer \in Nat /\ AbsoluteMax \in Nat
      /\ MinimumBuffer <= AbsoluteMax /\ AbsoluteMax <= MaxInt
  BY DEF MinimumBuffer, AbsoluteMax
<1> QED
  BY <1>3, <1>4, <1>5, <1>6, <1>7 DEF BufferMax, Greatest, Least

(* The answer is the documented minimum in exact arithmetic: no saturation *)
(* shows in it while memory in bytes fits an int64 (README.md:171-178,     *)
(* recommend.go:53-70).                                                    *)
THEOREM BufferDocumented == Spec => []BufferAsDocumented
<1>1. TypeInv => BufferAsDocumented
  BY AnswerExact DEF TypeInv, BufferAsDocumented, Documented, Exact
<1> QED
  BY <1>1, TypeInvariant, PTL
=============================================================================
