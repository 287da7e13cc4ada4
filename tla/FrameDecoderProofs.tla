------------------------- MODULE FrameDecoderProofs -------------------------
(***************************************************************************)
(* The counters of the frame decoder, for all sources made of any frames,  *)
(* cut off anywhere, and all sequences of calls.  The argument: the size   *)
(* of what was read and the content of what was decoded are sums over the  *)
(* blocks of the frame, so the place in the source says which block comes  *)
(* next, as long as the source is the one the state was made for; a state  *)
(* that remembers an older frame is never taken for the one at hand.       *)
(***************************************************************************)
EXTENDS Interfaces, NaturalsInduction, WellFoundedInduction, TLAPS
-----------------------------------------------------------------------------
(* Sums of sizes.                                                          *)

\* A nonempty set of numbers has a least element.
LEMMA LeastNumber ==
    ASSUME NEW T \in SUBSET Nat, T # {}
    PROVE  \E m \in T : \A n \in T : m <= n
<1>1. PICK m \in T : \A y \in T : ~ (<<y, m>> \in OpToRel(<, Nat))
  BY NatLessThanWellFounded, WFMin, Zenon
<1>2. \A y \in T : ~(y < m)
  BY <1>1, Zenon DEF OpToRel
<1> QED
  BY <1>2

\* Induction, stated with a set: no operator parameter is needed.
LEMMA InductionOnSets ==
    ASSUME NEW S \in SUBSET Nat, 0 \in S, \A n \in S : n + 1 \in S
    PROVE  \A n \in Nat : n \in S
<1> DEFINE T == Nat \ S
<1> SUFFICES ASSUME T # {} PROVE FALSE
  OBVIOUS
<1>1. PICK m \in T : \A n \in T : m <= n
  BY LeastNumber
<1>2. m # 0 /\ m \in Nat
  OBVIOUS
<1>3. m - 1 \in Nat /\ ~(m <= m - 1) /\ (m - 1) + 1 = m
  BY <1>2
<1>4. m - 1 \in S
  BY <1>1, <1>3
<1> QED
  BY <1>3, <1>4

\* The equation Total solves.
Summed(sizes, n, sum) ==
    sum = [i \in 0..n |-> IF i = 0 THEN 0 ELSE sum[i - 1] + sizes[i]]

\* It has a solution.
LEMMA SummedExists ==
    ASSUME NEW sizes, NEW n \in Nat
    PROVE  \E sum : Summed(sizes, n, sum)
<1> DEFINE S == {m \in Nat : \E sum : Summed(sizes, m, sum)}
<1>1. 0 \in S
  <2> DEFINE one == [i \in 0..0 |-> 0]
  <2>1. Summed(sizes, 0, one)
    BY DEF Summed
  <2> QED
    BY <2>1
<1>2. ASSUME NEW m \in S
      PROVE  m + 1 \in S
  <2>1. PICK sum : Summed(sizes, m, sum)
    OBVIOUS
  <2> DEFINE next == [i \in 0..(m + 1) |-> IF i = m + 1 THEN sum[m] + sizes[m + 1] ELSE sum[i]]
  <2>2. m \in Nat
    OBVIOUS
  <2>3. ASSUME NEW i \in 0..(m + 1)
        PROVE  next[i] = IF i = 0 THEN 0 ELSE next[i - 1] + sizes[i]
    <3>1. CASE i = m + 1
      <4>1. i - 1 = m /\ m \in 0..(m + 1) /\ m # m + 1 /\ i # 0
        BY <2>2, <3>1
      <4>2. next[m] = sum[m]
        BY <4>1
      <4> QED
        BY <3>1, <4>1, <4>2
    <3>2. CASE i # m + 1 /\ i # 0
      <4>1. i \in 0..m /\ i - 1 \in 0..(m + 1) /\ i - 1 # m + 1
        BY <2>2, <3>2
      <4>2. next[i - 1] = sum[i - 1] /\ next[i] = sum[i]
        BY <3>2, <4>1
      <4>3. sum[i] = sum[i - 1] + sizes[i]
        BY <2>1, <3>2, <4>1, Zenon DEF Summed
      <4> QED
        BY <3>2, <4>2, <4>3
    <3>3. CASE i = 0
      <4>1. i \in 0..m /\ i # m + 1
        BY <2>2, <3>3
      <4>2. next[i] = sum[i]
        BY <4>1
      <4>3. sum[i] = 0
        BY <2>1, <3>3, <4>1, Zenon DEF Summed
      <4> QED
        BY <3>3, <4>2, <4>3
    <3> QED
      BY <3>1, <3>2, <3>3
  <2>4. next = [i \in 0..(m + 1) |-> next[i]]
    OBVIOUS
  <2> HIDE DEF next
  <2>5. Summed(sizes, m + 1, next)
    BY <2>3, <2>4, Zenon DEF Summed
  <2> QED
    BY <2>2, <2>5
<1> HIDE DEF S
<1>3. \A m \in Nat : m \in S
  BY <1>1, <1>2, InductionOnSets DEF S
<1> QED
  BY <1>3 DEF S

\* The sum of the first k sizes.
Sum(g, k) == Total([i \in 1..k |-> g[i]])

\* Each sum is the one before and the next size.
LEMMA SumSteps ==
    ASSUME NEW n \in Nat, NEW g \in [1..n -> Nat]
    PROVE  /\ Sum(g, 0) = 0 /\ \A k \in 0..n : Sum(g, k) \in Nat
           /\ \A k \in 1..n : Sum(g, k) = Sum(g, k - 1) + g[k]
<1>1. PICK all : Summed(g, n, all)
  BY SummedExists
<1>2. /\ all[0] = 0
      /\ \A i \in 1..n : all[i] = all[i - 1] + g[i]
  <2>1. \A i \in 0..n : all[i] = IF i = 0 THEN 0 ELSE all[i - 1] + g[i]
    BY <1>1, Zenon DEF Summed
  <2>2. 0 \in 0..n /\ \A i \in 1..n : i \in 0..n /\ i # 0
    OBVIOUS
  <2> QED
    BY <2>1, <2>2, Zenon
<1>3. \A i \in 0..n : all[i] \in Nat
  <2> DEFINE S == {i \in Nat : i <= n => all[i] \in Nat}
  <2>1. 0 \in S
    BY <1>2
  <2>2. ASSUME NEW i \in S PROVE i + 1 \in S
    <3> SUFFICES ASSUME i + 1 <= n PROVE all[i + 1] \in Nat
      OBVIOUS
    <3>1. i \in Nat /\ i + 1 \in 1..n /\ (i + 1) - 1 = i /\ i <= n
      OBVIOUS
    <3>2. all[i + 1] = all[i] + g[i + 1]
      BY <1>2, <3>1
    <3> QED
      BY <3>1, <3>2
  <2> HIDE DEF S
  <2>3. \A i \in Nat : i \in S
    BY <2>1, <2>2, InductionOnSets DEF S
  <2> QED
    BY <2>3 DEF S
<1>4. ASSUME NEW k \in 0..n PROVE Sum(g, k) = all[k]
  <2> DEFINE s == [i \in 1..k |-> g[i]]
             sum == CHOOSE f : Summed(s, k, f)
  <2>1. Len(s) = k /\ k \in Nat
    OBVIOUS
  <2>2. Sum(g, k) = sum[k]
    <3>1. Total(s) = LET f == CHOOSE f : f = [i \in 0..Len(s) |-> IF i = 0 THEN 0 ELSE f[i - 1] + s[i]]
                     IN  f[Len(s)]
      BY Zenon DEF Total
    <3> QED
      BY <2>1, <3>1, Zenon DEF Sum, Summed
  <2> HIDE DEF sum
  <2>3. Summed(s, k, sum)
    BY <2>1, SummedExists, Zenon DEF sum
  <2>4. \A i \in 0..k : sum[i] = IF i = 0 THEN 0 ELSE sum[i - 1] + s[i]
    BY <2>3, Zenon DEF Summed
  <2> DEFINE S == {i \in Nat : i <= k => sum[i] = all[i]}
  <2>5. 0 \in S
    <3>1. 0 \in 0..k
      BY <2>1
    <3>2. sum[0] = 0
      BY <2>4, <3>1, Zenon
    <3> QED
      BY <1>2, <3>2
  <2>6. ASSUME NEW i \in S PROVE i + 1 \in S
    <3> SUFFICES ASSUME i + 1 <= k PROVE sum[i + 1] = all[i + 1]
      OBVIOUS
    <3>1. /\ i \in Nat /\ i + 1 \in 1..n /\ i + 1 \in 0..k /\ i + 1 \in 1..k
          /\ (i + 1) - 1 = i /\ i <= k /\ i + 1 # 0
      BY <2>1
    <3>2. all[i + 1] = all[i] + g[i + 1] /\ sum[i + 1] = sum[i] + s[i + 1]
      BY <1>2, <2>4, <3>1
    <3> QED
      BY <3>1, <3>2
  <2> HIDE DEF S
  <2>7. \A i \in Nat : i \in S
    BY <2>5, <2>6, InductionOnSets DEF S
  <2> QED
    BY <2>1, <2>2, <2>7 DEF S
<1>5. Sum(g, 0) = 0
  BY <1>2, <1>4
<1>6. ASSUME NEW k \in 1..n PROVE Sum(g, k) = Sum(g, k - 1) + g[k]
  <2>1. k \in 0..n /\ k - 1 \in 0..n
    OBVIOUS
  <2>2. Sum(g, k) = all[k] /\ Sum(g, k - 1) = all[k - 1]
    BY <1>4, <2>1
  <2> QED
    BY <1>2, <2>2
<1> QED
  BY <1>3, <1>4, <1>5, <1>6

\* Sums do not decrease, and where sizes are positive they grow.
LEMMA SumGrows ==
    ASSUME NEW n \in Nat, NEW g \in [1..n -> Nat]
    PROVE  \A i, j \in 0..n :
              /\ i <= j => Sum(g, i) <= Sum(g, j)
              /\ i < j /\ (\A k \in 1..n : g[k] > 0) => Sum(g, i) < Sum(g, j)
<1> DEFINE s(k) == Sum(g, k)
<1>1. /\ \A k \in 0..n : s(k) \in Nat
      /\ \A k \in 1..n : s(k) = s(k - 1) + g[k]
  BY SumSteps
<1> HIDE DEF s
<1> DEFINE S == {m \in Nat : \A i \in 0..n :
                    i + m <= n => /\ s(i) <= s(i + m)
                                  /\ m > 0 /\ (\A k \in 1..n : g[k] > 0) => s(i) < s(i + m)}
<1>2. 0 \in S
  <2> SUFFICES ASSUME NEW i \in 0..n
               PROVE  s(i) <= s(i + 0) /\ ~(0 > 0)
    OBVIOUS
  <2>1. i + 0 = i /\ s(i) \in Nat
    BY <1>1
  <2> QED
    BY <2>1
<1>3. ASSUME NEW m \in S PROVE m + 1 \in S
  <2> SUFFICES ASSUME NEW i \in 0..n, i + (m + 1) <= n
               PROVE  /\ s(i) <= s(i + (m + 1))
                      /\ (\A k \in 1..n : g[k] > 0) => s(i) < s(i + (m + 1))
    OBVIOUS
  <2> DEFINE k == i + (m + 1)
  <2>1. m \in Nat /\ k \in 1..n /\ k - 1 = i + m /\ i + m \in 0..n /\ i + m <= n /\ k \in 0..n
    OBVIOUS
  <2>2. s(i) <= s(i + m) /\ s(k) = s(i + m) + g[k] /\ g[k] \in Nat
    BY <1>1, <2>1
  <2>3. s(i) \in Nat /\ s(i + m) \in Nat /\ s(k) \in Nat
    BY <1>1, <2>1
  <2> QED
    BY <2>1, <2>2, <2>3
<1> HIDE DEF S
<1>4. \A m \in Nat : m \in S
  BY <1>2, <1>3, InductionOnSets DEF S
<1>5. ASSUME NEW i \in 0..n, NEW j \in 0..n
      PROVE  /\ i <= j => s(i) <= s(j)
             /\ i < j /\ (\A k \in 1..n : g[k] > 0) => s(i) < s(j)
  <2> SUFFICES ASSUME i <= j
               PROVE  s(i) <= s(j) /\ (i < j /\ (\A k \in 1..n : g[k] > 0) => s(i) < s(j))
    OBVIOUS
  <2>1. PICK m \in Nat : i + m = j /\ (i < j => m > 0)
    <3> WITNESS j - i \in Nat
    <3> QED
      OBVIOUS
  <2>2. m \in S
    BY <1>4
  <2>3. i + m <= n
    BY <2>1
  <2>4. s(i) <= s(i + m) /\ (m > 0 /\ (\A k \in 1..n : g[k] > 0) => s(i) < s(i + m))
    BY <2>2, <2>3 DEF S
  <2> QED
    BY <2>1, <2>4
<1> QED
  BY <1>5 DEF s

-----------------------------------------------------------------------------
(* The layout of a frame.                                                  *)

\* What the first k blocks of a frame decode to.
Content(f, k) == Total([i \in 1..k |-> f.blocks[i].size])

\* A frame as a source may have it.
Frames == {f \in FrameForms : /\ f.kind = "zstd" => f.blocks # <<>> /\ f.skipped = 0
                              /\ f.kind = "skippable" => f.blocks = <<>> /\ ~f.checksum}

\* Blocks lie one behind the other, and no two at the same place.
Laid(f, n) ==
    /\ \A k \in 0..n : BlocksSize(f, k) \in Nat
    /\ BlocksSize(f, 0) = 0
    /\ \A k \in 1..n : BlocksSize(f, k) = BlocksSize(f, k - 1) + BlockSize(f.blocks[k])
    /\ \A i, j \in 0..n : i < j => BlocksSize(f, i) < BlocksSize(f, j)

Held(f, n) ==
    /\ \A k \in 0..n : Content(f, k) \in Nat
    /\ Content(f, 0) = 0
    /\ \A k \in 1..n : Content(f, k) = Content(f, k - 1) + f.blocks[k].size
    /\ \A i, j \in 0..n : i <= j => Content(f, i) <= Content(f, j)

\* The blocks of a frame are laid out.
LEMMA BlocksAreLaid ==
    ASSUME NEW f \in Frames
    PROVE  Laid(f, Len(f.blocks))
<1> DEFINE n == Len(f.blocks)
           g == [k \in 1..n |-> BlockSize(f.blocks[k])]
<1>1. n \in Nat /\ \A k \in 1..n : f.blocks[k] \in BlockForms
  BY DEF Frames, FrameForms
<1>2. g \in [1..n -> Nat] /\ \A k \in 1..n : g[k] > 0
  BY <1>1 DEF BlockForms, BlockSize, BlockHeader
<1>3. ASSUME NEW k \in 0..n PROVE BlocksSize(f, k) = Sum(g, k)
  <2>1. [i \in 1..k |-> BlockSize(f.blocks[i])] = [i \in 1..k |-> g[i]]
    BY <1>1
  <2> QED
    BY <2>1, Zenon DEF BlocksSize, Sum
<1>4. \A k \in 1..n : g[k] = BlockSize(f.blocks[k]) /\ k - 1 \in 0..n /\ k \in 0..n
  BY <1>1
<1>5. 0 \in 0..n
  BY <1>1
<1> HIDE DEF g, n
<1>6. /\ Sum(g, 0) = 0 /\ \A k \in 0..n : Sum(g, k) \in Nat
      /\ \A k \in 1..n : Sum(g, k) = Sum(g, k - 1) + g[k]
  BY <1>1, <1>2, SumSteps
<1>7. \A i, j \in 0..n : i < j => Sum(g, i) < Sum(g, j)
  BY <1>1, <1>2, SumGrows, Zenon
<1>8. Laid(f, n)
  BY <1>3, <1>4, <1>5, <1>6, <1>7, Zenon DEF Laid
<1> QED
  BY <1>8 DEF n

\* The content of a frame is the sum of its blocks.
LEMMA ContentIsHeld ==
    ASSUME NEW f \in Frames
    PROVE  Held(f, Len(f.blocks)) /\ ContentSize(f) = Content(f, Len(f.blocks))
<1> DEFINE n == Len(f.blocks)
           g == [k \in 1..n |-> f.blocks[k].size]
<1>1. n \in Nat /\ \A k \in 1..n : f.blocks[k] \in BlockForms
  BY DEF Frames, FrameForms
<1>2. g \in [1..n -> Nat]
  BY <1>1 DEF BlockForms
<1>3. ASSUME NEW k \in 0..n PROVE Content(f, k) = Sum(g, k)
  <2>1. [i \in 1..k |-> f.blocks[i].size] = [i \in 1..k |-> g[i]]
    BY <1>1
  <2> QED
    BY <2>1, Zenon DEF Content, Sum
<1>4. \A k \in 1..n : g[k] = f.blocks[k].size /\ k - 1 \in 0..n /\ k \in 0..n
  BY <1>1
<1>5. 0 \in 0..n
  BY <1>1
<1>9. ContentSize(f) = Content(f, n)
  BY Zenon DEF ContentSize, Content
<1> HIDE DEF g, n
<1>6. /\ Sum(g, 0) = 0 /\ \A k \in 0..n : Sum(g, k) \in Nat
      /\ \A k \in 1..n : Sum(g, k) = Sum(g, k - 1) + g[k]
  BY <1>1, <1>2, SumSteps
<1>7. \A i, j \in 0..n : i <= j => Sum(g, i) <= Sum(g, j)
  BY <1>1, <1>2, SumGrows, Zenon
<1>8. Held(f, n)
  BY <1>3, <1>4, <1>5, <1>6, <1>7, Zenon DEF Held
<1> QED
  BY <1>8, <1>9 DEF n

\* The block whose header begins at a place is found from the place.
LEMMA BlockIsFound ==
    ASSUME NEW f \in Frames, NEW k \in 1..Len(f.blocks)
    PROVE  /\ BlockStart(f, k) = f.header + BlocksSize(f, k - 1)
           /\ (CHOOSE j \in 1..Len(f.blocks) : BlockStart(f, k) = BlockStart(f, j)) = k
           /\ BlockStart(f, k) = BlockStart(f, Len(f.blocks)) <=> k = Len(f.blocks)
<1> DEFINE n == Len(f.blocks)
<1>1. n \in Nat /\ f.header \in Nat /\ n \in 1..n
  BY DEF Frames, FrameForms
<1>2. Laid(f, n)
  BY BlocksAreLaid
<1> HIDE DEF n
<1>3. ASSUME NEW i \in 1..n, NEW j \in 1..n, i # j
      PROVE  BlockStart(f, i) # BlockStart(f, j)
  <2>1. i - 1 \in 0..n /\ j - 1 \in 0..n /\ (i - 1 < j - 1 \/ j - 1 < i - 1)
    BY <1>1, <1>3
  <2>2. BlocksSize(f, i - 1) # BlocksSize(f, j - 1)
        /\ BlocksSize(f, i - 1) \in Nat /\ BlocksSize(f, j - 1) \in Nat
    <3>1. /\ \A m \in 0..n : BlocksSize(f, m) \in Nat
          /\ \A l, m \in 0..n : l < m => BlocksSize(f, l) < BlocksSize(f, m)
      BY <1>2, Zenon DEF Laid
    <3>2. BlocksSize(f, i - 1) \in Nat /\ BlocksSize(f, j - 1) \in Nat
      BY <2>1, <3>1
    <3>3. BlocksSize(f, i - 1) < BlocksSize(f, j - 1) \/ BlocksSize(f, j - 1) < BlocksSize(f, i - 1)
      BY <2>1, <3>1
    <3> QED
      BY <3>2, <3>3
  <2> QED
    BY <2>2, <1>1 DEF BlockStart
<1>4. k \in 1..n
  BY DEF n
<1>5. (CHOOSE j \in 1..n : BlockStart(f, k) = BlockStart(f, j)) = k
  BY <1>3, <1>4
<1>6. BlockStart(f, k) = BlockStart(f, n) <=> k = n
  BY <1>1, <1>3, <1>4
<1> QED
  BY <1>5, <1>6, Zenon DEF BlockStart, n

\* A source holds frames.
LEMMA FramesOfSource ==
    ASSUME NEW frames \in Inputs
    PROVE  Len(frames) \in Nat /\ \A i \in 1..Len(frames) : frames[i] \in Frames
<1>1. WellFormed(frames)
  BY InputsAssumption
<1>2. frames \in Seq(FrameForms)
  BY <1>1 DEF WellFormed
<1>3. Len(frames) \in Nat /\ \A i \in 1..Len(frames) : frames[i] \in FrameForms
  BY <1>2
<1> QED
  BY <1>1, <1>3 DEF WellFormed, Frames

\* The size of a frame.
LEMMA FrameSizeIsNat ==
    ASSUME NEW f \in Frames
    PROVE  FrameSize(f) \in Nat /\ f.header <= FrameSize(f)
<1>1. f.header \in Nat /\ f.skipped \in Nat /\ Len(f.blocks) \in Nat
  BY DEF Frames, FrameForms
<1>2. Laid(f, Len(f.blocks))
  BY BlocksAreLaid
<1>3. BlocksSize(f, Len(f.blocks)) \in Nat
  BY <1>1, <1>2 DEF Laid
<1>4. ChecksumSize(f) \in Nat
  BY DEF ChecksumSize, Checksum
<1> QED
  BY <1>1, <1>3, <1>4, SMTT(40) DEF FrameSize

\* Where the frames of a source are.
InOrder(frames) ==
    /\ FrameStart(frames, 1) = 0
    /\ \A i \in 1..(Len(frames) + 1) : FrameStart(frames, i) \in Nat
    /\ \A i \in 1..Len(frames) :
          FrameStart(frames, i + 1) = FrameStart(frames, i) + FrameSize(frames[i])
    /\ \A i, j \in 1..(Len(frames) + 1) : i <= j => FrameStart(frames, i) <= FrameStart(frames, j)

\* Frames lie one behind the other.
LEMMA FramesInOrder ==
    ASSUME NEW frames \in Inputs
    PROVE  InOrder(frames)
<1> DEFINE n == Len(frames)
           g == [k \in 1..n |-> FrameSize(frames[k])]
<1>1. n \in Nat /\ \A k \in 1..n : frames[k] \in Frames
  BY FramesOfSource
<1>2. g \in [1..n -> Nat] /\ \A k \in 1..n : g[k] = FrameSize(frames[k])
  BY <1>1, FrameSizeIsNat
<1>3. ASSUME NEW i \in 1..(n + 1) PROVE FrameStart(frames, i) = Sum(g, i - 1)
  <2>1. i - 1 \in 0..n /\ [k \in 1..(i - 1) |-> FrameSize(frames[k])] = [k \in 1..(i - 1) |-> g[k]]
    BY <1>1
  <2> QED
    BY <2>1, Zenon DEF FrameStart, Sum
<1> HIDE DEF g
<1>4. /\ Sum(g, 0) = 0 /\ \A k \in 0..n : Sum(g, k) \in Nat
      /\ \A k \in 1..n : Sum(g, k) = Sum(g, k - 1) + g[k]
  BY <1>1, <1>2, SumSteps
<1>5. \A i, j \in 0..n : i <= j => Sum(g, i) <= Sum(g, j)
  BY <1>1, <1>2, SumGrows, Zenon
<1> HIDE DEF n
<1>6. FrameStart(frames, 1) = 0
  BY <1>1, <1>3, <1>4
<1>7. ASSUME NEW i \in 1..(n + 1) PROVE FrameStart(frames, i) \in Nat
  BY <1>1, <1>3, <1>4
<1>8. ASSUME NEW i \in 1..n
      PROVE  FrameStart(frames, i + 1) = FrameStart(frames, i) + FrameSize(frames[i])
  <2>1. i \in 1..(n + 1) /\ i + 1 \in 1..(n + 1) /\ (i + 1) - 1 = i
    BY <1>1
  <2>2. FrameStart(frames, i) = Sum(g, i - 1) /\ FrameStart(frames, i + 1) = Sum(g, i)
    BY <1>3, <2>1
  <2> QED
    BY <1>2, <1>4, <2>2
<1>9. ASSUME NEW i \in 1..(n + 1), NEW j \in 1..(n + 1), i <= j
      PROVE  FrameStart(frames, i) <= FrameStart(frames, j)
  <2>1. i - 1 \in 0..n /\ j - 1 \in 0..n /\ i - 1 <= j - 1
    BY <1>1, <1>9
  <2> QED
    BY <1>3, <1>5, <2>1
<1> QED
  BY <1>6, <1>7, <1>8, <1>9 DEF InOrder, n

\* No frame starts before the source.
LEMMA FramesAreLaid ==
    ASSUME NEW frames \in Inputs, NEW i \in 1..(Len(frames) + 1)
    PROVE  FrameStart(frames, i) \in Nat
  BY FramesInOrder DEF InOrder

-----------------------------------------------------------------------------
(* The invariant.                                                          *)

SourceForms == [id : Nat, frames : Inputs, cur : Nat, pos : Nat, end : Nat, usable : BOOLEAN]

SourceOK ==
    /\ source \in SourceForms
    /\ source.id \in 1..MaxSources /\ source.cur \in 0..Len(source.frames)
    /\ source.pos <= source.end

\* The counters of a frame that is still being decoded.  When a body could not
\* be decoded its header has been counted, and some of its content may be there.
Unfinished(s, c) ==
    /\ s.block_counter < Len(s.header.blocks) /\ ~s.check_sum
    /\ s.bytes_read_counter - s.header.header - BlocksSize(s.header, s.block_counter)
          \in {0, BlockHeader}
    /\ c + s.buffered \in Content(s.header, s.block_counter)..Content(s.header, s.block_counter + 1)

\* The counters of a frame whose last block was decoded.
Finished(s, c) ==
    /\ s.block_counter = Len(s.header.blocks)
    /\ c + s.buffered = ContentSize(s.header)
    /\ s.bytes_read_counter = s.header.header + BlocksSize(s.header, s.block_counter)
                                + (IF s.check_sum THEN Checksum ELSE 0)
    /\ s.check_sum => s.header.checksum

\* c bytes of the frame of state s were given to callers.
Counted(s, c) ==
    /\ s \in States /\ s.header \in Frames /\ s.header.kind = "zstd"
    /\ s.frame_finished => Finished(s, c)
    /\ ~s.frame_finished => Unfinished(s, c)

DecoderOK ==
    /\ dicts \subseteq Dicts /\ collected \in Nat
    /\ state # None => Counted(state, collected)

\* The frame of the state was opened before, in this source or an earlier one.
OpenedBefore ==
    state # None =>
        /\ state.of[1] <= source.id
        /\ state.of[1] = source.id => state.of[2] \in 1..source.cur

\* While the source is where the decoder left it, the counters say where that is:
\* at the place of the source, or ahead of it in a call of decode_from_to.
OnFrame ==
    InFrame =>
        /\ state.header = source.frames[source.cur]
        /\ call.op # "from_to" => state.bytes_read_counter = FramePos
        /\ ~state.frame_finished =>
              /\ state.bytes_read_counter = BlockStart(state.header, state.block_counter + 1)
              /\ collected + state.buffered = Content(state.header, state.block_counter)

\* A call of io::Read, one of decode_from_to, and one of decode_all.
StreamCalls == [op : {"stream"}, n : ReadSizes]
SliceCalls == [op : {"from_to"}, at : Nat, end : Nat, room : Nat, bytes_read_at_start : Nat]
AllCalls == [op : {"all"}, at : {"init", "skip", "decode", "drain"}, vec : BOOLEAN, len : Nat,
             output : Nat, room : Nat, total : Nat]

\* Who waits for decode_blocks to return.
Callers == {Idle} \cup StreamCalls \cup {c \in AllCalls : c.at = "drain"}

FailedReset(r) == r.op = "reset" /\ r.result \notin {"ok", "DictNotProvided"}

\* What a call in progress relies on.  Only callers of decode_blocks itself go
\* on when the frame has ended.
CallOK ==
    \/ call = Idle
    \/ /\ call.op = "decode_blocks" /\ call.caller \in Callers
       /\ InFrame /\ (state.frame_finished => call.caller = Idle)
    \/ call \in StreamCalls /\ state # None
    \/ /\ call \in AllCalls /\ ret.op # "reset" /\ ret.result # "SkipFrame"
       /\ call.at = "skip" => source.cur >= 1 /\ ~InFrame
       /\ call.at = "drain" => state # None
    \/ /\ call \in SliceCalls /\ InFrame /\ call.end <= source.end
       /\ call.bytes_read_at_start = FramePos
       /\ FrameStart(source.frames, source.cur) + state.bytes_read_counter <= call.end
       /\ ~state.frame_finished =>
             call.at = FrameStart(source.frames, source.cur) + state.bytes_read_counter

\* After a reset that left the state as it was, the source is not in its frame.
ResetOK ==
    /\ FailedReset(ret) => ~InFrame
    /\ ret.result = "SkipFrame" => source.cur >= 1 /\ ~InFrame

\* None of the parts holds alone: CallOK and ResetOK tell when a step of the loop
\* is in the frame of the state, OnFrame what the counters are then.
IInv == SourceOK /\ DecoderOK /\ OpenedBefore /\ OnFrame /\ CallOK /\ ResetOK

-----------------------------------------------------------------------------
(* Types that the steps rest on.                                           *)

\* What the parts of a state are.
LEMMA StateParts ==
    ASSUME NEW s \in States
    PROVE  /\ s.block_counter \in Nat /\ s.bytes_read_counter \in Nat /\ s.buffered \in Nat
           /\ s.frame_finished \in BOOLEAN /\ s.check_sum \in BOOLEAN
           /\ s.using_dict \in Dicts \cup {NoDict}
           /\ s.of \in Nat \X Nat
           /\ s.header \in FrameForms
  BY DEF States

\* What the parts of a frame are.
LEMMA FrameParts ==
    ASSUME NEW f \in Frames
    PROVE  /\ Len(f.blocks) \in Nat /\ f.header \in Nat /\ f.header > 0 /\ f.skipped \in Nat /\ f.window \in Nat
           /\ f.checksum \in BOOLEAN /\ f.dict \in Dicts \cup {NoDict}
           /\ f.kind \in {"zstd", "skippable", "bad"} /\ f \in FrameForms
           /\ f.kind = "zstd" => 0 < Len(f.blocks) /\ f.skipped = 0
           /\ \A k \in 1..Len(f.blocks) : f.blocks[k] \in BlockForms
  BY DEF Frames, FrameForms

\* What the parts of a block are.
LEMMA BlockParts ==
    ASSUME NEW b \in BlockForms
    PROVE  b.size \in Nat /\ BlockSize(b) \in Nat /\ BlockSize(b) >= BlockHeader
  BY DEF BlockForms, BlockSize, BlockHeader

\* What can be drained is in the buffer.
LEMMA DrainsWhatIsThere ==
    ASSUME state # None, state \in States
    PROVE  CanCollect \in 0..state.buffered /\ Readable \in 0..state.buffered
<1>1. state.buffered \in Nat /\ state.header.window \in Nat
  BY DEF States, FrameForms
<1>2. CanDrainToWindowSize \in 0..state.buffered
  BY <1>1 DEF CanDrainToWindowSize
<1> QED
  BY <1>1, <1>2 DEF CanCollect, Readable

-----------------------------------------------------------------------------
(* The steps.                                                              *)

\* The invariant holds of a new decoder.
LEMMA InitKeepsIInv == Init => IInv
<1> SUFFICES ASSUME Init PROVE IInv
  OBVIOUS
<1>1. PICK frames \in Inputs : \E end \in 0..FrameStart(frames, Len(frames) + 1) :
                                  source = Opened(1, frames, end)
  BY DEF Init
<1>2. PICK end \in 0..FrameStart(frames, Len(frames) + 1) : source = Opened(1, frames, end)
  BY <1>1
<1>3. Len(frames) \in Nat
  BY InputsAssumption DEF WellFormed
<1>4. FrameStart(frames, Len(frames) + 1) \in Nat
  BY <1>3, FramesAreLaid
<1>5. SourceOK
  BY <1>2, <1>3, <1>4, MaxSourcesAssumption DEF SourceOK, SourceForms, Opened
<1>6. state = None /\ call = Idle /\ ret = Ok("new", 0) /\ collected = 0 /\ dicts \in SUBSET Dicts
  BY DEF Init
<1>7. ret.op = "new" /\ ret.result = "ok"
  BY <1>6 DEF Ok
<1> QED
  BY <1>5, <1>6, <1>7 DEF IInv, DecoderOK, OpenedBefore, OnFrame, InFrame, CallOK, ResetOK, FailedReset

\* State t goes on in the frame of state s, with counters that agree.
Kept(s, t, c) ==
    /\ t # None /\ t.of = s.of /\ t.header = s.header /\ t \in States /\ Counted(t, c)

\* Bytes move from the buffer to the caller.
Drained(n) ==
    state' = [state EXCEPT !.buffered = @ - n] /\ collected' = collected + n

\* Draining leaves the sum of what was given and what is held.
LEMMA DrainedIsCounted ==
    ASSUME IInv, state # None, NEW n \in 0..state.buffered, Drained(n)
    PROVE  /\ Kept(state, state', collected') /\ collected' \in Nat /\ state \in States
           /\ state'.frame_finished = state.frame_finished /\ state'.check_sum = state.check_sum
           /\ state'.block_counter = state.block_counter
           /\ state'.bytes_read_counter = state.bytes_read_counter
           /\ state'.buffered = state.buffered - n /\ state'.buffered \in Nat
           /\ collected' + state'.buffered = collected + state.buffered
<1>1. state' = [state EXCEPT !.buffered = @ - n] /\ collected' = collected + n
  BY DEF Drained
<1>2. state \in States /\ Counted(state, collected) /\ collected \in Nat
  BY DEF IInv, DecoderOK, Counted
<1>3. state.buffered \in Nat
  BY <1>2, StateParts
<1>4. /\ state' \in States /\ state'.header = state.header /\ state'.of = state.of
      /\ state'.frame_finished = state.frame_finished
      /\ state'.block_counter = state.block_counter
      /\ state'.bytes_read_counter = state.bytes_read_counter
      /\ state'.check_sum = state.check_sum /\ state'.buffered = state.buffered - n
  BY <1>1, <1>2, <1>3 DEF States
<1>5. collected' \in Nat /\ collected' + state'.buffered = collected + state.buffered
  BY <1>1, <1>2, <1>3, <1>4
<1>6. Counted(state', collected')
  BY <1>2, <1>4, <1>5, Zenon DEF Counted, Finished, Unfinished
<1> QED
  BY <1>2, <1>3, <1>4, <1>5, <1>6, NoneAssumption DEF Kept

\* Draining keeps the invariant.
LEMMA TakeKeepsIInv ==
    ASSUME IInv, state # None, NEW n \in 0..state.buffered, Take(n),
           call.op # "from_to", call'.op # "from_to", CallOK', ResetOK'
    PROVE  IInv'
<1>1. Drained(n) /\ source' = source /\ dicts' = dicts
  BY DEF Take, Drained
<1>2. /\ Kept(state, state', collected') /\ collected' \in Nat
      /\ state'.frame_finished = state.frame_finished
      /\ state'.block_counter = state.block_counter
      /\ state'.bytes_read_counter = state.bytes_read_counter
      /\ collected' + state'.buffered = collected + state.buffered
  BY <1>1, DrainedIsCounted
<1>3. /\ Counted(state', collected') /\ state' # None
      /\ state'.of = state.of /\ state'.header = state.header
  BY <1>2 DEF Kept
<1>4. (InFrame' <=> InFrame) /\ FramePos' = FramePos
  BY <1>1, <1>3 DEF InFrame, FramePos
<1>5. SourceOK' /\ DecoderOK' /\ OpenedBefore'
  BY <1>1, <1>2, <1>3 DEF IInv, SourceOK, DecoderOK, OpenedBefore
<1>6. OnFrame'
  BY <1>1, <1>2, <1>3, <1>4, Zenon DEF IInv, OnFrame
<1> QED
  BY <1>5, <1>6 DEF IInv

\* A call that has returned relies on nothing, nor does an answer that is no
\* failed reset.
LEMMA NothingReliedOn ==
    /\ call = Idle => CallOK /\ call.op = "idle"
    /\ ret.op # "reset" /\ ret.result # "SkipFrame" => ResetOK
  BY DEF CallOK, ResetOK, FailedReset, Idle

\* Every way of draining keeps the invariant.
LEMMA DrainingKeepsIInv ==
    ASSUME IInv, \/ Collect \/ CollectToWriter \/ \E n \in ReadSizes : Read(n)
    PROVE  IInv'
<1>1. call = Idle /\ state # None /\ call.op # "from_to" /\ call'.op # "from_to" /\ CallOK'
  BY DEF Collect, CollectToWriter, Read, Idle, CallOK
<1>2. state \in States
  BY <1>1 DEF IInv, DecoderOK, Counted
<1>3. CanCollect \in 0..state.buffered /\ Readable \in 0..state.buffered /\ state.buffered \in Nat
  BY <1>1, <1>2, DrainsWhatIsThere, StateParts
<1>4. CASE Collect
  <2>1. Take(CanCollect) /\ ResetOK'
    BY <1>4 DEF Collect, Ok, ResetOK, FailedReset
  <2> QED
    BY <1>1, <1>3, <2>1, TakeKeepsIInv
<1>5. CASE CollectToWriter
  <2>1. PICK n \in 0..CanCollect : Take(n) /\ ret' = Ok("collect_to_writer", n)
    BY <1>5 DEF CollectToWriter
  <2>2. n \in 0..state.buffered /\ ResetOK'
    BY <1>3, <2>1 DEF Ok, ResetOK, FailedReset
  <2> QED
    BY <1>1, <2>1, <2>2, TakeKeepsIInv
<1>6. CASE \E n \in ReadSizes : Read(n)
  <2>1. PICK n \in ReadSizes : Read(n)
    BY <1>6
  <2> DEFINE m == Smaller(n, Readable)
  <2>2. Take(m) /\ ResetOK'
    BY <2>1 DEF Read, Ok, ResetOK, FailedReset
  <2>3. m \in 0..state.buffered
    BY <1>3, ReadSizesAssumption DEF Smaller
  <2> HIDE DEF m
  <2> QED
    BY <1>1, <2>2, <2>3, TakeKeepsIInv
<1> QED
  BY <1>4, <1>5, <1>6

\* How a source moves.
Moved(s, t) ==
    /\ t \in SourceForms /\ t.id = s.id /\ t.frames = s.frames /\ t.cur = s.cur
    /\ t.end = s.end /\ s.pos <= t.pos /\ t.pos <= t.end

\* Reading moves a source forward, and never past its end.
LEMMA SourceMoves ==
    ASSUME NEW s \in SourceForms, s.pos <= s.end, NEW n \in Nat
    PROVE  /\ Moved(s, Spent(s)) /\ ~Spent(s).usable
           /\ Has(s, n) => /\ Moved(s, Advanced(s, n)) /\ Advanced(s, n).pos = s.pos + n
                           /\ Advanced(s, n).usable <=> s.usable
           /\ Has(s, n) => Moved(s, Unusable(s, n)) /\ ~Unusable(s, n).usable
<1>1. s.pos \in Nat /\ s.end \in Nat
  BY DEF SourceForms
<1>2. Spent(s) \in SourceForms /\ Spent(s).pos = s.end /\ Spent(s).usable = FALSE
      /\ Spent(s).id = s.id /\ Spent(s).frames = s.frames /\ Spent(s).cur = s.cur
      /\ Spent(s).end = s.end
  BY <1>1 DEF Spent, SourceForms
<1>3. Advanced(s, n) \in SourceForms /\ Advanced(s, n).pos = s.pos + n
      /\ Advanced(s, n).usable = s.usable /\ Advanced(s, n).id = s.id
      /\ Advanced(s, n).frames = s.frames /\ Advanced(s, n).cur = s.cur
      /\ Advanced(s, n).end = s.end
  BY <1>1 DEF Advanced, SourceForms
<1>4. Unusable(s, n) \in SourceForms /\ Unusable(s, n).pos = s.pos + n
      /\ Unusable(s, n).usable = FALSE /\ Unusable(s, n).id = s.id
      /\ Unusable(s, n).frames = s.frames /\ Unusable(s, n).cur = s.cur
      /\ Unusable(s, n).end = s.end
  <2> DEFINE p == s.pos + n
  <2>1. p \in Nat
    BY <1>1
  <2>2. Unusable(s, n) = [s EXCEPT !.pos = p, !.usable = FALSE]
    BY Zenon DEF Unusable
  <2> HIDE DEF p
  <2>3. /\ Unusable(s, n).pos = p
        /\ Unusable(s, n).usable = FALSE /\ Unusable(s, n).id = s.id
        /\ Unusable(s, n).frames = s.frames /\ Unusable(s, n).cur = s.cur
        /\ Unusable(s, n).end = s.end
    BY <2>2 DEF SourceForms
  <2>4. Unusable(s, n) \in SourceForms
    BY <2>1, <2>2 DEF SourceForms
  <2> QED
    BY <2>3, <2>4 DEF p
<1> QED
  BY <1>1, <1>2, <1>3, <1>4 DEF Moved, Has

\* What a reset can result in.
LEMMA ResetResults ==
    ASSUME NEW f \in Frames
    PROVE  /\ ResetResult(f) \in {"ReadFrameHeaderError", "SkipFrame", "WindowSizeTooBig",
                                  "DictNotProvided", "ok"}
           /\ ResetResult(f) # "ReadFrameHeaderError" => Has(source, f.header)
           /\ ResetResult(f) \in {"ok", "DictNotProvided"} => f.kind = "zstd"
           /\ ResetResult(f) = "ok" => f.dict \in dicts \cup {NoDict}
           /\ ResetResult(f) = "SkipFrame" => f.kind = "skippable"
<1>1. f.kind \in {"zstd", "skippable", "bad"}
  BY FrameParts
<1>2. CASE ~Has(source, f.header) \/ f.kind = "bad"
  BY <1>2 DEF ResetResult
<1>3. CASE Has(source, f.header) /\ f.kind = "skippable"
  BY <1>3 DEF ResetResult
<1>4. CASE Has(source, f.header) /\ f.kind = "zstd"
  BY <1>4 DEF ResetResult
<1> QED
  BY <1>1, <1>2, <1>3, <1>4

\* A new state has nothing decoded yet.
LEMMA FreshIsCounted ==
    ASSUME NEW f \in Frames, f.kind = "zstd", NEW dict \in Dicts \cup {NoDict},
           source.id \in Nat, source.cur \in Nat
    PROVE  /\ Counted(Fresh(f, dict), 0) /\ Fresh(f, dict) # None
           /\ Fresh(f, dict).header = f /\ ~Fresh(f, dict).frame_finished
           /\ Fresh(f, dict).of = <<source.id, source.cur + 1>> /\ Fresh(f, dict).buffered = 0
           /\ Fresh(f, dict).bytes_read_counter = BlockStart(f, 1)
           /\ BlockStart(f, Fresh(f, dict).block_counter + 1) = f.header
           /\ f.header = BlockStart(f, 1)
           /\ 0 + Fresh(f, dict).buffered = Content(f, Fresh(f, dict).block_counter)
<1> DEFINE s == Fresh(f, dict)
<1>1. /\ 0 < Len(f.blocks) /\ Len(f.blocks) \in Nat /\ f.header \in Nat
      /\ f.blocks[1] \in BlockForms /\ f \in FrameForms
  BY FrameParts
<1>2. /\ s.header = f /\ s.of = <<source.id, source.cur + 1>> /\ s.frame_finished = FALSE
      /\ s.block_counter = 0 /\ s.bytes_read_counter = f.header /\ s.check_sum = FALSE
      /\ s.using_dict = dict /\ s.buffered = 0 /\ s \in States
  BY <1>1 DEF Fresh, States
<1> HIDE DEF s
<1>3. Laid(f, Len(f.blocks)) /\ Held(f, Len(f.blocks))
  BY BlocksAreLaid, ContentIsHeld
<1>4. /\ BlocksSize(f, 0) = 0 /\ Content(f, 0) = 0 /\ Content(f, 1) \in Nat
  BY <1>1, <1>3 DEF Laid, Held
<1>5. BlockStart(f, 1) = f.header /\ 0 + 1 = 1
  BY <1>1, <1>4 DEF BlockStart
<1>6. Unfinished(s, 0)
  <2>1. 0 + s.buffered \in Content(f, 0)..Content(f, 0 + 1)
    BY <1>2, <1>4, <1>5
  <2>2. s.bytes_read_counter - f.header - BlocksSize(f, 0) \in {0, BlockHeader}
    BY <1>1, <1>2, <1>4
  <2> QED
    BY <1>1, <1>2, <2>1, <2>2 DEF Unfinished
<1>7. Counted(s, 0) /\ s # None
  BY <1>2, <1>6, NoneAssumption DEF Counted
<1>8. BlockStart(f, s.block_counter + 1) = f.header
  BY <1>2, <1>5
<1>9. 0 + s.buffered = Content(f, s.block_counter)
  BY <1>2, <1>4
<1> QED
  BY <1>2, <1>5, <1>7, <1>8, <1>9 DEF s

\* What a reset to the next frame leads to.
Renewed(f, result) ==
    /\ SourceOK' /\ DecoderOK' /\ OpenedBefore' /\ OnFrame'
    /\ source'.id = source.id /\ source'.frames = source.frames /\ source'.end = source.end
    /\ f \in Frames /\ f = source.frames[source.cur + 1] /\ source.cur + 1 \in 1..Len(source.frames)
    /\ result \in {"ReadFrameHeaderError", "SkipFrame", "WindowSizeTooBig", "DictNotProvided", "ok"}
    /\ result \in {"ok", "DictNotProvided"} =>
          /\ InFrame' /\ state'.header = f /\ collected' = 0 /\ ~state'.frame_finished
          /\ state'.buffered = 0
    /\ result \notin {"ok", "DictNotProvided"} =>
          ~InFrame' /\ state' = state /\ collected' = collected
    /\ result \in {"ok", "SkipFrame"} =>
          /\ source'.cur = source.cur + 1 /\ source'.pos = source.pos + f.header
          /\ source'.usable
    /\ source'.usable => source'.cur = source.cur + 1 /\ source'.pos = source.pos + f.header

\* A reset puts the state of a new frame in place, or changes nothing and has
\* gone past what the source was in.
LEMMA ResetRenews ==
    ASSUME IInv, AtFrame, ResetTo(NextFrame, ResetResult(NextFrame)),
           call'.op # "from_to"
    PROVE  Renewed(NextFrame, ResetResult(NextFrame))
<1> DEFINE f == NextFrame
           result == ResetResult(f)
<1>1. AtFrame /\ ResetTo(f, result) /\ dicts' = dicts
  BY DEF ResetTo
<1>2. /\ source \in SourceForms /\ source.id \in 1..MaxSources
      /\ source.cur + 1 \in 1..Len(source.frames)
      /\ source.id \in Nat /\ source.cur \in Nat /\ source.pos \in Nat /\ source.end \in Nat
      /\ source.frames \in Inputs /\ Len(source.frames) \in Nat /\ source.pos <= source.end
      /\ source.pos = FrameStart(source.frames, source.cur + 1)
  BY <1>1, InputsAssumption DEF IInv, SourceOK, SourceForms, AtFrame, WellFormed
<1>3. f \in Frames
  BY <1>2, FramesOfSource DEF NextFrame
<1>4. f.header \in Nat
  BY <1>3, FrameParts
<1>5. /\ result \in {"ReadFrameHeaderError", "SkipFrame", "WindowSizeTooBig", "DictNotProvided", "ok"}
      /\ result # "ReadFrameHeaderError" => Has(source, f.header)
      /\ result \in {"ok", "DictNotProvided"} => f.kind = "zstd"
      /\ result = "ok" => f.dict \in dicts \cup {NoDict}
  BY <1>3, ResetResults
<1>6. DecoderOK /\ OpenedBefore
  BY DEF IInv
<1>7. f = source.frames[source.cur + 1]
  BY DEF NextFrame
<1> HIDE DEF f, result
<1>8. /\ source' \in SourceForms /\ source'.id = source.id /\ source'.frames = source.frames
      /\ source'.cur \in {source.cur, source.cur + 1} /\ source'.pos <= source'.end
      /\ source'.end = source.end
      /\ Has(source, f.header) =>
            /\ source'.cur = source.cur + 1 /\ source'.pos = source.pos + f.header
            /\ source'.usable = (result \in {"ok", "SkipFrame", "DictNotProvided"})
      /\ ~Has(source, f.header) => ~source'.usable
  <2>1. CASE Has(source, f.header)
    <3> DEFINE t == Advanced(source, f.header)
               goes == result \in {"ok", "SkipFrame", "DictNotProvided"}
    <3>1. source' = [t EXCEPT !.cur = @ + 1, !.usable = goes]
      BY <1>1, <2>1 DEF ResetTo
    <3>2. Moved(source, t) /\ t.pos = source.pos + f.header /\ goes \in BOOLEAN
      BY <1>2, <1>4, <2>1, SourceMoves
    <3> HIDE DEF t, goes
    <3>3. source' \in SourceForms
      <4> DEFINE c == t.cur + 1
      <4>1. c \in Nat /\ t \in SourceForms
        BY <3>2 DEF SourceForms, Moved
      <4>2. source' = [t EXCEPT !.cur = c, !.usable = goes]
        BY <3>1
      <4> HIDE DEF c
      <4> QED
        BY <3>2, <4>1, <4>2 DEF SourceForms
    <3>4. /\ source'.id = t.id /\ source'.frames = t.frames /\ source'.cur = t.cur + 1
          /\ source'.pos = t.pos /\ source'.end = t.end /\ source'.usable = goes
      BY <3>1, <3>2 DEF SourceForms, Moved
    <3> QED
      BY <2>1, <3>2, <3>3, <3>4 DEF Moved, goes
  <2>2. CASE ~Has(source, f.header)
    <3>1. source' = Spent(source)
      BY <1>1, <2>2 DEF ResetTo
    <3>2. Moved(source, source') /\ ~source'.usable
      BY <1>2, <1>4, <3>1, SourceMoves
    <3> QED
      BY <2>2, <3>2 DEF Moved
  <2> QED
    BY <2>1, <2>2
<1>9. SourceOK'
  BY <1>2, <1>8 DEF SourceOK
<1>10. CASE result \in {"ok", "DictNotProvided"}
  <2> DEFINE dict == IF result = "ok" THEN f.dict ELSE NoDict
  <2>1. state' = Fresh(f, dict) /\ collected' = 0
    BY <1>1, <1>10 DEF ResetTo
  <2>2. dict \in Dicts \cup {NoDict}
    BY <1>5, <1>6 DEF DecoderOK
  <2> HIDE DEF dict
  <2>3. /\ Counted(state', 0) /\ state' # None /\ state'.header = f /\ ~state'.frame_finished
        /\ state'.of = <<source.id, source.cur + 1>> /\ state'.buffered = 0
        /\ state'.bytes_read_counter = f.header /\ f.header = BlockStart(f, state'.block_counter + 1)
        /\ 0 + state'.buffered = Content(f, state'.block_counter)
    BY <1>2, <1>3, <1>5, <1>10, <2>1, <2>2, FreshIsCounted
  <2>4. /\ source'.cur = source.cur + 1 /\ source'.pos = source.pos + f.header
    BY <1>5, <1>8, <1>10
  <2>5. FramePos' = f.header
    BY <1>2, <1>4, <1>8, <2>4 DEF FramePos
  <2>6. OnFrame'
    BY <1>7, <1>8, <2>1, <2>3, <2>4, <2>5, Zenon DEF OnFrame
  <2>7. DecoderOK' /\ OpenedBefore'
    BY <1>1, <1>2, <1>6, <1>8, <2>1, <2>3, <2>4 DEF DecoderOK, OpenedBefore
  <2>8. InFrame'
    BY <1>5, <1>8, <1>10, <2>3, <2>4 DEF InFrame
  <2>9. Renewed(f, result)
    BY <1>2, <1>3, <1>5, <1>7, <1>8, <1>9, <1>10, <2>1, <2>3, <2>4, <2>6, <2>7, <2>8 DEF Renewed
  <2> QED
    BY <2>9 DEF f, result
<1>11. CASE result \notin {"ok", "DictNotProvided"}
  <2>1. state' = state /\ collected' = collected
    BY <1>1, <1>11 DEF ResetTo
  <2>2. ~InFrame'
    <3>1. CASE result = "SkipFrame"
      <4>1. source'.cur = source.cur + 1
        BY <1>5, <1>8, <3>1
      <4>2. state # None => state.of # <<source'.id, source'.cur>>
        BY <1>2, <1>6, <1>8, <4>1 DEF OpenedBefore
      <4> QED
        BY <2>1, <4>2 DEF InFrame
    <3>2. CASE result # "SkipFrame"
      BY <1>8, <1>11, <3>2 DEF InFrame
    <3> QED
      BY <3>1, <3>2
  <2>3. DecoderOK' /\ OpenedBefore' /\ OnFrame'
    BY <1>1, <1>2, <1>6, <1>8, <2>1, <2>2 DEF DecoderOK, OpenedBefore, OnFrame
  <2>4. Renewed(f, result)
    BY <1>2, <1>3, <1>5, <1>7, <1>8, <1>9, <1>11, <2>1, <2>2, <2>3 DEF Renewed
  <2> QED
    BY <2>4 DEF f, result
<1> QED
  BY <1>10, <1>11

\* The reset of a decoder whose caller has the source.
LEMMA ResetKeepsIInv ==
    ASSUME IInv, Reset
    PROVE  IInv'
<1> DEFINE f == NextFrame
           result == ResetResult(f)
<1>1. /\ call' = Idle /\ AtFrame /\ ResetTo(f, result)
      /\ ret' = [op |-> "reset", result |-> result, n |-> 0]
  BY DEF Reset
<1>2. CallOK' /\ call'.op # "from_to"
  BY <1>1 DEF CallOK, Idle
<1>3. Renewed(f, result)
  BY <1>1, <1>2, ResetRenews
<1> HIDE DEF f, result
<1>4. ResetOK'
  BY <1>1, <1>3 DEF Renewed, ResetOK, FailedReset, IInv, SourceOK, SourceForms
<1> QED
  BY <1>2, <1>3, <1>4 DEF IInv, Renewed

\* Behind a skippable frame.
LEMMA SkippingLeavesFrame ==
    ASSUME IInv, source.cur >= 1, ~InFrame, NEW n, n = source.frames[source.cur].skipped,
           source' = IF Has(source, n) THEN Advanced(source, n) ELSE Spent(source),
           UNCHANGED <<state, dicts, collected>>, CallOK', ResetOK'
    PROVE  /\ IInv' /\ ~InFrame' /\ Moved(source, source')
           /\ Has(source, n) => source'.pos = source.pos + n /\ (source'.usable <=> source.usable)
           /\ n \in Nat
<1>1. /\ source \in SourceForms /\ source.cur \in 1..Len(source.frames)
      /\ source.frames \in Inputs /\ source.pos \in Nat /\ source.end \in Nat
      /\ source.pos <= source.end /\ source.id \in 1..MaxSources
  BY InputsAssumption DEF IInv, SourceOK, SourceForms, WellFormed
<1>2. n \in Nat
  BY <1>1, FramesOfSource, FrameParts
<1>3. /\ Moved(source, source') /\ (source'.usable => source.usable)
      /\ Has(source, n) => source'.pos = source.pos + n /\ (source'.usable <=> source.usable)
  BY <1>1, <1>2, SourceMoves
<1>4. ~InFrame'
  BY <1>3 DEF InFrame, Moved
<1>5. SourceOK'
  BY <1>1, <1>3 DEF SourceOK, Moved
<1>6. DecoderOK' /\ OpenedBefore' /\ OnFrame'
  BY <1>3, <1>4 DEF IInv, DecoderOK, OpenedBefore, OnFrame, Moved
<1> QED
  BY <1>2, <1>3, <1>4, <1>5, <1>6 DEF IInv

\* Stepping over a skippable frame, and turning to another source.
LEMMA SkipFrameKeepsIInv ==
    ASSUME IInv, SkipFrame
    PROVE  IInv'
<1> DEFINE n == source.frames[source.cur].skipped
<1>1. /\ call = Idle /\ ret.result = "SkipFrame" /\ ret' = Ok("skip", 0)
      /\ UNCHANGED <<state, dicts, call, collected>>
      /\ source' = IF Has(source, n) THEN Advanced(source, n) ELSE Spent(source)
  BY DEF SkipFrame
<1>2. ~InFrame /\ source.cur >= 1
  BY <1>1 DEF IInv, ResetOK
<1>3. CallOK' /\ ResetOK'
  BY <1>1 DEF CallOK, ResetOK, FailedReset, Ok
<1> QED
  BY <1>1, <1>2, <1>3, SkippingLeavesFrame

\* No frame of another source is the one of the state.
LEMMA SourcesKeepIInv ==
    ASSUME IInv, Sources
    PROVE  IInv'
<1>1. PICK frames \in Inputs : \E end \in 0..FrameStart(frames, Len(frames) + 1) : Open(frames, end)
  BY DEF Sources
<1>2. PICK end \in 0..FrameStart(frames, Len(frames) + 1) : Open(frames, end)
  BY <1>1
<1>3. /\ call = Idle /\ source.id < MaxSources /\ source' = Opened(source.id + 1, frames, end)
      /\ ret' = Ok("open", 0) /\ UNCHANGED <<state, dicts, call, collected>>
  BY <1>2 DEF Open
<1>4. Len(frames) \in Nat /\ FrameStart(frames, Len(frames) + 1) \in Nat
  <2>1. Len(frames) \in Nat
    BY InputsAssumption DEF WellFormed
  <2> QED
    BY <2>1, FramesAreLaid
<1>5. /\ source.id \in Nat /\ source.id + 1 \in 1..MaxSources
  BY <1>3, MaxSourcesAssumption DEF IInv, SourceOK, SourceForms
<1>6. SourceOK' /\ source'.id = source.id + 1
  BY <1>3, <1>4, <1>5 DEF SourceOK, SourceForms, Opened
<1>7. state # None => state.of \in Nat \X Nat /\ state.of[1] <= source.id
  BY DEF IInv, DecoderOK, Counted, States, OpenedBefore
<1>8. ~InFrame'
  <2>1. state # None => state.of # <<source'.id, source'.cur>>
    BY <1>5, <1>6, <1>7
  <2> QED
    BY <1>3, <2>1 DEF InFrame
<1>9. OpenedBefore'
  BY <1>3, <1>5, <1>6, <1>7 DEF OpenedBefore
<1>10. ret'.op # "reset" /\ ret'.result # "SkipFrame"
  BY <1>3 DEF Ok
<1>11. DecoderOK' /\ OnFrame' /\ CallOK' /\ ResetOK'
  BY <1>3, <1>8, <1>10 DEF IInv, DecoderOK, OnFrame, CallOK, ResetOK, FailedReset
<1> QED
  BY <1>6, <1>9, <1>11 DEF IInv

\* Dictionaries do not touch the counters.
LEMMA DictsKeepIInv ==
    ASSUME IInv, NEW d \in Dicts, AddDict(d) \/ ForceDict(d)
    PROVE  IInv'
<1>1. call = Idle /\ call' = call /\ UNCHANGED <<source, collected>> /\ dicts' \subseteq Dicts
  BY DEF AddDict, ForceDict, IInv, DecoderOK
<1>2. ret'.op # "reset" /\ ret'.result # "SkipFrame"
  BY DEF AddDict, ForceDict, Ok
<1>3. state' = state \/ (state # None /\ state' = [state EXCEPT !.using_dict = d])
  BY DEF AddDict, ForceDict
<1>4. CASE state' = state
  <2>1. (InFrame' <=> InFrame) /\ FramePos' = FramePos
    BY <1>1, <1>4 DEF InFrame, FramePos
  <2> QED
    BY <1>1, <1>2, <1>4, <2>1
    DEF IInv, SourceOK, DecoderOK, OpenedBefore, OnFrame, CallOK, ResetOK, FailedReset
<1>5. CASE state # None /\ state' = [state EXCEPT !.using_dict = d]
  <2>1. state \in States /\ Counted(state, collected)
    BY <1>5 DEF IInv, DecoderOK, Counted
  <2>2. /\ state' \in States /\ state'.header = state.header /\ state'.of = state.of
        /\ state'.frame_finished = state.frame_finished
        /\ state'.block_counter = state.block_counter
        /\ state'.bytes_read_counter = state.bytes_read_counter
        /\ state'.check_sum = state.check_sum /\ state'.buffered = state.buffered
    BY <1>5, <2>1 DEF States
  <2>3. Counted(state', collected')
    BY <1>1, <2>1, <2>2, Zenon DEF Counted, Finished, Unfinished
  <2>4. (InFrame' <=> InFrame) /\ FramePos' = FramePos
    BY <1>1, <1>5, <2>2, NoneAssumption DEF InFrame, FramePos
  <2>5. SourceOK' /\ DecoderOK' /\ OpenedBefore'
    BY <1>1, <1>5, <2>2, <2>3 DEF IInv, SourceOK, DecoderOK, OpenedBefore
  <2>6. OnFrame'
    BY <1>1, <2>2, <2>4, Zenon DEF IInv, OnFrame
  <2>7. CallOK' /\ ResetOK'
    BY <1>1, <1>2 DEF CallOK, ResetOK, FailedReset
  <2> QED
    BY <2>5, <2>6, <2>7 DEF IInv
<1> QED
  BY <1>3, <1>4, <1>5

-----------------------------------------------------------------------------
(* decode_blocks.                                                          *)

\* While only the call changes, the counters stay.
LEMMA CallsKeepIInv ==
    ASSUME IInv, UNCHANGED <<source, state, dicts, collected>>, call.op # "from_to",
           CallOK', ResetOK'
    PROVE  IInv'
<1>1. (InFrame' <=> InFrame) /\ FramePos' = FramePos
  BY DEF InFrame, FramePos
<1>2. SourceOK' /\ DecoderOK' /\ OpenedBefore'
  BY DEF IInv, SourceOK, DecoderOK, OpenedBefore
<1>3. OnFrame'
  BY <1>1, Zenon DEF IInv, OnFrame
<1> QED
  BY <1>2, <1>3 DEF IInv

\* A call of decode_blocks begins where the source is in the frame.
LEMMA DecodeBlocksKeepsIInv ==
    ASSUME IInv, call.op # "from_to", NEW strat, NEW caller \in Callers, DecodeBlocks(strat, caller),
           state.frame_finished => caller = Idle
    PROVE  IInv'
<1>1. /\ InFrame /\ UNCHANGED <<source, state, dicts, ret, collected>>
      /\ call'.op = "decode_blocks" /\ call'.caller = caller
  BY DEF DecodeBlocks
<1>2. (InFrame' <=> InFrame) /\ FramePos' = FramePos
  BY <1>1 DEF InFrame, FramePos
<1>3. CallOK' /\ ResetOK'
  BY <1>1, <1>2 DEF CallOK, IInv, ResetOK
<1>4. SourceOK' /\ DecoderOK' /\ OpenedBefore'
  BY <1>1 DEF IInv, SourceOK, DecoderOK, OpenedBefore
<1>5. OnFrame'
  BY <1>1, <1>2, Zenon DEF IInv, OnFrame
<1> QED
  BY <1>3, <1>4, <1>5 DEF IInv

\* Without a frame nothing is decoded.
LEMMA NotYetInitializedKeepsIInv ==
    ASSUME IInv, NotYetInitialized
    PROVE  IInv'
<1>1. /\ call = Idle /\ call' = call /\ UNCHANGED <<source, state, dicts, collected>>
      /\ ret'.op = "decode_blocks" /\ ret'.result = "NotYetInitialized"
  BY DEF NotYetInitialized, Err
<1>2. CallOK' /\ ResetOK' /\ call.op # "from_to"
  BY <1>1 DEF CallOK, ResetOK, FailedReset, Idle
<1> QED
  BY <1>1, <1>2, CallsKeepIInv

\* Where a decoder stands: before block k of its frame f, at b.
AtBlock(f, k, b) ==
    /\ InFrame /\ ~state.frame_finished
    /\ f = state.header /\ f \in Frames /\ f.kind = "zstd"
    /\ state \in States /\ k = state.block_counter + 1 /\ k \in 1..Len(f.blocks)
    /\ ~state.check_sum /\ collected \in Nat
    /\ state.bytes_read_counter = BlockStart(f, k)
    /\ collected + state.buffered = Content(f, k - 1)
    /\ b = f.blocks[k] /\ b \in BlockForms
    /\ b = BlockAt(BlockStart(f, k))
    /\ IsLastAt(BlockStart(f, k)) <=> k = Len(f.blocks)

\* What the block there adds up to.
Adds(f, k, b) ==
    /\ f.header \in Nat /\ Len(f.blocks) \in Nat
    /\ BlockStart(f, k) = f.header + BlocksSize(f, k - 1) /\ BlocksSize(f, k - 1) \in Nat
    /\ BlocksSize(f, k) = BlocksSize(f, k - 1) + BlockSize(b) /\ BlockSize(b) \in Nat
    /\ Content(f, k - 1) \in Nat /\ Content(f, k) = Content(f, k - 1) + b.size /\ b.size \in Nat
    /\ k < Len(f.blocks) => Content(f, k) <= Content(f, k + 1) /\ Content(f, k + 1) \in Nat
    /\ BlockStart(f, k + 1) = f.header + BlocksSize(f, k)

\* A decoder in its frame is before the next block, which is found from the place.
LEMMA IsAtBlock ==
    ASSUME IInv, InFrame, ~state.frame_finished
    PROVE  LET f == state.header
               k == state.block_counter + 1
               b == BlockAt(state.bytes_read_counter)
           IN  AtBlock(f, k, b) /\ Adds(f, k, b)
<1> DEFINE f == state.header
           k == state.block_counter + 1
           n == Len(f.blocks)
           b == f.blocks[k]
<1>1. Counted(state, collected) /\ state # None /\ collected \in Nat
  BY DEF IInv, DecoderOK, InFrame
<1>2. f \in Frames /\ f.kind = "zstd" /\ state \in States /\ Unfinished(state, collected)
  BY <1>1 DEF Counted
<1>3. state.block_counter \in Nat /\ n \in Nat /\ f.header \in Nat
  BY <1>2, StateParts, FrameParts
<1>4. k \in 1..n /\ ~state.check_sum /\ k - 1 = state.block_counter
  BY <1>2, <1>3 DEF Unfinished
<1>5. /\ state.bytes_read_counter = BlockStart(f, k)
      /\ collected + state.buffered = Content(f, state.block_counter)
  BY Zenon DEF IInv, OnFrame
<1>6. /\ BlockStart(f, k) = f.header + BlocksSize(f, k - 1)
      /\ (CHOOSE j \in 1..n : BlockStart(f, k) = BlockStart(f, j)) = k
      /\ BlockStart(f, k) = BlockStart(f, n) <=> k = n
  BY <1>2, <1>4, BlockIsFound
<1>7. BlockAt(BlockStart(f, k)) = b /\ (IsLastAt(BlockStart(f, k)) <=> k = n)
  BY <1>6, Zenon DEF BlockAt, IsLastAt
<1>8. b \in BlockForms
  BY <1>2, <1>4, FrameParts
<1>9. BlockSize(b) \in Nat /\ b.size \in Nat
  BY <1>8, BlockParts
<1>10. AtBlock(f, k, b)
  BY <1>1, <1>2, <1>4, <1>5, <1>7, <1>8 DEF AtBlock
<1> HIDE DEF f, k, n, b
<1>11. Laid(f, n) /\ Held(f, n) /\ b = f.blocks[k]
  BY <1>2, BlocksAreLaid, ContentIsHeld DEF n, b
<1>12. /\ k - 1 \in 0..n /\ k \in 0..n /\ (k < n => k + 1 \in 0..n /\ k <= k + 1) /\ (k + 1) - 1 = k
  BY <1>3, <1>4
<1>13. /\ BlocksSize(f, k - 1) \in Nat
       /\ BlocksSize(f, k) = BlocksSize(f, k - 1) + BlockSize(f.blocks[k])
  BY <1>4, <1>11, <1>12 DEF Laid
<1>14. /\ Content(f, k - 1) \in Nat /\ Content(f, k) = Content(f, k - 1) + f.blocks[k].size
       /\ k < n => Content(f, k) <= Content(f, k + 1) /\ Content(f, k + 1) \in Nat
  BY <1>4, <1>11, <1>12 DEF Held
<1>15. BlockStart(f, k + 1) = f.header + BlocksSize(f, k)
  BY <1>12 DEF BlockStart
<1>16. Adds(f, k, b)
  BY <1>3, <1>6, <1>9, <1>11, <1>13, <1>14, <1>15, Zenon DEF Adds, n
<1>17. BlockAt(state.bytes_read_counter) = b
  BY <1>5, <1>7 DEF f, k, b
<1> QED
  BY <1>10, <1>16, <1>17, Zenon DEF f, k

\* State t is state s with its counters set.
Set(s, t, blocks, bytes, content) ==
    /\ t \in States /\ t.header = s.header /\ t.of = s.of
    /\ t.block_counter = blocks /\ t.bytes_read_counter = bytes /\ t.buffered = content

With(s, blocks, bytes, content) ==
    [s EXCEPT !.bytes_read_counter = bytes, !.block_counter = blocks, !.buffered = content]

\* Setting the counters leaves the rest.
LEMMA CountersSet ==
    ASSUME NEW s \in States, NEW blocks \in Nat, NEW bytes \in Nat, NEW content \in Nat
    PROVE  /\ Set(s, With(s, blocks, bytes, content), blocks, bytes, content)
           /\ With(s, blocks, bytes, content).frame_finished = s.frame_finished
           /\ With(s, blocks, bytes, content).check_sum = s.check_sum
<1> DEFINE t == With(s, blocks, bytes, content)
<1>1. t \in States
  BY DEF States, With
<1>2. /\ t.header = s.header /\ t.of = s.of /\ t.block_counter = blocks
      /\ t.bytes_read_counter = bytes /\ t.buffered = content
      /\ t.frame_finished = s.frame_finished /\ t.check_sum = s.check_sum
  BY DEF States, With
<1> QED
  BY <1>1, <1>2 DEF Set

\* What a decoded block adds to the counters.
LEMMA BlockCounted ==
    ASSUME state \in States, NEW b \in BlockForms
    PROVE  /\ Set(state, WithBlock(b), state.block_counter + 1,
                  state.bytes_read_counter + BlockSize(b), state.buffered + b.size)
           /\ WithBlock(b).frame_finished = state.frame_finished
           /\ WithBlock(b).check_sum = state.check_sum
<1> DEFINE blocks == state.block_counter + 1
           bytes  == state.bytes_read_counter + BlockSize(b)
           content == state.buffered + b.size
           t == WithBlock(b)
<1>1. blocks \in Nat /\ bytes \in Nat /\ content \in Nat
  BY StateParts, BlockParts
<1>2. t = With(state, blocks, bytes, content)
  BY Zenon DEF WithBlock, With
<1> HIDE DEF blocks, bytes, content, t
<1>3. /\ Set(state, t, blocks, bytes, content)
      /\ t.frame_finished = state.frame_finished /\ t.check_sum = state.check_sum
  <2>1. LET w == With(state, blocks, bytes, content)
        IN  /\ Set(state, w, blocks, bytes, content)
            /\ w.frame_finished = state.frame_finished /\ w.check_sum = state.check_sum
    BY <1>1, CountersSet
  <2> QED
    BY <1>2, <2>1, Zenon
<1> QED
  BY <1>3 DEF blocks, bytes, content, t

\* A damaged block leaves its header counted and part of its content decoded.
LEMMA DamageIsCounted ==
    ASSUME IInv, InFrame, ~state.frame_finished,
           NEW n \in 0..BlockAt(state.bytes_read_counter).size,
           state' = [state EXCEPT !.bytes_read_counter = @ + BlockHeader, !.buffered = @ + n]
    PROVE  Kept(state, state', collected)
<1> DEFINE f == state.header
           k == state.block_counter + 1
           b == BlockAt(state.bytes_read_counter)
           bytes   == state.bytes_read_counter + BlockHeader
           content == state.buffered + n
<1>1. AtBlock(f, k, b) /\ Adds(f, k, b)
  BY IsAtBlock
<1>2. state \in States /\ collected \in Nat /\ b.size \in Nat
  BY <1>1 DEF AtBlock, Adds
<1>3. /\ bytes \in Nat /\ content \in Nat /\ state.block_counter \in Nat
      /\ state.bytes_read_counter \in Nat /\ state.buffered \in Nat /\ n \in Nat
  BY <1>2, StateParts DEF BlockHeader
<1>4. state' = [state EXCEPT !.bytes_read_counter = bytes, !.buffered = content]
  OBVIOUS
<1>5. n \in 0..b.size
  OBVIOUS
<1> HIDE DEF bytes, content, f, k, b
<1>6. /\ state' \in States /\ state'.header = state.header /\ state'.of = state.of
      /\ state'.block_counter = state.block_counter /\ state'.bytes_read_counter = bytes
      /\ state'.buffered = content /\ state'.frame_finished = state.frame_finished
      /\ state'.check_sum = state.check_sum
  <2>1. state' \in States
    BY <1>2, <1>3, <1>4 DEF States
  <2> QED
    BY <1>2, <1>4, <2>1 DEF States
<1>7. Unfinished(state', collected)
  <2>1. /\ state.block_counter < Len(f.blocks) /\ ~state.check_sum
        /\ k = state.block_counter + 1 /\ k - 1 = state.block_counter
    <3>1. k \in 1..Len(f.blocks) /\ Len(f.blocks) \in Nat /\ ~state.check_sum
      BY <1>1 DEF AtBlock, Adds
    <3>2. k = state.block_counter + 1
      BY DEF k
    <3> QED
      BY <1>3, <3>1, <3>2
  <2>2. bytes - f.header - BlocksSize(f, k - 1) = BlockHeader
    <3>1. /\ state.bytes_read_counter = f.header + BlocksSize(f, k - 1)
          /\ BlocksSize(f, k - 1) \in Nat /\ f.header \in Nat /\ BlockHeader \in Nat
      BY <1>1 DEF AtBlock, Adds, BlockHeader
    <3> QED
      BY <3>1 DEF bytes
  <2>3. collected + content \in Content(f, k - 1)..Content(f, k)
    <3>1. /\ collected + state.buffered = Content(f, k - 1) /\ Content(f, k - 1) \in Nat
          /\ Content(f, k) = Content(f, k - 1) + b.size
      BY <1>1 DEF AtBlock, Adds
    <3> QED
      BY <1>2, <1>3, <1>5, <3>1 DEF content
  <2>4. f = state'.header
    BY <1>6 DEF f
  <2> QED
    BY <1>6, <2>1, <2>2, <2>3, <2>4 DEF Unfinished
<1> QED
  BY <1>1, <1>6, <1>7, NoneAssumption DEF Counted, AtBlock, Kept, f

\* A block that is not the last one leaves the decoder before the next.
LEMMA NextBlockIsCounted ==
    ASSUME IInv, InFrame, ~state.frame_finished, ~IsLastAt(state.bytes_read_counter),
           state' = WithBlock(BlockAt(state.bytes_read_counter))
    PROVE  LET n == BlockSize(BlockAt(state.bytes_read_counter))
           IN  /\ Kept(state, state', collected) /\ ~state'.frame_finished /\ n \in Nat
               /\ state'.bytes_read_counter = state.bytes_read_counter + n
               /\ state'.bytes_read_counter = BlockStart(state'.header, state'.block_counter + 1)
               /\ collected + state'.buffered = Content(state'.header, state'.block_counter)
<1> DEFINE f == state.header
           k == state.block_counter + 1
           b == BlockAt(state.bytes_read_counter)
<1>1. AtBlock(f, k, b) /\ Adds(f, k, b)
  BY IsAtBlock
<1>2. state \in States /\ collected \in Nat /\ b \in BlockForms
  BY <1>1 DEF AtBlock
<1>3. /\ Set(state, state', k, state.bytes_read_counter + BlockSize(b), state.buffered + b.size)
      /\ state'.frame_finished = state.frame_finished /\ state'.check_sum = state.check_sum
  BY <1>2, BlockCounted
<1>4. k # Len(f.blocks)
  BY <1>1 DEF AtBlock
<1>5. f = state.header
  OBVIOUS
<1> HIDE DEF f, k, b
<1>6. /\ k \in 1..Len(f.blocks) /\ Len(f.blocks) \in Nat /\ f.header \in Nat
      /\ BlocksSize(f, k - 1) \in Nat /\ BlocksSize(f, k) = BlocksSize(f, k - 1) + BlockSize(b)
      /\ Content(f, k - 1) \in Nat /\ Content(f, k) = Content(f, k - 1) + b.size
      /\ BlockSize(b) \in Nat /\ b.size \in Nat
      /\ BlockStart(f, k) = f.header + BlocksSize(f, k - 1)
      /\ BlockStart(f, k + 1) = f.header + BlocksSize(f, k)
      /\ k < Len(f.blocks) => Content(f, k) <= Content(f, k + 1) /\ Content(f, k + 1) \in Nat
  BY <1>1 DEF AtBlock, Adds
<1>7. /\ state.bytes_read_counter = BlockStart(f, k)
      /\ collected + state.buffered = Content(f, k - 1) /\ state.buffered \in Nat
      /\ ~state.frame_finished /\ ~state.check_sum
      /\ f \in Frames /\ f.kind = "zstd"
  BY <1>1, <1>2, StateParts DEF AtBlock
<1>8. /\ state' \in States /\ state'.header = f /\ state'.of = state.of
      /\ state'.block_counter = k /\ ~state'.frame_finished /\ ~state'.check_sum
      /\ state'.bytes_read_counter = state.bytes_read_counter + BlockSize(b)
      /\ state'.buffered = state.buffered + b.size
  BY <1>3, <1>5, <1>7 DEF Set
<1>9. state'.bytes_read_counter = BlockStart(f, k + 1)
  BY <1>6, <1>7, <1>8
<1>10. collected + state'.buffered = Content(f, k)
  <2> DEFINE before == state.buffered
             size == b.size
  <2>1. /\ before \in Nat /\ size \in Nat /\ collected + before = Content(f, k - 1)
        /\ state'.buffered = before + size /\ Content(f, k) = Content(f, k - 1) + size
    BY <1>6, <1>7, <1>8
  <2> HIDE DEF before, size
  <2> QED
    BY <1>2, <2>1
<1>11. Unfinished(state', collected)
  <2>1. k < Len(f.blocks) /\ Content(f, k) \in Nat
    BY <1>4, <1>6, SMTT(40)
  <2>2. BlockStart(f, k + 1) - f.header - BlocksSize(f, k) \in {0, BlockHeader}
    BY <1>6
  <2>3. Content(f, k) \in Content(f, k)..Content(f, k + 1)
    BY <1>6, <2>1
  <2> QED
    BY <1>8, <1>9, <1>10, <2>1, <2>2, <2>3, Zenon DEF Unfinished
<1>12. Kept(state, state', collected)
  BY <1>5, <1>7, <1>8, <1>11, NoneAssumption DEF Counted, Kept
<1> QED
  BY <1>6, <1>8, <1>9, <1>10, <1>12 DEF b

\* The last block, with its checksum or without.
LEMMA LastBlockIsCounted ==
    ASSUME IInv, InFrame, ~state.frame_finished, IsLastAt(state.bytes_read_counter), NEW s,
           s = [WithBlock(BlockAt(state.bytes_read_counter)) EXCEPT !.frame_finished = TRUE],
           \/ state' = s
           \/ /\ state.header.checksum
              /\ state' = [s EXCEPT !.bytes_read_counter = @ + Checksum, !.check_sum = TRUE]
    PROVE  LET n == BlockSize(BlockAt(state.bytes_read_counter))
           IN  /\ Kept(state, state', collected) /\ state'.frame_finished /\ n \in Nat
               /\ s.bytes_read_counter = state.bytes_read_counter + n
               /\ state' = s => state'.bytes_read_counter = state.bytes_read_counter + n
               /\ state'.bytes_read_counter \in
                     {state.bytes_read_counter + n, state.bytes_read_counter + n + Checksum}
               /\ state' # s =>
                     state'.bytes_read_counter = state.bytes_read_counter + n + Checksum
<1> DEFINE f == state.header
           k == state.block_counter + 1
           b == BlockAt(state.bytes_read_counter)
           n == BlockSize(b)
           w == WithBlock(b)
<1>1. AtBlock(f, k, b) /\ Adds(f, k, b)
  BY IsAtBlock
<1>2. state \in States /\ collected \in Nat /\ b \in BlockForms
  BY <1>1 DEF AtBlock
<1>3. /\ Set(state, w, k, state.bytes_read_counter + n, state.buffered + b.size)
      /\ w.frame_finished = state.frame_finished /\ w.check_sum = state.check_sum
  BY <1>2, BlockCounted
<1>4. /\ k = Len(f.blocks) /\ state.bytes_read_counter \in Nat /\ state.buffered \in Nat
      /\ k \in Nat /\ state.check_sum = FALSE /\ f.checksum \in BOOLEAN
  BY <1>1, <1>2, StateParts, FrameParts DEF AtBlock
<1>5. s = [w EXCEPT !.frame_finished = TRUE] /\ f = state.header
  OBVIOUS
<1> HIDE DEF f, k, b, n, w
<1>6. /\ f \in Frames /\ f.kind = "zstd" /\ f.header \in Nat /\ n \in Nat /\ b.size \in Nat
      /\ state.bytes_read_counter = BlockStart(f, k)
      /\ collected + state.buffered = Content(f, k - 1)
      /\ BlocksSize(f, k - 1) \in Nat /\ BlocksSize(f, k) = BlocksSize(f, k - 1) + n
      /\ Content(f, k - 1) \in Nat /\ Content(f, k) = Content(f, k - 1) + b.size
      /\ BlockStart(f, k) = f.header + BlocksSize(f, k - 1)
  BY <1>1 DEF AtBlock, Adds, n
<1>7. Content(f, k) = ContentSize(f)
  BY <1>4, <1>6, ContentIsHeld
<1> DEFINE bytes == f.header + BlocksSize(f, k)
<1>8. bytes = state.bytes_read_counter + n /\ bytes \in Nat
  BY <1>6
<1> HIDE DEF bytes
<1>9. /\ s \in States /\ s.header = f /\ s.of = state.of /\ s.block_counter = k
      /\ s.frame_finished = TRUE /\ s.check_sum = FALSE
      /\ s.bytes_read_counter = bytes /\ s.buffered = state.buffered + b.size
  <2>1. w \in States /\ w.bytes_read_counter = bytes
    BY <1>3, <1>8 DEF Set
  <2>2. s \in States
    BY <1>5, <2>1 DEF States
  <2> QED
    BY <1>3, <1>4, <1>5, <2>1, <2>2 DEF Set, States
<1>10. /\ state' \in States /\ state'.header = f /\ state'.of = state.of /\ state'.block_counter = k
       /\ state'.frame_finished = TRUE /\ state'.buffered = state.buffered + b.size
       /\ \/ state' = s /\ state'.check_sum = FALSE /\ state'.bytes_read_counter = bytes
          \/ /\ state' # s /\ state'.check_sum = TRUE /\ state'.bytes_read_counter = bytes + Checksum
             /\ f.checksum
  <2>1. CASE state' = s
    BY <1>9, <2>1
  <2>2. CASE f.checksum /\ state' = [s EXCEPT !.bytes_read_counter = @ + Checksum, !.check_sum = TRUE]
    <3> DEFINE r == bytes + Checksum
    <3>1. r \in Nat
      BY <1>8 DEF Checksum
    <3>2. state' = [s EXCEPT !.bytes_read_counter = r, !.check_sum = TRUE]
      BY <1>9, <2>2
    <3> HIDE DEF r
    <3>3. state' \in States
      BY <1>9, <3>1, <3>2 DEF States
    <3>4. /\ state'.header = s.header /\ state'.of = s.of /\ state'.block_counter = s.block_counter
          /\ state'.frame_finished = s.frame_finished /\ state'.buffered = s.buffered
          /\ state'.check_sum = TRUE /\ state'.bytes_read_counter = r
      BY <1>9, <3>2 DEF States
    <3>5. state' # s
      BY <1>9, <3>4
    <3> QED
      BY <1>9, <2>2, <3>3, <3>4, <3>5 DEF r
  <2> QED
    BY <1>5, <2>1, <2>2
<1>11. Finished(state', collected)
  <2>1. collected + state'.buffered = ContentSize(f)
    <3>1. (collected + state.buffered) + b.size = collected + (state.buffered + b.size)
      BY <1>2, <1>4, <1>6, SMTT(30)
    <3> QED
      BY <1>6, <1>7, <1>10, <3>1
  <2>2. state'.bytes_read_counter = f.header + BlocksSize(f, k)
                                      + (IF state'.check_sum THEN Checksum ELSE 0)
    BY <1>8, <1>10 DEF bytes
  <2> QED
    BY <1>4, <1>10, <2>1, <2>2 DEF Finished
<1>12. Kept(state, state', collected)
  BY <1>5, <1>6, <1>10, <1>11, NoneAssumption DEF Counted, Kept
<1> QED
  BY <1>6, <1>8, <1>9, <1>10, <1>12 DEF n, b

\* A step within a call, while the decoder is in its frame.
LEMMA LoopKeepsIInv ==
    ASSUME IInv, InFrame, dicts' = dicts, collected' = collected, Moved(source, source'),
           Kept(state, state', collected), OnFrame', CallOK',
           ret' = ret \/ (ret'.op # "reset" /\ ret'.result # "SkipFrame")
    PROVE  IInv'
<1>1. SourceOK' /\ source'.id = source.id /\ source'.cur = source.cur
  BY DEF IInv, SourceOK, Moved
<1>2. DecoderOK' /\ OpenedBefore'
  BY <1>1 DEF IInv, DecoderOK, OpenedBefore, InFrame, Kept
<1>3. ResetOK'
  BY DEF IInv, ResetOK, FailedReset
<1> QED
  BY <1>1, <1>2, <1>3 DEF IInv

\* What a decoder in its frame knows of its source.
LEMMA SourceOfFrame ==
    ASSUME IInv, InFrame
    PROVE  /\ source \in SourceForms /\ source.pos <= source.end
           /\ source.pos \in Nat /\ source.end \in Nat
           /\ FrameStart(source.frames, source.cur) \in Nat
           /\ FramePos = source.pos - FrameStart(source.frames, source.cur)
           /\ source.cur \in 1..Len(source.frames) /\ source.frames \in Inputs
           /\ state \in States /\ state # None /\ Kept(state, state, collected)
<1>1. /\ source \in SourceForms /\ source.pos <= source.end /\ source.pos \in Nat
      /\ source.end \in Nat /\ source.frames \in Inputs
  BY DEF IInv, SourceOK, SourceForms
<1>2. state.of[1] = source.id /\ state.of[2] = source.cur /\ state # None
  BY DEF InFrame
<1>3. Len(source.frames) \in Nat
  BY <1>1, FramesOfSource
<1>4. source.cur \in 1..source.cur /\ source.cur \in 0..Len(source.frames)
  BY <1>2 DEF IInv, OpenedBefore, SourceOK
<1>5. source.cur \in 1..(Len(source.frames) + 1) /\ source.cur \in 1..Len(source.frames)
  BY <1>3, <1>4
<1>6. FrameStart(source.frames, source.cur) \in Nat
  BY <1>1, <1>5, FramesAreLaid
<1>7. state \in States /\ Kept(state, state, collected)
  BY <1>2 DEF IInv, DecoderOK, Counted, Kept
<1> QED
  BY <1>1, <1>2, <1>5, <1>6, <1>7 DEF FramePos

\* Who waits for decode_blocks goes on when it returns.
LEMMA CallersGoOn ==
    ASSUME call.caller \in Callers, NEW r, NEW n, Return(r, n), r # "SkipFrame", state' # None
    PROVE  /\ CallOK' /\ call'.op # "from_to" /\ dicts' = dicts /\ collected' = collected
           /\ ret'.op = "decode_blocks" /\ ret'.op # "reset" /\ ret'.result # "SkipFrame"
<1>1. call' = call.caller /\ ret'.op = "decode_blocks" /\ ret'.result = r
      /\ dicts' = dicts /\ collected' = collected
  BY DEF Return
<1>2. CASE call' = Idle
  BY <1>1, <1>2 DEF CallOK, Idle
<1>3. CASE call' \in StreamCalls
  BY <1>1, <1>3 DEF CallOK, StreamCalls
<1>4. CASE call' \in AllCalls /\ call'.at = "drain"
  BY <1>1, <1>4 DEF CallOK, AllCalls
<1> QED
  BY <1>1, <1>2, <1>3, <1>4 DEF Callers

\* A call of decode_blocks is in its frame, which the caller may not know to have
\* ended.
LEMMA CallIsInFrame ==
    ASSUME IInv, call.op = "decode_blocks"
    PROVE  InFrame /\ call.caller \in Callers /\ (state.frame_finished => call.caller = Idle)
  BY DEF IInv, CallOK, Idle, StreamCalls, SliceCalls, AllCalls

\* Until then it is at a block.
LEMMA CallIsAtBlock ==
    ASSUME IInv, call.op = "decode_blocks", ~state.frame_finished
    PROVE  /\ InFrame /\ call.caller \in Callers
           /\ state.bytes_read_counter = FramePos
           /\ BlockHere = BlockAt(state.bytes_read_counter)
           /\ BlockSize(BlockHere) \in Nat /\ BlockHere.size \in Nat /\ BlockHere \in BlockForms
<1>1. InFrame /\ call.caller \in Callers
  BY CallIsInFrame
<1>2. state.bytes_read_counter = FramePos
  BY <1>1 DEF IInv, OnFrame
<1>3. BlockHere = BlockAt(state.bytes_read_counter)
  BY <1>2 DEF BlockHere
<1>4. BlockHere \in BlockForms
  BY <1>1, <1>3, IsAtBlock, Zenon DEF AtBlock
<1> QED
  BY <1>1, <1>2, <1>3, <1>4, BlockParts

\* A read that fails makes the source unusable.
LEMMA FailureLeavesFrame ==
    ASSUME IInv, call.op = "decode_blocks", Moved(source, source'), ~source'.usable,
           Kept(state, state', collected), NEW r, NEW n, Return(r, n), r # "SkipFrame"
    PROVE  IInv' /\ ~InFrame'
<1>1. InFrame /\ call.caller \in Callers
  BY CallIsInFrame
<1>2. state' # None
  BY DEF Kept
<1>3. /\ CallOK' /\ dicts' = dicts /\ collected' = collected
      /\ ret'.op # "reset" /\ ret'.result # "SkipFrame"
  BY <1>1, <1>2, CallersGoOn
<1>4. ~InFrame' /\ OnFrame'
  BY DEF InFrame, OnFrame
<1> QED
  BY <1>1, <1>3, <1>4, LoopKeepsIInv

\* A block header that cannot be read changes no counter.
LEMMA HeaderFailureKeepsIInv ==
    ASSUME IInv, call.op = "decode_blocks", BlockHeaderFails
    PROVE  /\ IInv' /\ ~InFrame' /\ Moved(source, source') /\ Kept(state, state', collected)
           /\ state' = state /\ \E r : r # "ok" /\ Return(r, 0)
<1>1. InFrame
  BY CallIsInFrame
<1>2. source \in SourceForms /\ source.pos <= source.end /\ Kept(state, state, collected)
  BY <1>1, SourceOfFrame
<1>3. BlockHeader \in Nat
  BY DEF BlockHeader
<1>4. Moved(source, source') /\ ~source'.usable
  <2>1. \/ source' = Spent(source)
        \/ Has(source, BlockHeader) /\ source' = Unusable(source, BlockHeader)
    BY DEF BlockHeaderFails
  <2> QED
    BY <1>2, <1>3, <2>1, SourceMoves
<1>5. state' = state /\ Return("FailedToReadBlockHeader", 0)
  BY DEF BlockHeaderFails
<1> QED
  BY <1>2, <1>4, <1>5, FailureLeavesFrame

\* The body of a block that is cut off or damaged.
LEMMA BodyFailureKeepsIInv ==
    ASSUME IInv, call.op = "decode_blocks", BlockBodyFails
    PROVE  /\ ~state.frame_finished /\ IInv' /\ ~InFrame' /\ Moved(source, source') /\ Kept(state, state', collected)
           /\ \E r : r # "ok" /\ Return(r, 0)
<1>1. /\ InFrame /\ ~state.frame_finished /\ BlockHere = BlockAt(state.bytes_read_counter)
      /\ BlockSize(BlockHere) \in Nat /\ BlockHere.size \in Nat
  BY CallIsAtBlock DEF BlockBodyFails, HeaderRead
<1>2. source \in SourceForms /\ source.pos <= source.end /\ state \in States
  BY <1>1, SourceOfFrame
<1>3. Moved(source, source') /\ ~source'.usable
  <2>1. \/ source' = Spent(source)
        \/ /\ Has(source, BlockSize(BlockHere))
           /\ source' = Unusable(source, BlockSize(BlockHere))
    BY DEF BlockBodyFails
  <2> QED
    BY <1>1, <1>2, <2>1, SourceMoves
<1>4. PICK n \in 0..BlockHere.size :
         state' = [state EXCEPT !.bytes_read_counter = @ + BlockHeader, !.buffered = @ + n]
  <2>1. CASE state' = [state EXCEPT !.bytes_read_counter = @ + BlockHeader]
    <3>1. state.buffered + 0 = state.buffered /\ 0 \in 0..BlockHere.size
      BY <1>1, <1>2, StateParts
    <3>2. state' = [state EXCEPT !.bytes_read_counter = @ + BlockHeader, !.buffered = @ + 0]
      BY <1>2, <2>1, <3>1 DEF States
    <3> QED
      BY <3>1, <3>2
  <2>2. CASE \E n \in 0..BlockHere.size :
                state' = [state EXCEPT !.bytes_read_counter = @ + BlockHeader, !.buffered = @ + n]
    BY <2>2
  <2> QED
    BY <2>1, <2>2 DEF BlockBodyFails
<1>5. Kept(state, state', collected)
  BY <1>1, <1>4, DamageIsCounted
<1>6. Return("FailedToReadBlockBody", 0)
  BY DEF BlockBodyFails
<1> QED
  BY <1>1, <1>3, <1>5, <1>6, FailureLeavesFrame

\* A decoder that read on is where its source is.
LEMMA ReadOn ==
    ASSUME IInv, InFrame, state.bytes_read_counter = FramePos,
           Kept(state, state', collected), Moved(source, source'), collected' = collected,
           source'.usable, NEW n \in Nat, source'.pos = source.pos + n,
           state'.bytes_read_counter = state.bytes_read_counter + n,
           ~state'.frame_finished =>
              /\ state'.bytes_read_counter = BlockStart(state'.header, state'.block_counter + 1)
              /\ collected + state'.buffered = Content(state'.header, state'.block_counter)
    PROVE  OnFrame' /\ InFrame'
<1>1. /\ source.pos \in Nat /\ FrameStart(source.frames, source.cur) \in Nat
      /\ FramePos = source.pos - FrameStart(source.frames, source.cur)
  BY SourceOfFrame
<1>2. source'.frames = source.frames /\ source'.cur = source.cur /\ source'.id = source.id
  BY DEF Moved
<1>3. FramePos' = source'.pos - FrameStart(source.frames, source.cur)
  BY <1>2 DEF FramePos
<1>4. state'.bytes_read_counter = FramePos'
  BY <1>1, <1>3
<1>5. state'.header = source'.frames[source'.cur]
  BY <1>2 DEF IInv, OnFrame, Kept
<1>6. InFrame'
  BY <1>2 DEF InFrame, Kept
<1> QED
  BY <1>4, <1>5, <1>6, Zenon DEF OnFrame

\* A block that is not the last one: the decoder stands before the next.
LEMMA BlockKeepsIInv ==
    ASSUME IInv, call.op = "decode_blocks", DecodeBlock
    PROVE  /\ IInv' /\ InFrame' /\ Moved(source, source')
           /\ Kept(state, state', collected) /\ ~state'.frame_finished /\ ~state.frame_finished
<1> DEFINE b == BlockHere
           n == BlockSize(b)
<1>1. /\ InFrame /\ ~state.frame_finished /\ call.caller \in Callers
      /\ state.bytes_read_counter = FramePos
      /\ b = BlockAt(state.bytes_read_counter) /\ n \in Nat
  BY CallIsAtBlock DEF DecodeBlock, BodyRead, HeaderRead
<1>2. source \in SourceForms /\ source.pos <= source.end
  BY <1>1, SourceOfFrame
<1>3. /\ Has(source, n) /\ source' = Advanced(source, n)
      /\ state' = WithBlock(b) /\ ~IsLastAt(FramePos)
      /\ \/ Return("ok", 0)
         \/ UNCHANGED <<call, ret, dicts, collected>>
  BY DEF DecodeBlock, BodyRead
<1>4. Moved(source, source') /\ source'.pos = source.pos + n /\ source'.usable
  BY <1>1, <1>2, <1>3, SourceMoves DEF InFrame
<1>5. /\ Kept(state, state', collected) /\ ~state'.frame_finished
      /\ state'.bytes_read_counter = state.bytes_read_counter + n
      /\ state'.bytes_read_counter = BlockStart(state'.header, state'.block_counter + 1)
      /\ collected + state'.buffered = Content(state'.header, state'.block_counter)
  BY <1>1, <1>3, NextBlockIsCounted
<1> HIDE DEF b, n
<1>6. dicts' = dicts /\ collected' = collected
      /\ (ret' = ret \/ (ret'.op # "reset" /\ ret'.result # "SkipFrame"))
  BY <1>3 DEF Return
<1>7. OnFrame' /\ InFrame'
  BY <1>1, <1>4, <1>5, <1>6, ReadOn
<1>8. CallOK'
  <2>1. CASE Return("ok", 0)
    BY <1>1, <1>5, <2>1, CallersGoOn DEF Kept
  <2>2. CASE UNCHANGED <<call, ret, dicts, collected>>
    BY <1>1, <1>5, <1>7, <2>2 DEF CallOK
  <2> QED
    BY <1>3, <2>1, <2>2
<1> QED
  BY <1>1, <1>4, <1>5, <1>6, <1>7, <1>8, LoopKeepsIInv

\* The last block: the frame is whole, or its checksum is missing and the
\* source has ended.
LEMMA LastBlockKeepsIInv ==
    ASSUME IInv, call.op = "decode_blocks", DecodeLastBlock
    PROVE  /\ IInv' /\ Moved(source, source') /\ Kept(state, state', collected)
           /\ state'.frame_finished /\ ~state.frame_finished
           /\ InFrame' => (state.header.checksum => state'.check_sum)
           /\ ret'.result = "ok" => InFrame'
<1> DEFINE b == BlockHere
           n == BlockSize(b)
           s == [WithBlock(b) EXCEPT !.frame_finished = TRUE]
<1>1. /\ InFrame /\ ~state.frame_finished /\ call.caller \in Callers
      /\ state.bytes_read_counter = FramePos
      /\ b = BlockAt(state.bytes_read_counter) /\ n \in Nat
  BY CallIsAtBlock DEF DecodeLastBlock, BodyRead, HeaderRead
<1>2. source \in SourceForms /\ source.pos <= source.end /\ state.bytes_read_counter \in Nat
  BY <1>1, SourceOfFrame, StateParts
<1>3. /\ Has(source, n) /\ IsLastAt(FramePos)
      /\ \/ /\ ~state.header.checksum /\ source' = Advanced(source, n) /\ state' = s
            /\ Return("ok", 1)
         \/ /\ state.header.checksum /\ Has(source, n + Checksum)
            /\ source' = Advanced(source, n + Checksum)
            /\ state' = [s EXCEPT !.bytes_read_counter = @ + Checksum, !.check_sum = TRUE]
            /\ Return("ok", 1)
         \/ /\ source' = Spent(source) /\ state' = s
            /\ Return("FailedToReadChecksum", 0)
  BY DEF DecodeLastBlock, BodyRead
<1>4. /\ Kept(state, state', collected) /\ state'.frame_finished
      /\ state' = s => state'.bytes_read_counter = state.bytes_read_counter + n
      /\ state' # s => state'.bytes_read_counter = state.bytes_read_counter + n + Checksum
      /\ s.bytes_read_counter = state.bytes_read_counter + n
  <2>1. IsLastAt(state.bytes_read_counter)
    BY <1>1, <1>3
  <2>2. \/ state' = s
        \/ /\ state.header.checksum
           /\ state' = [s EXCEPT !.bytes_read_counter = @ + Checksum, !.check_sum = TRUE]
    BY <1>3
  <2> QED
    BY <1>1, <2>1, <2>2, LastBlockIsCounted
<1> HIDE DEF b, n
<1>5. CASE source' = Spent(source) /\ state' = s /\ Return("FailedToReadChecksum", 0)
  <2>1. Moved(source, source') /\ ~source'.usable
    BY <1>1, <1>2, <1>5, SourceMoves
  <2>2. IInv' /\ ~InFrame'
    BY <1>4, <1>5, <2>1, FailureLeavesFrame
  <2>3. ret'.result # "ok"
    BY <1>5 DEF Return
  <2> QED
    BY <1>1, <1>4, <2>1, <2>2, <2>3
<1>6. CASE ~state.header.checksum /\ source' = Advanced(source, n) /\ state' = s /\ Return("ok", 1)
  <2>1. Moved(source, source') /\ source'.pos = source.pos + n /\ source'.usable
    BY <1>1, <1>2, <1>3, <1>6, SourceMoves DEF InFrame
  <2>2. /\ CallOK' /\ dicts' = dicts /\ collected' = collected
        /\ ret'.op # "reset" /\ ret'.result # "SkipFrame"
    BY <1>1, <1>4, <1>6, CallersGoOn DEF Kept
  <2>3. state'.bytes_read_counter = state.bytes_read_counter + n
    BY <1>4, <1>6
  <2>4. OnFrame' /\ InFrame'
    BY <1>1, <1>4, <2>1, <2>2, <2>3, ReadOn
  <2>5. IInv'
    BY <1>1, <1>4, <2>1, <2>2, <2>4, LoopKeepsIInv
  <2> QED
    BY <1>1, <1>4, <1>6, <2>1, <2>4, <2>5
<1>7. CASE /\ state.header.checksum /\ Has(source, n + Checksum)
           /\ source' = Advanced(source, n + Checksum)
           /\ state' = [s EXCEPT !.bytes_read_counter = @ + Checksum, !.check_sum = TRUE]
           /\ Return("ok", 1)
  <2> DEFINE m == n + Checksum
  <2>1. m \in Nat
    BY <1>1 DEF Checksum
  <2>2. Moved(source, source') /\ source'.pos = source.pos + m /\ source'.usable
    BY <1>1, <1>2, <1>7, <2>1, SourceMoves DEF InFrame
  <2>3. /\ CallOK' /\ dicts' = dicts /\ collected' = collected
        /\ ret'.op # "reset" /\ ret'.result # "SkipFrame"
    BY <1>1, <1>4, <1>7, CallersGoOn DEF Kept
  <2>4. state'.check_sum /\ state'.bytes_read_counter = state.bytes_read_counter + m
    <3>1. state' \in States
      BY <1>4 DEF Kept
    <3>2. state'.check_sum = TRUE
      BY <1>7, <3>1 DEF States
    <3>3. state' # s
      <4>1. s.bytes_read_counter # s.bytes_read_counter + Checksum
        BY <1>1, <1>2, <1>4 DEF Checksum
      <4>2. state'.bytes_read_counter = s.bytes_read_counter + Checksum
        BY <1>7, <3>1 DEF States
      <4> QED
        BY <4>1, <4>2
    <3>4. (state.bytes_read_counter + n) + Checksum = state.bytes_read_counter + (n + Checksum)
      BY <1>1, <1>2 DEF Checksum
    <3> QED
      BY <1>4, <3>2, <3>3, <3>4
  <2> HIDE DEF m
  <2>5. OnFrame' /\ InFrame'
    BY <1>1, <1>4, <2>1, <2>2, <2>3, <2>4, ReadOn
  <2>6. IInv'
    BY <1>1, <1>4, <2>2, <2>3, <2>5, LoopKeepsIInv
  <2> QED
    BY <1>1, <1>4, <2>2, <2>4, <2>5, <2>6
<1> QED
  BY <1>3, <1>5, <1>6, <1>7

\* A round of the loop.
LEMMA BlockStepKeepsIInv ==
    ASSUME IInv, BlockStep
    PROVE  IInv'
<1>1. call.op = "decode_blocks"
  BY DEF BlockStep
<1> QED
  BY <1>1, HeaderFailureKeepsIInv, BodyFailureKeepsIInv, BlockKeepsIInv, LastBlockKeepsIInv
  DEF BlockStep

\* Every step keeps the invariant.
LEMMA NextKeepsIInv == IInv /\ [Next]_vars => IInv'
<1> SUFFICES ASSUME IInv, [Next]_vars PROVE IInv'
  OBVIOUS
<1>1. CASE Reset
  BY <1>1, ResetKeepsIInv
<1>2. CASE SkipFrame
  BY <1>2, SkipFrameKeepsIInv
<1>3. CASE Sources
  BY <1>3, SourcesKeepIInv
<1>4. CASE \E d \in Dicts : AddDict(d) \/ ForceDict(d)
  BY <1>4, DictsKeepIInv
<1>5. CASE \E strat \in Strategies : call = Idle /\ DecodeBlocks(strat, Idle)
  <2>1. call.op # "from_to" /\ Idle \in Callers
    BY <1>5 DEF Idle, Callers
  <2> QED
    BY <1>5, <2>1, DecodeBlocksKeepsIInv
<1>6. CASE NotYetInitialized \/ BlockStep
  BY <1>6, NotYetInitializedKeepsIInv, BlockStepKeepsIInv
<1>7. CASE Collect \/ CollectToWriter \/ \E n \in ReadSizes : Read(n)
  BY <1>7, DrainingKeepsIInv
<1>8. CASE UNCHANGED vars
  <2>1. UNCHANGED <<source, state, dicts, call, ret, collected>>
    BY <1>8 DEF vars
  <2>2. (InFrame' <=> InFrame) /\ FramePos' = FramePos
    BY <2>1 DEF InFrame, FramePos
  <2>3. SourceOK' /\ DecoderOK' /\ OpenedBefore'
    BY <2>1 DEF IInv, SourceOK, DecoderOK, OpenedBefore
  <2>4. OnFrame' /\ CallOK' /\ ResetOK'
    BY <2>1, <2>2 DEF IInv, OnFrame, CallOK, ResetOK, FailedReset
  <2> QED
    BY <2>3, <2>4 DEF IInv
<1> QED
  BY <1>1, <1>2, <1>3, <1>4, <1>5, <1>6, <1>7, <1>8 DEF Next

\* What a round of the loop does, however it ends.
LEMMA BlockStepDoes ==
    ASSUME IInv, BlockStep
    PROVE  /\ IInv' /\ Moved(source, source') /\ Kept(state, state', collected)
           /\ collected' = collected /\ dicts' = dicts
           /\ call.op = "decode_blocks" /\ call.caller \in Callers
           /\ state \in States /\ state'.buffered \in Nat
           /\ state.frame_finished => state' = state
           /\ ~state.frame_finished =>
                 BlockHere.size \in Nat /\ state'.buffered <= state.buffered + BlockHere.size
           /\ InFrame' /\ state'.frame_finished => (state.header.checksum => state'.check_sum)
           /\ \/ /\ call' = call.caller /\ ret'.op = "decode_blocks"
                 /\ ret'.result = "ok" => InFrame'
              \/ call' = call /\ ret' = ret /\ InFrame' /\ ~StrategyReached(state')
<1>1. call.op = "decode_blocks"
  BY DEF BlockStep
<1>2. /\ InFrame /\ call.caller \in Callers
      /\ ~state.frame_finished => BlockHere.size \in Nat /\ BlockHere \in BlockForms
  BY <1>1, CallIsInFrame, CallIsAtBlock
<1>3. state \in States /\ state.buffered \in Nat
  BY <1>2, SourceOfFrame, StateParts
<1>4. ~state.frame_finished =>
         /\ WithBlock(BlockHere) \in States
         /\ WithBlock(BlockHere).buffered = state.buffered + BlockHere.size
  BY <1>2, <1>3, BlockCounted DEF Set
<1>5. ASSUME Kept(state, state', collected) PROVE state'.buffered \in Nat
  BY <1>5, StateParts DEF Kept
<1>6. \A r, n : Return(r, n) => /\ call' = call.caller /\ ret'.op = "decode_blocks"
                                /\ ret'.result = r /\ collected' = collected /\ dicts' = dicts
  BY DEF Return
<1>7. CASE BlockHeaderFails
  <2>1. /\ IInv' /\ ~InFrame' /\ Moved(source, source') /\ Kept(state, state', collected)
        /\ state' = state /\ \E r : r # "ok" /\ Return(r, 0)
    BY <1>1, <1>7, HeaderFailureKeepsIInv
  <2>2. ~state.frame_finished => state'.buffered <= state.buffered + BlockHere.size
    BY <1>2, <1>3, <2>1
  <2> QED
    BY <1>1, <1>2, <1>3, <1>5, <1>6, <2>1, <2>2
<1>8. CASE BlockBodyFails
  <2>1. \/ state' = [state EXCEPT !.bytes_read_counter = @ + BlockHeader]
        \/ \E n \in 0..BlockHere.size :
              state' = [state EXCEPT !.bytes_read_counter = @ + BlockHeader, !.buffered = @ + n]
    BY <1>8 DEF BlockBodyFails
  <2>2. /\ ~state.frame_finished /\ IInv' /\ ~InFrame' /\ Moved(source, source') /\ Kept(state, state', collected)
        /\ \E r : r # "ok" /\ Return(r, 0)
    BY <1>1, <1>8, BodyFailureKeepsIInv
  <2>3. state'.buffered <= state.buffered + BlockHere.size
    <3> DEFINE size == BlockHere.size
    <3>1. PICK n \in 0..size : state'.buffered = state.buffered + n
      <4>1. size \in Nat
        BY <1>2, <2>2
      <4>2. 0 \in 0..size /\ state.buffered = state.buffered + 0
        BY <1>3, <4>1
      <4>3. CASE state' = [state EXCEPT !.bytes_read_counter = @ + BlockHeader]
        BY <1>3, <4>2, <4>3 DEF States
      <4>4. ASSUME NEW n \in 0..size,
                   state' = [state EXCEPT !.bytes_read_counter = @ + BlockHeader, !.buffered = @ + n]
            PROVE  state'.buffered = state.buffered + n
        BY <1>3, <4>4 DEF States
      <4> QED
        BY <2>1, <4>3, <4>4
    <3> HIDE DEF size
    <3>2. size \in Nat
      BY <1>2, <2>2 DEF size
    <3> QED
      BY <1>3, <3>1, <3>2 DEF size
  <2> QED
    BY <1>1, <1>2, <1>3, <1>5, <1>6, <2>2, <2>3
<1>9. CASE DecodeBlock
  <2>1. state' = WithBlock(BlockHere)
    BY <1>9 DEF DecodeBlock
  <2>2. /\ IInv' /\ InFrame' /\ Moved(source, source') /\ Kept(state, state', collected)
        /\ ~state'.frame_finished /\ ~state.frame_finished
    BY <1>1, <1>9, BlockKeepsIInv
  <2>3. \/ Return("ok", 0)
        \/ ~StrategyReached(state') /\ UNCHANGED <<call, ret, dicts, collected>>
    BY <1>9 DEF DecodeBlock
  <2>4. state'.buffered <= state.buffered + BlockHere.size
    BY <1>2, <1>3, <1>4, <2>1, <2>2
  <2> QED
    BY <1>1, <1>2, <1>3, <1>5, <1>6, <2>2, <2>3, <2>4
<1>10. CASE DecodeLastBlock
  <2>1. /\ IInv' /\ Moved(source, source') /\ Kept(state, state', collected)
        /\ ~state.frame_finished /\ (ret'.result = "ok" => InFrame')
        /\ InFrame' => (state.header.checksum => state'.check_sum)
    BY <1>1, <1>10, LastBlockKeepsIInv
  <2> DEFINE s == [WithBlock(BlockHere) EXCEPT !.frame_finished = TRUE]
  <2>2. \/ state' = s
        \/ state' = [s EXCEPT !.bytes_read_counter = @ + Checksum, !.check_sum = TRUE]
    BY <1>10, Zenon DEF DecodeLastBlock
  <2>3. state'.buffered <= state.buffered + BlockHere.size
    <3> DEFINE t == WithBlock(BlockHere)
    <3>1. t \in States
      BY <1>4, <2>1
    <3> HIDE DEF t
    <3>2. [t EXCEPT !.frame_finished = TRUE].buffered = t.buffered
      BY <3>1 DEF States
    <3>3. [[t EXCEPT !.frame_finished = TRUE] EXCEPT
             !.bytes_read_counter = @ + Checksum, !.check_sum = TRUE].buffered = t.buffered
      BY <3>1 DEF States
    <3>4. state'.buffered = t.buffered
      BY <2>2, <3>2, <3>3 DEF t
    <3> QED
      BY <1>2, <1>3, <1>4, <2>1, <3>4 DEF t
  <2>4. \E r : Return(r, 0) \/ Return(r, 1)
    BY <1>10, Zenon DEF DecodeLastBlock
  <2> QED
    BY <1>1, <1>2, <1>3, <1>5, <1>6, <2>1, <2>3, <2>4
<1> QED
  BY <1>7, <1>8, <1>9, <1>10 DEF BlockStep

\* A round of decode_blocks does not follow a failed reset, nor is it one.
LEMMA RoundIsNoReset ==
    ASSUME IInv, BlockStep
    PROVE  ~FailedReset(ret')
<1>1. /\ call.op = "decode_blocks"
      /\ ret'.op = "decode_blocks" \/ ret' = ret
  BY BlockStepDoes
<1>2. InFrame
  BY <1>1, CallIsInFrame
<1>3. ~FailedReset(ret)
  BY <1>2 DEF IInv, ResetOK
<1> QED
  BY <1>1, <1>3 DEF FailedReset

-----------------------------------------------------------------------------
(* What follows from the invariant.                                        *)

\* The size of a frame of data.
LEMMA SizeOfFrame ==
    ASSUME NEW f \in Frames, f.kind = "zstd"
    PROVE  FrameSize(f) = f.header + BlocksSize(f, Len(f.blocks)) + ChecksumSize(f)
<1>1. f.header \in Nat /\ f.skipped = 0 /\ Len(f.blocks) \in Nat
  BY FrameParts
<1>2. BlocksSize(f, Len(f.blocks)) \in Nat
  BY <1>1, BlocksAreLaid DEF Laid
<1>3. ChecksumSize(f) \in Nat
  BY DEF ChecksumSize, Checksum
<1> QED
  BY <1>1, <1>2, <1>3 DEF FrameSize

\* What a state in place is.
LEMMA StateInPlace ==
    ASSUME IInv, state # None
    PROVE  /\ state \in States /\ state.header \in Frames /\ state.header.kind = "zstd"
           /\ state.header.window \in Nat /\ state.buffered \in Nat
           /\ CanCollect \in 0..state.buffered /\ Readable \in 0..state.buffered
           /\ Counted(state, collected) /\ collected \in Nat
<1>1. Counted(state, collected) /\ collected \in Nat
  BY DEF IInv, DecoderOK
<1>2. state \in States /\ state.header \in Frames /\ state.header.kind = "zstd"
  BY <1>1 DEF Counted
<1> QED
  BY <1>1, <1>2, StateParts, FrameParts, DrainsWhatIsThere

\* No counter leaves its frame, no position its source.
LEMMA CountersStayInside == IInv => TypeOK
<1> SUFFICES ASSUME IInv PROVE TypeOK
  OBVIOUS
<1>1. /\ source.pos \in 0..source.end /\ source.cur \in 0..Len(source.frames)
      /\ source.usable \in BOOLEAN /\ source.id \in 1..MaxSources
      /\ dicts \subseteq Dicts /\ collected \in Nat
  BY DEF IInv, SourceOK, SourceForms, DecoderOK
<1> SUFFICES ASSUME state # None
             PROVE  /\ state.block_counter \in 0..Len(state.header.blocks)
                    /\ state.bytes_read_counter \in 0..FrameSize(state.header)
  BY <1>1, StateParts DEF TypeOK, IInv, DecoderOK, Counted
<1> DEFINE f == state.header
           k == state.block_counter
           n == Len(f.blocks)
<1>2. Counted(state, collected)
  BY DEF IInv, DecoderOK
<1>3. f \in Frames /\ f.kind = "zstd" /\ state \in States
  BY <1>2 DEF Counted
<1>4. k \in Nat /\ n \in Nat /\ f.header \in Nat /\ state.bytes_read_counter \in Nat
      /\ state.check_sum \in BOOLEAN
  BY <1>3, StateParts, FrameParts
<1>5. FrameSize(f) = f.header + BlocksSize(f, n) + ChecksumSize(f)
  BY <1>3, SizeOfFrame
<1>6. Laid(f, n)
  BY <1>3, BlocksAreLaid
<1>7. ChecksumSize(f) \in Nat
  BY DEF ChecksumSize, Checksum
<1>8. CASE state.frame_finished
  <2>1. k = n /\ (state.check_sum => f.checksum)
        /\ state.bytes_read_counter = f.header + BlocksSize(f, k)
                                        + (IF state.check_sum THEN Checksum ELSE 0)
    BY <1>2, <1>8 DEF Counted, Finished
  <2>2. (IF state.check_sum THEN Checksum ELSE 0) \in 0..ChecksumSize(f)
    BY <2>1 DEF ChecksumSize, Checksum
  <2>3. BlocksSize(f, n) \in Nat
    BY <1>4, <1>6 DEF Laid
  <2> HIDE DEF f, k, n
  <2> QED
    BY <1>4, <1>5, <1>7, <2>1, <2>2, <2>3 DEF f, k, n
<1>9. CASE ~state.frame_finished
  <2>1. k < n /\ state.bytes_read_counter - f.header - BlocksSize(f, k) \in {0, BlockHeader}
    BY <1>2, <1>9 DEF Counted, Unfinished
  <2>2. /\ k \in 0..n /\ k + 1 \in 1..n /\ (k + 1) - 1 = k /\ n \in 0..n /\ k + 1 \in 0..n
    BY <1>4, <2>1
  <2>3. /\ BlocksSize(f, k) \in Nat /\ BlocksSize(f, n) \in Nat /\ BlocksSize(f, k + 1) \in Nat
        /\ BlocksSize(f, k + 1) = BlocksSize(f, k) + BlockSize(f.blocks[k + 1])
        /\ k + 1 < n => BlocksSize(f, k + 1) < BlocksSize(f, n)
    BY <1>6, <2>2 DEF Laid
  <2>4. BlockSize(f.blocks[k + 1]) \in Nat /\ BlockSize(f.blocks[k + 1]) >= BlockHeader
    BY <1>3, <2>2, FrameParts, BlockParts
  <2>5. BlocksSize(f, k) + BlockHeader <= BlocksSize(f, n)
    <3>1. BlockHeader \in Nat
      BY DEF BlockHeader
    <3>2. BlocksSize(f, k) + BlockHeader <= BlocksSize(f, k + 1)
      BY <2>3, <2>4, <3>1
    <3>3. BlocksSize(f, k + 1) <= BlocksSize(f, n)
      <4>1. CASE k + 1 = n
        BY <2>3, <4>1
      <4>2. CASE k + 1 < n
        BY <2>3, <4>2
      <4> QED
        BY <1>4, <2>1, <4>1, <4>2
    <3> QED
      BY <2>3, <3>1, <3>2, <3>3
  <2> HIDE DEF f, k, n
  <2>6. state.bytes_read_counter <= FrameSize(f)
    BY <1>4, <1>5, <1>7, <2>1, <2>3, <2>5 DEF BlockHeader
  <2> QED
    BY <1>4, <1>5, <1>7, <2>2, <2>3, <2>6 DEF f, k, n
<1> QED
  BY <1>3, <1>8, <1>9, StateParts

\* No more is decoded of a frame than it holds.
LEMMA ContentIsBound ==
    ASSUME NEW s, NEW c, Counted(s, c)
    PROVE  c + s.buffered <= ContentSize(s.header) /\ ContentSize(s.header) \in Nat
<1> DEFINE f == s.header
           n == Len(f.blocks)
           k == s.block_counter
<1>1. f \in Frames /\ s \in States /\ k \in Nat /\ n \in Nat /\ s.frame_finished \in BOOLEAN
  BY StateParts, FrameParts DEF Counted
<1>2. Held(f, n) /\ ContentSize(f) = Content(f, n)
  BY <1>1, ContentIsHeld
<1>3. ContentSize(f) \in Nat
  BY <1>1, <1>2 DEF Held
<1>4. CASE s.frame_finished
  BY <1>3, <1>4 DEF Counted, Finished
<1>5. CASE ~s.frame_finished
  <2>1. k < n /\ c + s.buffered \in Content(f, k)..Content(f, k + 1)
    BY <1>5 DEF Counted, Unfinished
  <2>2. k + 1 \in 0..n /\ n \in 0..n /\ k + 1 <= n /\ k \in 0..n
    BY <1>1, <2>1
  <2>3. Content(f, k + 1) <= Content(f, n) /\ Content(f, k + 1) \in Nat /\ Content(f, k) \in Nat
    BY <1>2, <2>2 DEF Held
  <2> HIDE DEF f, n, k
  <2>4. c + s.buffered <= ContentSize(f)
    BY <1>2, <1>3, <2>1, <2>3
  <2> QED
    BY <1>3, <2>4 DEF f
<1> QED
  BY <1>1, <1>4, <1>5

\* When a frame is finished all of it was read and decoded.
LEMMA FinishedIsWhole ==
    ASSUME IInv, state # None, IsFinished
    PROVE  /\ collected + CanCollect = ContentSize(state.header)
           /\ state.bytes_read_counter = FrameSize(state.header)
           /\ state.block_counter = Len(state.header.blocks)
           /\ CanCollect = state.buffered /\ state.frame_finished
<1>1. state.frame_finished /\ (state.header.checksum => state.check_sum)
  BY DEF IsFinished
<1>2. /\ Finished(state, collected) /\ state.header \in Frames /\ state.header.kind = "zstd"
      /\ state \in States
  BY <1>1 DEF IInv, DecoderOK, Counted
<1>3. CanCollect = state.buffered
  BY DEF CanCollect
<1>4. (IF state.check_sum THEN Checksum ELSE 0) = ChecksumSize(state.header)
  BY <1>1, <1>2, StateParts, FrameParts DEF Finished, ChecksumSize
<1>5. FrameSize(state.header) = state.header.header
          + BlocksSize(state.header, Len(state.header.blocks)) + ChecksumSize(state.header)
  BY <1>2, SizeOfFrame
<1> QED
  BY <1>1, <1>2, <1>3, <1>4, <1>5 DEF Finished

\* What was given and what is held is the content of the blocks counted, and part
\* of the next one if that one was damaged.
LEMMA OutputIsOfFrame == IInv => OutputBelongsToFrame
<1> DEFINE f == state.header
           k == state.block_counter
           n == Len(f.blocks)
<1> SUFFICES ASSUME IInv, state # None
             PROVE  collected + state.buffered \in Content(f, k)..Content(f, Smaller(k + 1, n))
  BY DEF OutputBelongsToFrame, Content
<1>1. Counted(state, collected)
  BY DEF IInv, DecoderOK
<1>2. f \in Frames /\ k \in Nat /\ n \in Nat
  BY <1>1, StateParts, FrameParts DEF Counted
<1>3. CASE state.frame_finished
  <2>1. k = n /\ collected + state.buffered = Content(f, n)
    BY <1>1, <1>2, <1>3, ContentIsHeld DEF Counted, Finished
  <2>2. Content(f, n) \in Nat
    BY <1>2, ContentIsHeld DEF Held
  <2>3. Smaller(k + 1, n) = n
    BY <1>2, <2>1 DEF Smaller
  <2> QED
    BY <2>1, <2>2, <2>3
<1>4. CASE ~state.frame_finished
  <2>1. k < n /\ collected + state.buffered \in Content(f, k)..Content(f, k + 1)
    BY <1>1, <1>4 DEF Counted, Unfinished
  <2>2. Smaller(k + 1, n) = k + 1
    BY <1>2, <2>1 DEF Smaller
  <2> QED
    BY <2>1, <2>2
<1>5. state.frame_finished \in BOOLEAN
  BY <1>1, StateParts DEF Counted
<1> QED
  BY <1>3, <1>4, <1>5

\* Only a reset answers as one, and what follows a failed reset leaves its answer
\* or the state.
LEMMA NextLeavesResets ==
    ASSUME IInv, Next, FailedReset(ret')
    PROVE  Reset \/ (state' = state /\ collected' = collected)
<1>1. ret'.op = "reset" /\ (ret' = ret => FailedReset(ret))
  BY DEF FailedReset
<1>2. ASSUME BlockStep PROVE FALSE
  BY <1>2, RoundIsNoReset
<1>3. CASE SkipFrame \/ Sources \/ \E d \in Dicts : AddDict(d) \/ ForceDict(d)
  BY <1>1, <1>3 DEF SkipFrame, Sources, Open, AddDict, ForceDict, Ok
<1>4. CASE Collect \/ CollectToWriter \/ \E n \in ReadSizes : Read(n)
  BY <1>1, <1>4 DEF Collect, CollectToWriter, Read, Ok
<1>5. CASE NotYetInitialized \/ \E strat \in Strategies : call = Idle /\ DecodeBlocks(strat, Idle)
  BY <1>5 DEF DecodeBlocks, NotYetInitialized
<1> QED
  BY <1>2, <1>3, <1>4, <1>5 DEF Next

\* A reset that cannot read a header leaves what can be collected.
LEMMA ResetLeavesBytes ==
    ASSUME FailedReset(ret'), Reset \/ (state' = state /\ collected' = collected)
    PROVE  CanCollect' = CanCollect /\ collected' = collected
<1>1. state' = state /\ collected' = collected
  BY DEF Reset, ResetTo, FailedReset
<1> QED
  BY <1>1 DEF CanCollect, IsFinished, CanDrainToWindowSize

-----------------------------------------------------------------------------
(* The interfaces: the invariant.                                          *)

\* Who waits: the call in progress, or the caller of decode_blocks.
Who == IF call.op = "decode_blocks" THEN call.caller ELSE call

\* Each interface has calls of its own, and their answers come when they return.
RolesOK ==
    /\ vec_len \in 0..Capacity
    /\ interface \in {"direct", "read", "from_to", "all"}
    /\ Who.op \in {"idle"} \cup CASE interface = "direct"  -> {}
                                  [] interface = "read"    -> {"stream"}
                                  [] interface = "from_to" -> {"from_to"}
                                  [] interface = "all"     -> {"all"}
    /\ ret.op = "stream" => call = Idle /\ interface = "read"
    /\ ret.op = "all" => call = Idle /\ interface = "all"

\* While decode_blocks runs for a read, less is held than the window and the slice.
StreamOK ==
    interface = "read" =>
        /\ call.op = "decode_blocks" =>
              /\ call.caller.op = "stream" /\ call.strat.kind = "UptoBytes"
              /\ call.strat.n \in Nat /\ call.len_before \in Nat
              /\ state.buffered < call.len_before + call.strat.n
              /\ call.len_before + call.strat.n <= state.header.window + call.caller.n
        /\ MemoryIsBounded

\* A decoder used slice by slice has no state before its first frame.
SlicesOK ==
    interface = "from_to" /\ state = None =>
        ret.op # "reset" /\ (source.usable => ret.result # "SkipFrame")

\* What the first k frames hold.
Passed(k) == All!Content(source.frames, k)

\* What decode_all has put out is the content of what it has gone through, and
\* nobody but decode_all calls its output too small.
Consistent(c) ==
    /\ c.output = c.room + c.total /\ c.len <= Capacity /\ (c.vec => c.len + c.output <= Capacity)
    /\ ret.result # "TargetTooSmall" /\ (All!Intact(source) => ret.result = "ok")
    /\ c.at = "init" =>
          /\ c.total = Passed(source.cur)
          /\ source.pos = FrameStart(source.frames, source.cur + 1)
    /\ c.at = "skip" =>
          /\ c.total = Passed(source.cur)
          /\ source.frames[source.cur].kind = "skippable"
          /\ source.pos = FrameStart(source.frames, source.cur) + source.frames[source.cur].header
    /\ c.at \in {"decode", "drain"} =>
          /\ source.cur >= 1
          /\ state # None /\ state.header = source.frames[source.cur]
          /\ c.total = Passed(source.cur - 1) + collected
          /\ c.at = "decode" \/ ret.result = "ok" => InFrame
          /\ c.at = "decode" => ~state.frame_finished

\* An input nothing was read of is at its first frame.
AllOK ==
    interface = "all" =>
        /\ source.pos = 0 /\ source.usable => source.cur = 0
        /\ Who.op = "all" => Consistent(Who)

\* Who reads on from the same source never finds the last block decoded and the
\* checksum missing; only between slices that happens.
EndOK == interface # "from_to" /\ InFrame /\ state.frame_finished => IsFinished

\* The decoder's invariant says where it is in its source, whoever uses it; the
\* other parts say of each interface what its calls rely on.
InterfaceInv == IInv /\ RolesOK /\ StreamOK /\ SlicesOK /\ AllOK /\ EndOK

\* Streams use the operators of the decoder.
LEMMA StreamOwn ==
    /\ \A m, n : Stream!Smaller(m, n) = Smaller(m, n)
    /\ \A op, x : Stream!Ok(op, x) = Ok(op, x)
    /\ \A op, x : Stream!Err(op, x) = Err(op, x)
    /\ Stream!Idle = Idle
    /\ \A f : Stream!ContentSize(f) = ContentSize(f)
    /\ Stream!IsFinished <=> IsFinished
    /\ Stream!CanCollect = CanCollect
    /\ Stream!Readable = Readable
    /\ \A n : Stream!Take(n) <=> Take(n)
    /\ Stream!Reset <=> Reset
    /\ \A strat, c : Stream!DecodeBlocks(strat, c) <=> DecodeBlocks(strat, c)
    /\ Stream!BlockStep <=> BlockStep
  BY Zenon DEF
      Smaller, Ok, Err, Idle, Has, Spent, Unusable, Advanced, Total, BlockHeader, Checksum,
      BlockSize, BlocksSize, ChecksumSize, FrameSize, FrameStart, ContentSize, FramePos,
      InFrame, BlockStart, BlockAt, IsLastAt, BlockHere, IsFinished, CanDrainToWindowSize,
      CanCollect, Readable, Take, NextFrame, AtFrame, Fresh, ResetResult, ResetTo, Reset,
      DecodeBlocks, Return, BlockHeaderFails, HeaderRead, BlockBodyFails, BodyRead,
      WithBlock, StrategyReached, DecodeBlock, DecodeLastBlock, BlockStep, Stream!Smaller,
      Stream!Ok, Stream!Err, Stream!Idle, Stream!Has, Stream!Spent, Stream!Unusable,
      Stream!Advanced, Stream!Total, Stream!BlockHeader, Stream!Checksum, Stream!BlockSize,
      Stream!BlocksSize, Stream!ChecksumSize, Stream!FrameSize, Stream!FrameStart,
      Stream!ContentSize, Stream!FramePos, Stream!InFrame, Stream!BlockStart,
      Stream!BlockAt, Stream!IsLastAt, Stream!BlockHere, Stream!IsFinished,
      Stream!CanDrainToWindowSize, Stream!CanCollect, Stream!Readable, Stream!Take,
      Stream!NextFrame, Stream!AtFrame, Stream!Fresh, Stream!ResetResult, Stream!ResetTo,
      Stream!Reset, Stream!DecodeBlocks, Stream!Return, Stream!BlockHeaderFails,
      Stream!HeaderRead, Stream!BlockBodyFails, Stream!BodyRead, Stream!WithBlock,
      Stream!StrategyReached, Stream!DecodeBlock, Stream!DecodeLastBlock, Stream!BlockStep

\* So do calls with slices.
LEMMA FromToOwn ==
    /\ \A m, n : FromTo!Smaller(m, n) = Smaller(m, n)
    /\ \A op, x : FromTo!Ok(op, x) = Ok(op, x)
    /\ \A op, x : FromTo!Err(op, x) = Err(op, x)
    /\ FromTo!Idle = Idle
    /\ \A s, n : FromTo!Has(s, n) <=> Has(s, n)
    /\ \A s, n : FromTo!Advanced(s, n) = Advanced(s, n)
    /\ FromTo!BlockHeader = BlockHeader
    /\ FromTo!Checksum = Checksum
    /\ \A b : FromTo!BlockSize(b) = BlockSize(b)
    /\ \A frames, i : FromTo!FrameStart(frames, i) = FrameStart(frames, i)
    /\ FromTo!InFrame <=> InFrame
    /\ \A at : FromTo!BlockAt(at) = BlockAt(at)
    /\ \A at : FromTo!IsLastAt(at) <=> IsLastAt(at)
    /\ FromTo!IsFinished <=> IsFinished
    /\ FromTo!CanCollect = CanCollect
    /\ FromTo!Readable = Readable
    /\ FromTo!NextFrame = NextFrame
    /\ FromTo!AtFrame <=> AtFrame
    /\ \A f, d : FromTo!Fresh(f, d) = Fresh(f, d)
    /\ \A b : FromTo!WithBlock(b) = WithBlock(b)
    /\ FromTo!Reset <=> Reset
    /\ FromTo!Init <=> Init
  BY Zenon DEF
      Smaller, Ok, Err, Idle, Has, Spent, Unusable, Advanced, Total, BlockHeader, Checksum,
      BlockSize, BlocksSize, ChecksumSize, FrameSize, FrameStart, ContentSize, FramePos,
      InFrame, BlockStart, BlockAt, IsLastAt, BlockHere, IsFinished, CanDrainToWindowSize,
      CanCollect, Readable, Take, NextFrame, AtFrame, Fresh, ResetResult, ResetTo, Reset,
      DecodeBlocks, Return, BlockHeaderFails, HeaderRead, BlockBodyFails, BodyRead,
      WithBlock, StrategyReached, DecodeBlock, DecodeLastBlock, BlockStep, Opened, Open,
      Sources, Init, FromTo!Smaller, FromTo!Ok, FromTo!Err, FromTo!Idle, FromTo!Has,
      FromTo!Spent, FromTo!Unusable, FromTo!Advanced, FromTo!Total, FromTo!BlockHeader,
      FromTo!Checksum, FromTo!BlockSize, FromTo!BlocksSize, FromTo!ChecksumSize,
      FromTo!FrameSize, FromTo!FrameStart, FromTo!ContentSize, FromTo!FramePos,
      FromTo!InFrame, FromTo!BlockStart, FromTo!BlockAt, FromTo!IsLastAt, FromTo!BlockHere,
      FromTo!IsFinished, FromTo!CanDrainToWindowSize, FromTo!CanCollect, FromTo!Readable,
      FromTo!Take, FromTo!NextFrame, FromTo!AtFrame, FromTo!Fresh, FromTo!ResetResult,
      FromTo!ResetTo, FromTo!Reset, FromTo!DecodeBlocks, FromTo!Return,
      FromTo!BlockHeaderFails, FromTo!HeaderRead, FromTo!BlockBodyFails, FromTo!BodyRead,
      FromTo!WithBlock, FromTo!StrategyReached, FromTo!DecodeBlock, FromTo!DecodeLastBlock,
      FromTo!BlockStep, FromTo!Opened, FromTo!Open, FromTo!Sources, FromTo!Init

\* And calls with whole inputs.
LEMMA AllOwn ==
    /\ \A m, n : All!Smaller(m, n) = Smaller(m, n)
    /\ \A op, x : All!Ok(op, x) = Ok(op, x)
    /\ All!Idle = Idle
    /\ \A s, n : All!Has(s, n) <=> Has(s, n)
    /\ \A s, n : All!Advanced(s, n) = Advanced(s, n)
    /\ \A s : All!Spent(s) = Spent(s)
    /\ \A sizes : All!Total(sizes) = Total(sizes)
    /\ \A frames, i : All!FrameStart(frames, i) = FrameStart(frames, i)
    /\ \A f : All!ContentSize(f) = ContentSize(f)
    /\ All!IsFinished <=> IsFinished
    /\ All!Readable = Readable
    /\ \A n : All!Take(n) <=> Take(n)
    /\ All!NextFrame = NextFrame
    /\ All!AtFrame <=> AtFrame
    /\ \A f : All!ResetResult(f) = ResetResult(f)
    /\ \A f, r : All!ResetTo(f, r) <=> ResetTo(f, r)
    /\ \A strat, c : All!DecodeBlocks(strat, c) <=> DecodeBlocks(strat, c)
    /\ All!BlockStep <=> BlockStep
    /\ All!Sources <=> Sources
  BY Zenon DEF
      Smaller, Ok, Err, Idle, Has, Spent, Unusable, Advanced, Total, BlockHeader, Checksum,
      BlockSize, BlocksSize, ChecksumSize, FrameSize, FrameStart, ContentSize, FramePos,
      InFrame, BlockStart, BlockAt, IsLastAt, BlockHere, IsFinished, CanDrainToWindowSize,
      CanCollect, Readable, Take, NextFrame, AtFrame, Fresh, ResetResult, ResetTo, Reset,
      DecodeBlocks, Return, BlockHeaderFails, HeaderRead, BlockBodyFails, BodyRead,
      WithBlock, StrategyReached, DecodeBlock, DecodeLastBlock, BlockStep, Opened, Open,
      Sources, All!Smaller, All!Ok, All!Err, All!Idle, All!Has, All!Spent, All!Unusable,
      All!Advanced, All!Total, All!BlockHeader, All!Checksum, All!BlockSize, All!BlocksSize,
      All!ChecksumSize, All!FrameSize, All!FrameStart, All!ContentSize, All!FramePos,
      All!InFrame, All!BlockStart, All!BlockAt, All!IsLastAt, All!BlockHere, All!IsFinished,
      All!CanDrainToWindowSize, All!CanCollect, All!Readable, All!Take, All!NextFrame,
      All!AtFrame, All!Fresh, All!ResetResult, All!ResetTo, All!Reset, All!DecodeBlocks,
      All!Return, All!BlockHeaderFails, All!HeaderRead, All!BlockBodyFails, All!BodyRead,
      All!WithBlock, All!StrategyReached, All!DecodeBlock, All!DecodeLastBlock,
      All!BlockStep, All!Opened, All!Open, All!Sources

-----------------------------------------------------------------------------
(* The interfaces: what all of them use.                                   *)

\* The largest slice.
LEMMA MaxReadIsLargest ==
    /\ Stream!MaxRead \in Nat /\ Stream!MaxRead > 0
    /\ \A n \in ReadSizes : n \in Nat /\ n <= Stream!MaxRead
<1>1. PICK m \in ReadSizes : m > 0 /\ \A n \in ReadSizes : n <= m
  BY SlicesAssumption
<1> DEFINE x == CHOOSE n \in ReadSizes : \A l \in ReadSizes : l <= n
<1>2. x \in ReadSizes /\ \A l \in ReadSizes : l <= x
  BY <1>1
<1>3. Stream!MaxRead = x
  BY DEF Stream!MaxRead
<1> HIDE DEF x
<1> QED
  BY <1>1, <1>2, <1>3, ReadSizesAssumption

\* The largest block of a frame.
LEMMA LargestIsThere ==
    ASSUME NEW f \in Frames, f.kind = "zstd"
    PROVE  /\ Stream!Largest(f) \in Nat
           /\ \A k \in 1..Len(f.blocks) : f.blocks[k].size <= Stream!Largest(f)
<1> DEFINE n == Len(f.blocks)
           size(k) == f.blocks[k].size
           all == Content(f, n)
<1>1. n \in Nat /\ 0 < n /\ \A k \in 1..n : size(k) \in Nat
  BY FrameParts, BlockParts
<1>2. Held(f, n)
  BY ContentIsHeld
<1>3. all \in Nat /\ \A k \in 1..n : size(k) <= all
  <2>1. n \in 0..n /\ all \in Nat
    BY <1>1, <1>2 DEF Held
  <2>2. ASSUME NEW k \in 1..n PROVE size(k) <= all
    <3>1. k - 1 \in 0..n /\ k \in 0..n /\ k <= n
      BY <1>1
    <3>2. Content(f, k - 1) \in Nat /\ Content(f, k) \in Nat
      BY <1>2, <3>1 DEF Held
    <3>3. Content(f, k) = Content(f, k - 1) + size(k)
      BY <1>2 DEF Held
    <3>4. Content(f, k) <= all
      BY <1>2, <2>1, <3>1 DEF Held
    <3>5. size(k) \in Nat
      BY <1>1
    <3> HIDE DEF all, size
    <3> QED
      BY <2>1, <3>2, <3>3, <3>4, <3>5
  <2> QED
    BY <2>1, <2>2
<1> DEFINE sizes == {size(k) : k \in 1..n}
<1> HIDE DEF n, size, all
<1>4. \E m \in sizes : \A k \in 1..n : size(k) <= m
  <2> DEFINE T == {all - x : x \in sizes}
  <2>1. \A x \in sizes : x \in Nat /\ x <= all
    BY <1>1, <1>3
  <2>2. T \in SUBSET Nat
    BY <1>3, <2>1
  <2>3. 1 \in 1..n
    BY <1>1
  <2>4. T # {}
    BY <2>3
  <2>5. PICK t \in T : \A y \in T : t <= y
    BY <2>2, <2>4, LeastNumber
  <2>6. PICK m \in sizes : t = all - m
    BY <2>5
  <2>7. ASSUME NEW k \in 1..n PROVE size(k) <= m
    <3>1. size(k) \in sizes
      OBVIOUS
    <3>2. all - m <= all - size(k)
      BY <2>5, <2>6, <3>1
    <3> QED
      BY <1>3, <2>1, <2>6, <3>1, <3>2
  <2> QED
    BY <2>7
<1>5. Stream!Largest(f) = CHOOSE m \in sizes : \A k \in 1..n : size(k) <= m
  BY Zenon DEF Stream!Largest, sizes, n, size
<1>6. Stream!Largest(f) \in sizes /\ \A k \in 1..n : size(k) <= Stream!Largest(f)
  BY <1>4, <1>5, Zenon
<1>7. \A x \in sizes : x \in Nat
  BY <1>1
<1> QED
  BY <1>6, <1>7 DEF n, size

-----------------------------------------------------------------------------
(* io::Read.                                                               *)

\* What a decoder behind io::Read may hold of a frame.
Limit(f) == f.window + Stream!MaxRead + Stream!Largest(f)

\* The limit leaves room for a slice, and for a block more.
LEMMA LimitIsLarge ==
    ASSUME NEW f \in Frames, f.kind = "zstd"
    PROVE  /\ Limit(f) \in Nat /\ 0 < Limit(f)
           /\ \A n \in ReadSizes, k \in 1..Len(f.blocks), x, before \in Nat :
                 before < f.window + n /\ x <= before + f.blocks[k].size => x < Limit(f)
<1> DEFINE l == Stream!Largest(f)
           m == Stream!MaxRead
<1>1. /\ m \in Nat /\ 0 < m /\ \A n \in ReadSizes : n \in Nat /\ n <= m
      /\ f.window \in Nat /\ \A k \in 1..Len(f.blocks) : f.blocks[k].size \in Nat
  BY MaxReadIsLargest, FrameParts, BlockParts
<1>2. /\ l \in Nat /\ \A k \in 1..Len(f.blocks) : f.blocks[k].size <= l
  BY LargestIsThere
<1>3. Limit(f) = f.window + m + l
  BY DEF Limit
<1> HIDE DEF l, m
<1>4. Limit(f) \in Nat /\ 0 < Limit(f)
  BY <1>1, <1>2, <1>3
<1>5. ASSUME NEW n \in ReadSizes, NEW k \in 1..Len(f.blocks), NEW x \in Nat, NEW before \in Nat,
             before < f.window + n, x <= before + f.blocks[k].size
      PROVE  x < Limit(f)
  <2> DEFINE size == f.blocks[k].size
  <2>1. size \in Nat /\ size <= l /\ n \in Nat /\ n <= m
    BY <1>1, <1>2
  <2>2. x <= before + size
    BY <1>5
  <2> HIDE DEF size
  <2> QED
    BY <1>1, <1>2, <1>3, <1>5, <2>1, <2>2
<1> QED
  BY <1>4, <1>5

\* The block at hand is one of the frame.
LEMMA BlockOfFrame ==
    ASSUME IInv, call.op = "decode_blocks", ~state.frame_finished
    PROVE  \E k \in 1..Len(state.header.blocks) : BlockHere = state.header.blocks[k]
<1>1. InFrame /\ BlockHere = BlockAt(state.bytes_read_counter)
  BY CallIsAtBlock
<1> DEFINE k == state.block_counter + 1
<1>2. AtBlock(state.header, k, BlockHere)
  BY <1>1, IsAtBlock, Zenon
<1> QED
  BY <1>2 DEF AtBlock

\* An answer of a frame's end is kept while its state is.
LEMMA StateKeepsEnd ==
    ASSUME IInv, EndOK, interface' = interface, InFrame' => InFrame,
           \/ state' = state
           \/ \E m : Drained(m)
           \/ \E d : state' = [state EXCEPT !.using_dict = d]
    PROVE  EndOK'
<1> SUFFICES ASSUME interface # "from_to", InFrame', state'.frame_finished PROVE IsFinished'
  BY DEF EndOK
<1>1. state # None /\ state \in States
  BY SourceOfFrame
<1>2. /\ state' # None /\ state'.header = state.header
      /\ state'.frame_finished = state.frame_finished /\ state'.check_sum = state.check_sum
  BY <1>1 DEF Drained, States, InFrame
<1>3. IsFinished
  BY <1>2 DEF EndOK
<1> QED
  BY <1>1, <1>2, <1>3 DEF IsFinished

\* A round of decode_blocks that ends the frame has its checksum, or has spent
\* the source.
LEMMA RoundKeepsEnd ==
    ASSUME IInv, BlockStep
    PROVE  EndOK'
<1>1. /\ Kept(state, state', collected)
      /\ InFrame' /\ state'.frame_finished => (state.header.checksum => state'.check_sum)
  BY BlockStepDoes
<1> QED
  BY <1>1 DEF EndOK, IsFinished, Kept

\* So has a frame that begins.
LEMMA RenewedKeepsEnd ==
    ASSUME NEW f, NEW result, Renewed(f, result)
    PROVE  EndOK'
  BY DEF EndOK, Renewed

\* Another source is not in the frame.
LEMMA SourcesLeaveFrame ==
    ASSUME IInv, Sources
    PROVE  ~InFrame'
<1>1. state' = state /\ source'.id = source.id + 1 /\ source.id \in Nat
  BY DEF Sources, Open, Opened, IInv, SourceOK, SourceForms
<1>2. state # None => state.of[1] <= source.id /\ state.of[1] \in Nat
  BY DEF IInv, OpenedBefore, DecoderOK, Counted, States
<1> QED
  BY <1>1, <1>2 DEF InFrame

\* A round of the loop for a read: before it less was held than the window and
\* the slice, so that one block more is within the limit.
LEMMA RoundIsBounded ==
    ASSUME InterfaceInv, interface = "read", BlockStep,
           UNCHANGED <<offered, vec_len, interface>>
    PROVE  InterfaceInv'
<1>1. IInv /\ RolesOK /\ StreamOK
  BY DEF InterfaceInv
<1>2. /\ IInv' /\ Kept(state, state', collected) /\ collected' = collected
      /\ call.op = "decode_blocks" /\ call.caller \in Callers
      /\ state \in States /\ state'.buffered \in Nat
      /\ ~state.frame_finished =>
            BlockHere.size \in Nat /\ state'.buffered <= state.buffered + BlockHere.size
      /\ \/ call' = call.caller /\ ret'.op = "decode_blocks"
         \/ call' = call /\ ret' = ret /\ InFrame' /\ ~StrategyReached(state')
  BY <1>1, BlockStepDoes
<1>3. /\ call.caller.op = "stream" /\ call.strat.kind = "UptoBytes"
      /\ call.strat.n \in Nat /\ call.len_before \in Nat
      /\ state.buffered < call.len_before + call.strat.n
      /\ call.len_before + call.strat.n <= state.header.window + call.caller.n
  BY <1>1, <1>2 DEF StreamOK
<1>4. state # None /\ state' # None /\ state'.header = state.header /\ ~state.frame_finished
  BY <1>1, <1>2, <1>3, CallIsInFrame DEF Kept, InFrame, Idle
<1> DEFINE f == state.header
           size == BlockHere.size
           n == call.caller.n
           limit == call.len_before + call.strat.n
<1>5. f \in Frames /\ f.kind = "zstd" /\ f.window \in Nat /\ state.buffered \in Nat
  BY <1>1, <1>4, StateInPlace
<1>6. PICK k \in 1..Len(f.blocks) : BlockHere = f.blocks[k]
  BY <1>1, <1>2, <1>4, BlockOfFrame
<1>7. n \in ReadSizes /\ n \in Nat
  BY <1>2, <1>3, ReadSizesAssumption DEF Callers, StreamCalls, AllCalls, Idle
<1>8. state'.buffered < Limit(f)
  <2>1. state.buffered < limit /\ limit <= f.window + n /\ limit \in Nat
    BY <1>3
  <2> HIDE DEF limit, f, n
  <2>2. state.buffered < f.window + n
    BY <1>5, <1>7, <2>1
  <2>3. state'.buffered <= state.buffered + f.blocks[k].size
    BY <1>2, <1>4, <1>6 DEF f
  <2> QED
    BY <1>2, <1>5, <1>7, <2>2, <2>3, LimitIsLarge
<1>9. MemoryIsBounded'
  BY <1>4, <1>8 DEF MemoryIsBounded, Stream!MemoryIsBounded, Limit
<1>10. call'.op = "decode_blocks" => state'.buffered < limit /\ call' = call
  <2>1. CASE call' = call.caller
    BY <1>3, <2>1
  <2>2. CASE call' = call /\ ~StrategyReached(state')
    <3>1. ~(state'.buffered - call.len_before >= call.strat.n)
      BY <1>3, <2>2 DEF StrategyReached
    <3> QED
      BY <1>2, <1>3, <2>2, <3>1
  <2> QED
    BY <1>2, <2>1, <2>2
<1>11. StreamOK'
  BY <1>3, <1>4, <1>9, <1>10 DEF StreamOK
<1>12. RolesOK'
  BY <1>1, <1>2, <1>3 DEF RolesOK, Who
<1>13. EndOK'
  BY <1>1, RoundKeepsEnd
<1> QED
  BY <1>2, <1>11, <1>12, <1>13 DEF InterfaceInv, SlicesOK, AllOK

\* The calls of a reader, and what follows decode_blocks.
LEMMA ReadKeepsInv ==
    ASSUME InterfaceInv, interface = "read", Stream!StreamNext,
           UNCHANGED <<offered, vec_len, interface>>
    PROVE  InterfaceInv'
<1>1. IInv /\ RolesOK /\ StreamOK /\ MemoryIsBounded /\ EndOK
  BY DEF InterfaceInv, StreamOK
<1>2. \/ Stream!New \/ \E n \in ReadSizes : Stream!StreamRead(n)
      \/ Stream!DecodeMore \/ Stream!BlockStep \/ Stream!StreamFails \/ Stream!StreamReturns
  BY DEF Stream!StreamNext, Stream!Library, Stream!Reader
<1>3. SUFFICES ASSUME ~BlockStep
               PROVE  /\ IInv' /\ Who'.op \in {"idle", "stream"} /\ StreamOK' /\ EndOK'
                      /\ ret'.op = "stream" => call' = Idle
                      /\ ret'.op # "all"
  <2>1. CASE BlockStep
    BY <2>1, RoundIsBounded
  <2>2. CASE ~BlockStep
    <3>1. /\ IInv' /\ Who'.op \in {"idle", "stream"} /\ StreamOK' /\ EndOK'
          /\ ret'.op = "stream" => call' = Idle
          /\ ret'.op # "all"
      BY <1>3, <2>2
    <3> QED
      BY <1>1, <3>1 DEF InterfaceInv, RolesOK, SlicesOK, AllOK
  <2> QED
    BY <2>1, <2>2
<1>4. Idle.op = "idle" /\ Stream!Idle = Idle
  BY StreamOwn, Zenon DEF Idle
<1>5. \A r : r.op # "reset" /\ r.result # "SkipFrame" => (ret' = r => ResetOK')
  BY DEF ResetOK, FailedReset
<1>6. ASSUME MemoryIsBounded', call'.op # "decode_blocks" PROVE StreamOK'
  BY <1>6 DEF StreamOK
<1>7. ASSUME state' = state PROVE MemoryIsBounded'
  BY <1>1, <1>7 DEF MemoryIsBounded, Stream!MemoryIsBounded
<1>8. CASE Stream!New
  <2>1. Reset
    BY <1>8, StreamOwn DEF Stream!New
  <2>2. /\ call' = Idle /\ call = Idle /\ AtFrame /\ ResetTo(NextFrame, ResetResult(NextFrame))
        /\ ret'.op = "reset"
    BY <2>1 DEF Reset
  <2>3. IInv'
    BY <1>1, <2>1, ResetKeepsIInv
  <2> DEFINE f == NextFrame
             result == ResetResult(f)
  <2>4. Renewed(f, result)
    BY <1>1, <1>4, <2>2, ResetRenews
  <2> HIDE DEF f, result
  <2>5. \/ state' = state
        \/ state' # None /\ state'.buffered = 0
    BY <2>4 DEF Renewed, InFrame
  <2>6. MemoryIsBounded'
    <3>1. CASE state' = state
      BY <1>7, <3>1
    <3>2. CASE state' # None /\ state'.buffered = 0
      <4>1. state'.header \in Frames /\ state'.header.kind = "zstd"
        BY <2>3, <3>2 DEF IInv, DecoderOK, Counted
      <4>2. 0 < Limit(state'.header)
        BY <4>1, LimitIsLarge
      <4> QED
        BY <3>2, <4>2 DEF MemoryIsBounded, Stream!MemoryIsBounded, Limit
    <3> QED
      BY <2>5, <3>1, <3>2
  <2>7. EndOK'
    BY <2>4, RenewedKeepsEnd
  <2> QED
    BY <1>4, <1>6, <2>2, <2>3, <2>6, <2>7 DEF Who
<1>9. CASE \E n \in ReadSizes : Stream!StreamRead(n)
  <2>1. PICK n \in ReadSizes : Stream!StreamRead(n)
    BY <1>9
  <2>2. /\ call = Idle /\ state # None /\ UNCHANGED <<source, state, dicts, collected>>
        /\ \/ ret' = Ok("stream", 0) /\ call' = call
           \/ ret' = Ok("called", n) /\ call' = [op |-> "stream", n |-> n]
    <3>1. Stream!Ok("stream", 0) = Ok("stream", 0) /\ Stream!Ok("called", n) = Ok("called", n)
      BY StreamOwn, Zenon
    <3> QED
      BY <1>4, <2>1, <3>1 DEF Stream!StreamRead, Stream!Usable, Stream!Streaming
  <2>3. call' = Idle \/ call' \in StreamCalls
    BY <2>2 DEF StreamCalls
  <2>4. CallOK' /\ call.op # "from_to" /\ Who'.op \in {"idle", "stream"}
        /\ call'.op # "decode_blocks"
    BY <1>4, <2>2, <2>3 DEF CallOK, StreamCalls, Who
  <2>5. /\ ret'.op # "reset" /\ ret'.result # "SkipFrame" /\ ret'.op # "all"
        /\ ret'.op = "stream" => call' = Idle
    BY <2>2 DEF Ok
  <2>6. IInv'
    BY <1>1, <2>2, <2>4, <2>5, CallsKeepIInv DEF ResetOK, FailedReset
  <2>7. EndOK'
    BY <1>1, <2>2, StateKeepsEnd DEF InFrame
  <2> QED
    BY <1>6, <1>7, <2>2, <2>4, <2>5, <2>6, <2>7
<1>10. CASE Stream!DecodeMore
  <2> DEFINE strat == [kind |-> "UptoBytes", n |-> call.n - CanCollect]
  <2>1. call.op = "stream" /\ CanCollect < call.n /\ ~IsFinished /\ DecodeBlocks(strat, call)
    <3>1. Stream!CanCollect = CanCollect /\ (Stream!IsFinished <=> IsFinished)
          /\ \A s, c : Stream!DecodeBlocks(s, c) <=> DecodeBlocks(s, c)
      BY StreamOwn, Zenon
    <3> QED
      BY <1>10, <3>1 DEF Stream!DecodeMore, Stream!NeedsMore, Stream!Needed
  <2>2. call \in StreamCalls /\ state # None
    BY <1>1, <2>1 DEF IInv, CallOK, Idle, SliceCalls, AllCalls
  <2>3. /\ state.header.window \in Nat /\ state.buffered \in Nat /\ CanCollect \in 0..state.buffered
    BY <1>1, <2>2, StateInPlace
  <2>4. call.n \in Nat /\ call \in Callers
    BY <2>2, ReadSizesAssumption DEF StreamCalls, Callers
  <2>5. IInv' /\ EndOK'
    <3>1. InFrame /\ UNCHANGED <<source, state>>
      BY <2>1 DEF DecodeBlocks
    <3>2. ~state.frame_finished
      BY <1>1, <2>1, <3>1 DEF EndOK
    <3> QED
      BY <1>1, <2>1, <2>4, <3>1, <3>2, DecodeBlocksKeepsIInv, StateKeepsEnd DEF InFrame
  <2>6. /\ call'.op = "decode_blocks" /\ call'.caller = call /\ call'.len_before = state.buffered
        /\ call'.strat.kind = "UptoBytes" /\ call'.strat.n = call.n - CanCollect
        /\ UNCHANGED <<source, state, dicts, ret, collected>>
    BY <2>1 DEF DecodeBlocks
  <2>7. state.buffered - CanCollect <= state.header.window
    BY <2>1, <2>2, <2>3 DEF CanCollect, CanDrainToWindowSize
  <2>8. MemoryIsBounded'
    BY <1>7, <2>6
  <2>9. StreamOK'
    <3> DEFINE c == CanCollect
               n == call.n
               w == state.header.window
               len == state.buffered
    <3>1. c \in Nat /\ n \in Nat /\ w \in Nat /\ len \in Nat /\ c < n /\ len - c <= w
      BY <2>1, <2>3, <2>4, <2>7
    <3> HIDE DEF c, n, w, len
    <3>2. n - c \in Nat /\ len < len + (n - c) /\ len + (n - c) <= w + n
      BY <3>1
    <3>3. /\ call'.strat.n = n - c /\ call'.len_before = len /\ state'.buffered = len
          /\ state'.header.window = w /\ call'.caller.n = n
      BY <2>6 DEF c, n, w, len
    <3> QED
      BY <2>1, <2>6, <2>8, <3>1, <3>2, <3>3 DEF StreamOK
  <2>10. ret.op # "stream" /\ ret.op # "all"
    BY <1>1, <1>4, <2>1 DEF RolesOK
  <2> QED
    BY <2>1, <2>5, <2>6, <2>9, <2>10 DEF Who
<1>11. CASE Stream!StreamFails
  <2>1. /\ call.op = "stream" /\ call' = Idle /\ ret' = Err("stream", ret.result)
        /\ ret.result # "ok" /\ UNCHANGED <<source, state, dicts, collected>>
    <3>1. \A op, x : Stream!Err(op, x) = Err(op, x)
      BY StreamOwn, Zenon
    <3> QED
      BY <1>4, <1>11, <3>1 DEF Stream!StreamFails
  <2>2. (InFrame' <=> InFrame) /\ ret'.op = "stream" /\ ret'.result = ret.result
    BY <2>1 DEF InFrame, Err
  <2>3. CallOK' /\ ResetOK' /\ call.op # "from_to"
    BY <1>1, <2>1, <2>2 DEF CallOK, IInv, ResetOK, FailedReset
  <2>4. IInv'
    BY <1>1, <2>1, <2>3, CallsKeepIInv
  <2>5. EndOK'
    BY <1>1, <2>1, <2>2, StateKeepsEnd
  <2> QED
    BY <1>4, <1>6, <1>7, <2>1, <2>2, <2>4, <2>5 DEF Who
<1>12. CASE Stream!StreamReturns
  <2> DEFINE m == Smaller(call.n, Readable)
  <2>1. call.op = "stream" /\ Take(m) /\ call' = Idle /\ ret' = Ok("stream", m)
    <3>1. /\ Stream!Smaller(call.n, Stream!Readable) = m
          /\ \A n : Stream!Ok("stream", n) = Ok("stream", n)
          /\ \A n : Stream!Take(n) <=> Take(n)
      BY StreamOwn, Zenon
    <3> QED
      BY <1>4, <1>12, <3>1 DEF Stream!StreamReturns
  <2>2. call \in StreamCalls /\ state # None
    BY <1>1, <2>1 DEF IInv, CallOK, Idle, SliceCalls, AllCalls
  <2>3. call.n \in Nat
    BY <2>2, ReadSizesAssumption DEF StreamCalls
  <2>4. Readable \in 0..state.buffered /\ state.buffered \in Nat
    BY <1>1, <2>2, StateInPlace
  <2>5. m \in 0..state.buffered
    BY <2>3, <2>4 DEF Smaller
  <2> HIDE DEF m
  <2>6. Drained(m) /\ ret'.op = "stream" /\ ret'.result = "ok"
    BY <2>1 DEF Take, Drained, Ok
  <2>7. CallOK' /\ ResetOK' /\ call.op # "from_to" /\ call'.op # "from_to"
    BY <1>4, <2>1, <2>6 DEF CallOK, ResetOK, FailedReset
  <2>8. IInv'
    BY <1>1, <2>1, <2>2, <2>5, <2>7, TakeKeepsIInv
  <2>9. state' # None /\ state'.header = state.header /\ state'.buffered = state.buffered - m
    BY <1>1, <2>2, <2>5, <2>6, DrainedIsCounted DEF Kept
  <2>10. MemoryIsBounded'
    <3>1. Limit(state.header) \in Nat /\ state.buffered < Limit(state.header)
      <4>1. state.header \in Frames /\ state.header.kind = "zstd"
        BY <1>1, <2>2, StateInPlace
      <4> QED
        BY <1>1, <2>2, <4>1, LimitIsLarge
        DEF Limit, MemoryIsBounded, Stream!MemoryIsBounded
    <3>2. state'.buffered < Limit(state'.header)
      BY <2>4, <2>5, <2>9, <3>1
    <3> QED
      BY <3>2 DEF Limit, MemoryIsBounded, Stream!MemoryIsBounded
  <2>11. EndOK'
    <3>1. source' = source
      BY <2>1 DEF Take
    <3>2. state'.of = state.of
      BY <1>1, <2>2, <2>5, <2>6, DrainedIsCounted DEF Kept
    <3> QED
      BY <1>1, <2>2, <2>6, <3>1, <3>2, StateKeepsEnd DEF InFrame
  <2> QED
    BY <1>4, <1>6, <2>1, <2>6, <2>8, <2>10, <2>11 DEF Who
<1> QED
  BY <1>2, <1>3, <1>8, <1>9, <1>10, <1>11, <1>12, StreamOwn

-----------------------------------------------------------------------------
(* decode_from_to.                                                         *)

\* A call with a slice: the decoder is ahead of its source, within the slice.
LEMMA SliceCall ==
    ASSUME IInv, call.op = "from_to"
    PROVE  /\ call \in SliceCalls /\ InFrame /\ call.end <= source.end
           /\ call.at \in Nat /\ call.end \in Nat /\ call.room \in Nat
           /\ call.bytes_read_at_start = FramePos
           /\ FrameStart(source.frames, source.cur) + state.bytes_read_counter <= call.end
           /\ ~state.frame_finished =>
                 /\ call.at = FrameStart(source.frames, source.cur) + state.bytes_read_counter
                 /\ FromTo!At = state.bytes_read_counter
<1>1. /\ call \in SliceCalls /\ InFrame /\ call.end <= source.end
      /\ call.bytes_read_at_start = FramePos
      /\ FrameStart(source.frames, source.cur) + state.bytes_read_counter <= call.end
      /\ ~state.frame_finished =>
            call.at = FrameStart(source.frames, source.cur) + state.bytes_read_counter
  BY DEF IInv, CallOK, Idle, StreamCalls, AllCalls
<1>4. call.at \in Nat /\ call.end \in Nat /\ call.room \in Nat
  BY <1>1 DEF SliceCalls
<1>2. FrameStart(source.frames, source.cur) \in Nat /\ state.bytes_read_counter \in Nat
  BY <1>1, SourceOfFrame, StateParts
<1>3. FromTo!At = call.at - FrameStart(source.frames, source.cur)
  BY FromToOwn, Zenon DEF FromTo!At
<1> QED
  BY <1>1, <1>2, <1>3, <1>4

\* A call that goes on to another block of its slice.
LEMMA SliceGoesOn ==
    ASSUME IInv, InFrame, call.op = "from_to", Kept(state, state', collected),
           UNCHANGED <<source, dicts, ret, collected>>,
           NEW at \in Nat, call' = [call EXCEPT !.at = at],
           FrameStart(source.frames, source.cur) + state'.bytes_read_counter <= call.end,
           ~state'.frame_finished =>
              /\ at = FrameStart(source.frames, source.cur) + state'.bytes_read_counter
              /\ state'.bytes_read_counter = BlockStart(state'.header, state'.block_counter + 1)
              /\ collected + state'.buffered = Content(state'.header, state'.block_counter)
    PROVE  IInv' /\ call'.op = "from_to"
<1>1. /\ call \in SliceCalls /\ call.end <= source.end /\ call.bytes_read_at_start = FramePos
  BY SliceCall
<1>2. /\ call' \in SliceCalls /\ call'.at = at /\ call'.end = call.end
      /\ call'.bytes_read_at_start = call.bytes_read_at_start /\ call'.op = "from_to"
  BY <1>1 DEF SliceCalls
<1>3. (InFrame' <=> InFrame) /\ FramePos' = FramePos
  BY DEF InFrame, FramePos, Kept
<1>4. Moved(source, source')
  BY DEF Moved, IInv, SourceOK, SourceForms
<1>5. OnFrame'
  BY <1>2, <1>3, Zenon DEF IInv, OnFrame, Kept
<1>6. CallOK'
  BY <1>1, <1>2, <1>3, Zenon DEF CallOK
<1> QED
  BY <1>2, <1>4, <1>5, <1>6, LoopKeepsIInv

\* A slice that ends a call: the source moves on to where the decoder is.
LEMMA SliceKeepsInv ==
    ASSUME InterfaceInv, interface = "from_to", FromTo!Library, UNCHANGED <<vec_len, interface>>
    PROVE  InterfaceInv'
<1>1. IInv /\ RolesOK
  BY DEF InterfaceInv
<1>2. call.op = "from_to"
  BY DEF FromTo!Library, FromTo!BlockFails, FromTo!BlockDecoded, FromTo!LastBlockDecoded,
         FromTo!Returns, FromTo!InLoop
<1> DEFINE start == FrameStart(source.frames, source.cur)
           counter == state.bytes_read_counter
           b == BlockAt(counter)
<1>3. /\ call \in SliceCalls /\ InFrame /\ call.end <= source.end
      /\ call.at \in Nat /\ call.end \in Nat /\ call.room \in Nat
      /\ call.bytes_read_at_start = FramePos
      /\ start + counter <= call.end
      /\ ~state.frame_finished => call.at = start + counter /\ FromTo!At = counter
  BY <1>1, <1>2, SliceCall
<1>4. /\ source \in SourceForms /\ source.pos <= source.end
      /\ source.pos \in Nat /\ source.end \in Nat /\ start \in Nat
      /\ FramePos = source.pos - start
      /\ state \in States /\ state # None /\ Kept(state, state, collected)
      /\ counter \in Nat
  BY <1>1, <1>3, SourceOfFrame, StateParts
<1>5. SUFFICES /\ IInv' /\ call'.op \in {"idle", "from_to"} /\ state' # None
               /\ ret' = ret \/ ret'.op = "from_to"
  <2>1. Who'.op \in {"idle", "from_to"} /\ ret'.op # "stream" /\ ret'.op # "all"
    BY <1>1, <1>2, <1>5 DEF Who, RolesOK, Idle
  <2> QED
    BY <1>1, <1>5, <2>1 DEF InterfaceInv, RolesOK, StreamOK, SlicesOK, AllOK, EndOK,
                            MemoryIsBounded
<1>6. /\ FromTo!Idle = Idle /\ Idle.op = "idle" /\ FromTo!BlockHeader = BlockHeader
      /\ FromTo!Checksum = Checksum
      /\ \A at : FromTo!BlockAt(at) = BlockAt(at) /\ (FromTo!IsLastAt(at) <=> IsLastAt(at))
      /\ \A x : FromTo!BlockSize(x) = BlockSize(x) /\ FromTo!WithBlock(x) = WithBlock(x)
      /\ \A op, x : FromTo!Ok(op, x) = Ok(op, x) /\ FromTo!Err(op, x) = Err(op, x)
      /\ \A m, n : FromTo!Smaller(m, n) = Smaller(m, n)
      /\ \A s, n : FromTo!Advanced(s, n) = Advanced(s, n)
      /\ FromTo!Readable = Readable
  BY FromToOwn, Zenon DEF Idle
<1>7. ASSUME FromTo!InLoop PROVE ~state.frame_finished /\ FromTo!At = counter /\ call.at = start + counter
  BY <1>3, <1>7 DEF FromTo!InLoop, FromTo!BlockIsThere
<1>8. ASSUME FromTo!InLoop, b.kind = "good" PROVE call.at + BlockSize(b) <= call.end /\ BlockSize(b) \in Nat
  <2>1. AtBlock(state.header, state.block_counter + 1, b)
    BY <1>1, <1>3, <1>7, <1>8, IsAtBlock, Zenon
  <2>2. BlockSize(b) \in Nat
    BY <2>1, BlockParts DEF AtBlock
  <2>3. call.end - call.at >= BlockSize(b)
    BY <1>6, <1>7, <1>8 DEF FromTo!InLoop, FromTo!BlockIsThere, FromTo!Left
  <2> QED
    BY <1>3, <2>2, <2>3
<1>9. CASE FromTo!BlockFails
  <2>1. /\ FromTo!InLoop
        /\ \/ state' = state
           \/ \E n \in 0..b.size :
                 state' = [state EXCEPT !.bytes_read_counter = @ + BlockHeader, !.buffered = @ + n]
        /\ call' = Idle /\ source' = [source EXCEPT !.usable = FALSE]
        /\ UNCHANGED <<dicts, collected>>
        /\ ret'.op = "from_to" /\ ret'.result # "SkipFrame"
    <3>1. FromTo!InLoop
      BY <1>9 DEF FromTo!BlockFails
    <3>2. FromTo!BlockAt(FromTo!At) = b
      BY <1>6, <1>7, <3>1
    <3>3. ASSUME NEW e, FromTo!Reject(e), e # "SkipFrame"
          PROVE  call' = Idle /\ ret'.op = "from_to" /\ ret'.result # "SkipFrame"
      BY <1>6, <3>3 DEF FromTo!Reject, Err
    <3>4. \/ state' = state /\ FromTo!Reject("FailedToReadBlockHeader")
          \/ /\ \E n \in 0..b.size :
                   state' = [state EXCEPT !.bytes_read_counter = @ + BlockHeader, !.buffered = @ + n]
             /\ FromTo!Reject("FailedToReadBlockBody")
      BY <1>6, <1>9, <3>2, Zenon DEF FromTo!BlockFails
    <3>5. UNCHANGED <<dicts, collected>> /\ source' = [source EXCEPT !.usable = FALSE]
      BY <1>9 DEF FromTo!BlockFails
    <3> QED
      BY <3>1, <3>3, <3>4, <3>5
  <2>2. Kept(state, state', collected)
    BY <1>1, <1>3, <1>4, <1>7, <2>1, DamageIsCounted
  <2>3. Moved(source, source') /\ ~source'.usable
    <3>1. /\ source' \in SourceForms /\ source'.id = source.id /\ source'.frames = source.frames
          /\ source'.cur = source.cur /\ source'.end = source.end /\ source'.pos = source.pos
          /\ source'.usable = FALSE
      BY <1>4, <2>1 DEF SourceForms
    <3> QED
      BY <1>4, <3>1 DEF Moved
  <2>4. OnFrame' /\ CallOK'
    BY <2>1, <2>3 DEF OnFrame, InFrame, CallOK
  <2>5. IInv'
    BY <1>1, <1>3, <2>1, <2>2, <2>3, <2>4, LoopKeepsIInv
  <2> QED
    BY <1>6, <2>1, <2>2, <2>5 DEF Kept
<1>10. CASE FromTo!BlockDecoded
  <2>1. /\ FromTo!InLoop /\ b.kind = "good" /\ ~IsLastAt(counter)
        /\ state' = WithBlock(b) /\ call' = [call EXCEPT !.at = @ + BlockSize(b)]
        /\ UNCHANGED <<source, dicts, ret, collected>>
    <3>1. FromTo!InLoop
      BY <1>10 DEF FromTo!BlockDecoded
    <3>2. FromTo!BlockAt(FromTo!At) = b /\ (FromTo!IsLastAt(FromTo!At) <=> IsLastAt(counter))
      BY <1>6, <1>7, <3>1
    <3>3. FromTo!BlockSize(b) = BlockSize(b) /\ FromTo!WithBlock(b) = WithBlock(b)
      BY <1>6
    <3> QED
      BY <1>10, <3>1, <3>2, <3>3, Zenon DEF FromTo!BlockDecoded
  <2> DEFINE n == BlockSize(b)
             at == call.at + n
  <2>2. n \in Nat /\ at \in Nat /\ at <= call.end /\ call' = [call EXCEPT !.at = at]
    BY <1>3, <1>8, <2>1
  <2>3. /\ Kept(state, state', collected) /\ ~state'.frame_finished
        /\ state'.bytes_read_counter = counter + n
        /\ state'.bytes_read_counter = BlockStart(state'.header, state'.block_counter + 1)
        /\ collected + state'.buffered = Content(state'.header, state'.block_counter)
    BY <1>1, <1>3, <1>7, <2>1, NextBlockIsCounted
  <2>4. at = start + state'.bytes_read_counter
    BY <1>4, <1>7, <2>1, <2>2, <2>3
  <2> HIDE DEF at, n, start
  <2>5. IInv' /\ call'.op = "from_to"
    BY <1>1, <1>2, <1>3, <2>1, <2>2, <2>3, <2>4, SliceGoesOn DEF start
  <2> QED
    BY <2>1, <2>3, <2>5 DEF Kept
<1>11. CASE FromTo!LastBlockDecoded
  <2> DEFINE n == BlockSize(b)
             at == call.at + n
             s == [WithBlock(b) EXCEPT !.frame_finished = TRUE]
  <2>1. /\ FromTo!InLoop /\ b.kind = "good" /\ IsLastAt(counter)
        /\ call' = [call EXCEPT !.at = @ + n]
        /\ \/ state' = s
           \/ /\ state.header.checksum /\ FromTo!Left - n >= Checksum
              /\ state' = [s EXCEPT !.bytes_read_counter = @ + Checksum, !.check_sum = TRUE]
        /\ UNCHANGED <<source, dicts, ret, collected>>
    <3>1. FromTo!InLoop
      BY <1>11 DEF FromTo!LastBlockDecoded
    <3>2. FromTo!BlockAt(FromTo!At) = b /\ (FromTo!IsLastAt(FromTo!At) <=> IsLastAt(counter))
      BY <1>6, <1>7, <3>1
    <3>3. FromTo!BlockSize(b) = BlockSize(b) /\ FromTo!WithBlock(b) = WithBlock(b)
      BY <1>6
    <3> QED
      BY <1>6, <1>11, <3>1, <3>2, <3>3, Zenon DEF FromTo!LastBlockDecoded
  <2>2. n \in Nat /\ at \in Nat /\ at <= call.end /\ call' = [call EXCEPT !.at = at]
    BY <1>3, <1>8, <2>1
  <2>3. /\ Kept(state, state', collected) /\ state'.frame_finished
        /\ state' = s => state'.bytes_read_counter = counter + n
        /\ state'.bytes_read_counter \in {counter + n, counter + n + Checksum}
    BY <1>1, <1>3, <1>7, <2>1, LastBlockIsCounted
  <2>4. start + state'.bytes_read_counter <= call.end
    <3>1. call.at = start + counter
      BY <1>7, <2>1
    <3>2. CASE state' = s
      BY <1>4, <2>2, <2>3, <3>1, <3>2
    <3>3. CASE FromTo!Left - n >= Checksum
      <4>1. call.end - call.at - n >= Checksum
        BY <3>3 DEF FromTo!Left
      <4>2. start + (counter + n + Checksum) <= call.end
        <5> HIDE DEF n, start, counter
        <5> QED
          BY <1>3, <1>4, <2>2, <3>1, <4>1 DEF Checksum
      <4>3. start + (counter + n) <= call.end
        BY <1>4, <2>2, <3>1
      <4> QED
        BY <2>3, <4>2, <4>3
    <3> QED
      BY <2>1, <3>2, <3>3
  <2> HIDE DEF at, n, start, s
  <2>5. IInv' /\ call'.op = "from_to"
    BY <1>1, <1>2, <1>3, <2>1, <2>2, <2>3, <2>4, SliceGoesOn DEF start
  <2> QED
    BY <2>1, <2>3, <2>5 DEF Kept
<1>12. CASE FromTo!Returns
  <2> DEFINE m == Smaller(call.room, Readable)
             n == counter - call.bytes_read_at_start
  <2>1. /\ Drained(m) /\ source' = Advanced(source, n) /\ ret'.op = "from_to"
        /\ ret'.result = "ok" /\ call' = Idle /\ dicts' = dicts
    <3>1. /\ FromTo!Smaller(call.room, FromTo!Readable) = m
          /\ FromTo!Advanced(source, n) = Advanced(source, n)
          /\ \A x : FromTo!Ok("from_to", x) = Ok("from_to", x)
      BY <1>6
    <3> QED
      BY <1>6, <1>12, <3>1, Zenon DEF FromTo!Returns, Drained, Ok
  <2>2. m \in 0..state.buffered
    BY <1>1, <1>3, <1>4, StateInPlace DEF Smaller
  <2>3. /\ Kept(state, state', collected') /\ collected' \in Nat
        /\ state'.frame_finished = state.frame_finished
        /\ state'.block_counter = state.block_counter
        /\ state'.bytes_read_counter = counter
        /\ collected' + state'.buffered = collected + state.buffered
    BY <1>1, <1>4, <2>1, <2>2, DrainedIsCounted
  <2>4. source.pos + n = start + counter
    BY <1>3, <1>4
  <2>5. /\ source'.pos = start + counter /\ source'.pos \in Nat /\ source'.pos <= source.end
        /\ source' \in SourceForms /\ source'.id = source.id /\ source'.cur = source.cur
        /\ source'.frames = source.frames /\ source'.end = source.end
        /\ source'.usable = source.usable
    <3> DEFINE p == source.pos + n
    <3>1. p \in Nat /\ p <= source.end /\ source' = [source EXCEPT !.pos = p]
      BY <1>3, <1>4, <2>1, <2>4 DEF Advanced
    <3> HIDE DEF p, n, start, counter
    <3> QED
      BY <1>4, <2>4, <3>1 DEF SourceForms, p
  <2>6. SourceOK' /\ DecoderOK' /\ OpenedBefore'
    BY <1>1, <1>4, <2>1, <2>3, <2>5 DEF IInv, SourceOK, DecoderOK, OpenedBefore, Kept
  <2>7. FramePos' = counter
    <3>1. FramePos' = source'.pos - start
      BY <2>5 DEF FramePos
    <3> HIDE DEF start, counter
    <3> QED
      BY <1>4, <2>5, <3>1
  <2>8. OnFrame'
    <3>1. InFrame' <=> InFrame
      BY <1>4, <2>3, <2>5 DEF InFrame, Kept
    <3> QED
      BY <1>1, <1>3, <2>3, <2>5, <2>7, <3>1, Zenon DEF IInv, OnFrame, Kept
  <2>9. CallOK' /\ ResetOK'
    BY <2>1 DEF CallOK, ResetOK, FailedReset
  <2> QED
    BY <1>6, <2>1, <2>3, <2>6, <2>8, <2>9 DEF IInv, Kept
<1> QED
  BY <1>9, <1>10, <1>11, <1>12 DEF FromTo!Library

\* The first call: the header is within the slice, or the decoder stays as it was.
LEMMA FirstSliceKeepsIInv ==
    ASSUME IInv, SlicesOK, interface = "from_to", NEW end, NEW room \in ReadSizes,
           FromTo!CallInit(end, room), UNCHANGED interface
    PROVE  /\ IInv' /\ SlicesOK' /\ call'.op \in {"idle", "from_to"}
           /\ ret' = ret \/ ret'.op = "from_to"
<1> DEFINE f == NextFrame
           slice == [source EXCEPT !.end = end]
           e == IF ~Has(slice, f.header) \/ f.kind = "bad" THEN "ReadFrameHeaderError"
                ELSE IF f.kind = "skippable" THEN "SkipFrame"
                ELSE IF f.dict \notin dicts \cup {NoDict} THEN "DictNotProvided" ELSE "ok"
           dict == IF e = "ok" THEN f.dict ELSE NoDict
           at == source.pos + f.header
<1>1. /\ FromTo!Idle = Idle /\ Idle.op = "idle" /\ FromTo!NextFrame = f
      /\ (FromTo!AtFrame <=> AtFrame) /\ FromTo!Fresh(f, dict) = Fresh(f, dict)
      /\ FromTo!Has(slice, f.header) <=> Has(slice, f.header)
      /\ \A r : FromTo!Err("from_to", r) = Err("from_to", r)
  BY FromToOwn, Zenon DEF Idle
<1>2. /\ call = Idle /\ state = None /\ AtFrame /\ end \in source.pos..source.end
      /\ dicts' = dicts
      /\ IF e \in {"ok", "DictNotProvided"} THEN state' = Fresh(f, dict) /\ collected' = 0
         ELSE state' = state /\ collected' = collected
      /\ source' = IF e = "ReadFrameHeaderError" /\ f.kind # "bad" THEN source
                   ELSE [source EXCEPT !.cur = @ + 1, !.usable = (e = "ok")]
      /\ IF e = "ok"
         THEN /\ call' = [op |-> "from_to", at |-> at, end |-> end, room |-> room,
                          bytes_read_at_start |-> 0]
              /\ ret' = ret
         ELSE call' = Idle /\ ret' = Err("from_to", e)
  <2>1. /\ call = Idle /\ state = None /\ AtFrame /\ FromTo!Slice(end)
        /\ /\ IF e \in {"ok", "DictNotProvided"}
              THEN state' = Fresh(f, dict) /\ collected' = 0
              ELSE UNCHANGED <<state, collected>>
           /\ source' = IF e = "ReadFrameHeaderError" /\ f.kind # "bad" THEN source
                        ELSE [source EXCEPT !.cur = @ + 1, !.usable = (e = "ok")]
           /\ IF e = "ok"
              THEN FromTo!CallWith(at, end, room, 0) = call' /\ UNCHANGED <<ret, offered>>
              ELSE FromTo!Reject(e) /\ offered' = Smaller(end + 1, source.end)
        /\ UNCHANGED dicts
    BY Zenon DEF FromTo!CallInit, Idle, AtFrame, NextFrame, Has, Fresh, Smaller, FrameStart, Total,
        FrameSize, BlocksSize, BlockSize, BlockHeader, ChecksumSize, Checksum, FromTo!Idle,
        FromTo!AtFrame, FromTo!NextFrame, FromTo!Has, FromTo!Fresh, FromTo!Smaller,
        FromTo!FrameStart, FromTo!Total, FromTo!FrameSize, FromTo!BlocksSize, FromTo!BlockSize,
        FromTo!BlockHeader, FromTo!ChecksumSize, FromTo!Checksum
  <2> HIDE DEF e, f, dict, at, slice
  <2> QED
    BY <1>1, <2>1 DEF FromTo!Slice, FromTo!Reject, FromTo!CallWith
<1>3. /\ source \in SourceForms /\ source.id \in 1..MaxSources
      /\ source.cur + 1 \in 1..Len(source.frames) /\ Len(source.frames) \in Nat
      /\ source.id \in Nat /\ source.cur \in Nat /\ source.pos \in Nat /\ source.end \in Nat
      /\ source.frames \in Inputs /\ source.pos <= source.end /\ source.usable
      /\ source.pos = FrameStart(source.frames, source.cur + 1)
      /\ f = source.frames[source.cur + 1] /\ end \in Nat /\ end <= source.end
  BY <1>2, FramesOfSource DEF IInv, SourceOK, SourceForms, AtFrame, NextFrame
<1>4. /\ f \in Frames /\ f.header \in Nat /\ f.kind \in {"zstd", "skippable", "bad"}
  BY <1>3, FramesOfSource, FrameParts
<1>5. /\ e \in {"ReadFrameHeaderError", "SkipFrame", "DictNotProvided", "ok"}
      /\ e \in {"ok", "DictNotProvided"} => f.kind = "zstd" /\ source.pos + f.header <= end
      /\ e = "ok" => f.dict \in dicts \cup {NoDict}
  BY <1>3, <1>4 DEF Has, SourceForms
<1>6. room \in Nat /\ at \in Nat /\ DecoderOK /\ dict \in Dicts \cup {NoDict}
  BY <1>3, <1>4, <1>5, ReadSizesAssumption, SMTT(40) DEF IInv, DecoderOK
<1> HIDE DEF f, slice, e, dict
<1>7. \/ e = "ReadFrameHeaderError" /\ source' = source
      \/ source' = [source EXCEPT !.cur = @ + 1, !.usable = (e = "ok")]
  BY <1>2
<1>8. /\ SourceOK' /\ source'.id = source.id /\ source'.frames = source.frames
      /\ source'.end = source.end /\ source'.pos = source.pos
      /\ e \in {"ok", "DictNotProvided", "SkipFrame"} =>
            source'.cur = source.cur + 1 /\ (source'.usable <=> e = "ok")
  <2>1. CASE e = "ReadFrameHeaderError" /\ source' = source
    BY <1>3, <2>1 DEF SourceOK
  <2>2. CASE source' = [source EXCEPT !.cur = @ + 1, !.usable = (e = "ok")]
    <3> DEFINE c == source.cur + 1
               u == e = "ok"
    <3>1. c \in Nat /\ u \in BOOLEAN /\ source' = [source EXCEPT !.cur = c, !.usable = u]
      BY <1>3, <2>2
    <3> HIDE DEF c, u
    <3>2. /\ source' \in SourceForms /\ source'.cur = c /\ source'.usable = u
          /\ source'.id = source.id /\ source'.frames = source.frames
          /\ source'.end = source.end /\ source'.pos = source.pos
      BY <1>3, <3>1 DEF SourceForms
    <3> QED
      <4>1. SourceOK'
        BY <1>3, <3>2 DEF SourceOK, c
      <4>2. source'.cur = source.cur + 1 /\ (source'.usable <=> e = "ok")
        BY <3>2 DEF c, u
      <4> QED
        BY <3>2, <4>1, <4>2
  <2> QED
    BY <1>7, <2>1, <2>2
<1>9. CASE e \in {"ok", "DictNotProvided"}
  <2>1. state' = Fresh(f, dict) /\ collected' = 0
    BY <1>2, <1>9
  <2>2. /\ Counted(state', 0) /\ state' # None /\ state'.header = f /\ ~state'.frame_finished
        /\ state'.of = <<source.id, source.cur + 1>>
        /\ state'.bytes_read_counter = f.header /\ f.header = BlockStart(f, state'.block_counter + 1)
        /\ 0 + state'.buffered = Content(f, state'.block_counter)
    BY <1>3, <1>4, <1>5, <1>6, <1>9, <2>1, FreshIsCounted, SMTT(40)
  <2>3. DecoderOK' /\ OpenedBefore'
    BY <1>2, <1>3, <1>6, <1>8, <1>9, <2>1, <2>2, SMTT(40) DEF DecoderOK, OpenedBefore
  <2>4. SlicesOK'
    BY <2>2 DEF SlicesOK
  <2>5. CASE e = "DictNotProvided"
    <3>1. ~InFrame'
      BY <1>8, <2>5 DEF InFrame
    <3>2. call' = Idle /\ ret'.op = "from_to" /\ ret'.result = "DictNotProvided"
      BY <1>2, <2>5 DEF Err
    <3> QED
      BY <1>1, <1>8, <2>3, <2>4, <3>1, <3>2 DEF IInv, OnFrame, CallOK, ResetOK, FailedReset
  <2>6. CASE e = "ok"
    <3> DEFINE start == FrameStart(source.frames, source.cur + 1)
    <3>1. /\ call' \in SliceCalls /\ call'.at = at /\ call'.end = end /\ call'.op = "from_to"
          /\ call'.bytes_read_at_start = 0 /\ ret' = ret
      BY <1>2, <1>3, <1>6, <2>6 DEF SliceCalls
    <3>2. InFrame' /\ FramePos' = 0 /\ start = FrameStart(source'.frames, source'.cur)
      <4>1. start = FrameStart(source'.frames, source'.cur)
        BY <1>8, <2>6
      <4>2. source'.pos = start /\ source'.pos \in Nat
        BY <1>3, <1>8
      <4>3. FramePos' = 0
        BY <4>1, <4>2 DEF FramePos
      <4>4. InFrame'
        BY <1>8, <2>2, <2>6 DEF InFrame
      <4> QED
        BY <4>1, <4>3, <4>4
    <3>3. start + f.header <= end /\ at = start + f.header
      BY <1>3, <1>5, <2>6
    <3> HIDE DEF start, at
    <3>4. CallOK'
      BY <1>3, <1>8, <2>2, <3>1, <3>2, <3>3, Zenon DEF CallOK
    <3>5. OnFrame'
      BY <1>3, <1>8, <2>1, <2>2, <2>6, <3>1, Zenon DEF OnFrame
    <3>6. ret.op # "reset" /\ ret.result # "SkipFrame"
      BY <1>2, <1>3 DEF SlicesOK
    <3>7. ResetOK'
      BY <3>1, <3>6 DEF ResetOK, FailedReset
    <3> QED
      BY <1>8, <2>3, <2>4, <3>1, <3>4, <3>5, <3>7 DEF IInv
  <2> QED
    BY <1>9, <2>5, <2>6
<1>10. CASE e \notin {"ok", "DictNotProvided"}
  <2>1. /\ state' = None /\ collected' = collected /\ call' = Idle /\ dicts' = dicts
        /\ ret'.op = "from_to" /\ ret'.result = e
    BY <1>2, <1>10 DEF Err
  <2>2. ~InFrame'
    BY <2>1 DEF InFrame
  <2>3. e = "SkipFrame" => source'.cur >= 1 /\ ~source'.usable
    BY <1>3, <1>8
  <2>4. DecoderOK' /\ OpenedBefore' /\ OnFrame' /\ CallOK' /\ ResetOK' /\ SlicesOK'
    BY <1>6, <2>1, <2>2, <2>3
    DEF DecoderOK, OpenedBefore, OnFrame, CallOK, ResetOK, FailedReset, SlicesOK
  <2> QED
    BY <1>1, <1>8, <2>1, <2>4 DEF IInv
<1> QED
  BY <1>9, <1>10

\* The checksum in a slice of its own, from a caller that offers all of it.
LEMMA ChecksumSliceKeepsIInv ==
    ASSUME IInv, NEW end, FromTo!CallChecksum(end), end - source.pos >= Checksum
    PROVE  IInv' /\ call'.op = "idle" /\ ret'.op = "from_to" /\ state' # None
<1>1. /\ FromTo!Idle = Idle /\ Idle.op = "idle" /\ FromTo!Checksum = Checksum
      /\ (FromTo!InFrame <=> InFrame)
      /\ FromTo!Advanced(source, Checksum) = Advanced(source, Checksum)
      /\ FromTo!Ok("from_to", Checksum) = Ok("from_to", Checksum)
  BY FromToOwn, Zenon DEF Idle
<1>2. /\ call = Idle /\ call' = call /\ InFrame /\ state.header.checksum /\ state.frame_finished
      /\ ~state.check_sum /\ end \in source.pos..source.end
      /\ state' = [state EXCEPT !.bytes_read_counter = @ + Checksum, !.check_sum = TRUE]
      /\ source' = Advanced(source, Checksum) /\ ret' = Ok("from_to", Checksum)
      /\ UNCHANGED <<dicts, collected>>
  BY <1>1 DEF FromTo!CallChecksum, FromTo!ChecksumPending, FromTo!Slice
<1>3. /\ source \in SourceForms /\ source.pos <= source.end
      /\ source.pos \in Nat /\ source.end \in Nat
      /\ state \in States /\ state # None /\ Counted(state, collected)
  BY <1>2, SourceOfFrame DEF Kept
<1>4. Has(source, Checksum) /\ Checksum \in Nat
  BY <1>2, <1>3 DEF Has, Checksum
<1>5. Moved(source, source') /\ source'.pos = source.pos + Checksum /\ source'.usable
  BY <1>2, <1>3, <1>4, SourceMoves DEF InFrame
<1>6. state.bytes_read_counter \in Nat
  BY <1>3, StateParts
<1>7. /\ state' \in States /\ state'.header = state.header /\ state'.of = state.of
      /\ state'.frame_finished /\ state'.block_counter = state.block_counter
      /\ state'.bytes_read_counter = state.bytes_read_counter + Checksum
      /\ state'.check_sum /\ state'.buffered = state.buffered
  <2> DEFINE bytes == state.bytes_read_counter + Checksum
  <2>1. bytes \in Nat /\ state' = [state EXCEPT !.bytes_read_counter = bytes, !.check_sum = TRUE]
    BY <1>2, <1>4, <1>6
  <2> HIDE DEF bytes
  <2> QED
    BY <1>2, <1>3, <2>1 DEF States, bytes
<1>8. Finished(state', collected)
  <2>1. /\ Finished(state, collected) /\ ~state.check_sum /\ state.header \in Frames
    BY <1>2, <1>3 DEF Counted
  <2> DEFINE sum == state.header.header + BlocksSize(state.header, state.block_counter)
  <2>2. state.bytes_read_counter = sum + 0
    BY <2>1 DEF Finished
  <2>3. sum \in Nat
    <3>1. state.header.header \in Nat /\ Len(state.header.blocks) \in Nat
          /\ Laid(state.header, Len(state.header.blocks))
          /\ state.block_counter = Len(state.header.blocks)
      BY <2>1, FrameParts, BlocksAreLaid DEF Finished
    <3>2. BlocksSize(state.header, state.block_counter) \in Nat
      BY <3>1 DEF Laid
    <3> QED
      BY <3>1, <3>2
  <2>4. state'.bytes_read_counter = sum + Checksum
    BY <1>4, <1>7, <2>2, <2>3
  <2> QED
    BY <1>2, <1>7, <2>1, <2>4 DEF Finished
<1>9. Kept(state, state', collected)
  BY <1>3, <1>7, <1>8, NoneAssumption DEF Kept, Counted
<1>10. state.bytes_read_counter = FramePos
  BY <1>1, <1>2 DEF IInv, OnFrame
<1>11. OnFrame'
  BY <1>2, <1>4, <1>5, <1>7, <1>9, <1>10, ReadOn
<1>12. CallOK' /\ ret'.op = "from_to" /\ ret'.result = "ok"
  BY <1>2 DEF CallOK, Ok
<1>13. IInv'
  BY <1>2, <1>5, <1>9, <1>11, <1>12, LoopKeepsIInv
<1> QED
  BY <1>1, <1>2, <1>9, <1>12, <1>13 DEF Kept

\* A call in the middle of a frame.
LEMMA SliceBegins ==
    ASSUME IInv, NEW end, NEW room \in ReadSizes, FromTo!Call(end, room)
    PROVE  IInv' /\ call'.op = "from_to" /\ ret' = ret /\ state' # None
<1>1. /\ FromTo!Idle = Idle /\ Idle.op = "idle" /\ (FromTo!IsFinished <=> IsFinished)
      /\ (FromTo!InFrame <=> InFrame)
  BY FromToOwn, Zenon DEF Idle
<1> DEFINE at == IF IsFinished THEN end ELSE source.pos
<1>2. /\ call = Idle /\ InFrame /\ end \in source.pos..source.end
      /\ call' = [op |-> "from_to", at |-> at, end |-> end, room |-> room,
                  bytes_read_at_start |-> state.bytes_read_counter]
      /\ UNCHANGED <<source, state, dicts, ret, collected>>
  BY <1>1 DEF FromTo!Call, FromTo!CallWith, FromTo!Slice
<1>3. /\ source.pos \in Nat /\ source.end \in Nat /\ state \in States /\ state # None
      /\ FrameStart(source.frames, source.cur) \in Nat
      /\ FramePos = source.pos - FrameStart(source.frames, source.cur)
      /\ state.bytes_read_counter \in Nat
  BY <1>2, SourceOfFrame, StateParts
<1>4. state.bytes_read_counter = FramePos
  BY <1>1, <1>2 DEF IInv, OnFrame
<1>5. (InFrame' <=> InFrame) /\ FramePos' = FramePos
  BY <1>2 DEF InFrame, FramePos
<1>6. /\ call' \in SliceCalls /\ call'.end = end /\ call'.at = at /\ end \in Nat
      /\ call'.bytes_read_at_start = FramePos /\ call'.op = "from_to"
  BY <1>2, <1>3, <1>4, ReadSizesAssumption DEF SliceCalls
<1>7. FrameStart(source.frames, source.cur) + state.bytes_read_counter = source.pos
  BY <1>3, <1>4
<1>8. ~state.frame_finished => at = source.pos
  BY <1>3 DEF IsFinished
<1>9. CallOK'
  BY <1>2, <1>5, <1>6, <1>7, <1>8 DEF CallOK
<1>10. SourceOK' /\ DecoderOK' /\ OpenedBefore' /\ ResetOK'
  BY <1>2, <1>5 DEF IInv, SourceOK, DecoderOK, OpenedBefore, ResetOK
<1>11. OnFrame'
  BY <1>2, <1>5, <1>6, Zenon DEF IInv, OnFrame
<1> QED
  BY <1>2, <1>3, <1>6, <1>9, <1>10, <1>11 DEF IInv

\* The calls of a careful caller.
LEMMA CarefulCallsKeepInv ==
    ASSUME InterfaceInv, interface = "from_to", FromTo!CarefulCalls, UNCHANGED <<vec_len, interface>>
    PROVE  InterfaceInv'
<1>1. IInv /\ RolesOK /\ SlicesOK
  BY DEF InterfaceInv
<1>2. Idle.op = "idle" /\ FromTo!Idle = Idle
  BY FromToOwn, Zenon DEF Idle
<1>3. call = Idle
  BY <1>2, FromToOwn
  DEF FromTo!CarefulCalls, FromTo!CarefulCaller, FromTo!Caller, FromTo!NextFrameReset,
      FromTo!CallChecksum, FromTo!CallInit, FromTo!Call, Reset
<1>4. SUFFICES /\ IInv' /\ SlicesOK' /\ call'.op \in {"idle", "from_to"}
               /\ ret' = ret \/ ret'.op \in {"from_to", "reset"}
  <2>1. Who'.op \in {"idle", "from_to"} /\ ret'.op # "stream" /\ ret'.op # "all"
    BY <1>1, <1>4 DEF Who, RolesOK
  <2> QED
    BY <1>1, <1>4, <2>1 DEF InterfaceInv, RolesOK, StreamOK, AllOK, EndOK, MemoryIsBounded
<1>5. CASE FromTo!NextFrameReset
  <2>1. Reset /\ state # None
    BY <1>5, FromToOwn DEF FromTo!NextFrameReset, FromTo!FrameDone
  <2>2. call' = Idle /\ ret'.op = "reset"
    BY <2>1 DEF Reset
  <2>3. IInv'
    BY <1>1, <2>1, ResetKeepsIInv
  <2>4. state' # None
    <3> DEFINE f == NextFrame
               result == ResetResult(f)
    <3>1. AtFrame /\ ResetTo(f, result)
      BY <2>1 DEF Reset
    <3>2. Renewed(f, result)
      BY <1>1, <1>2, <2>2, <3>1, ResetRenews
    <3> HIDE DEF f, result
    <3> QED
      BY <2>1, <3>2 DEF Renewed, InFrame
  <2> QED
    BY <1>2, <2>2, <2>3, <2>4 DEF SlicesOK
<1>6. ASSUME NEW end, FromTo!CarefulCaller(end)
      PROVE  /\ IInv' /\ SlicesOK' /\ call'.op \in {"idle", "from_to"}
             /\ ret' = ret \/ ret'.op = "from_to"
  <2>1. CASE FromTo!CallChecksum(end)
    <3>1. end - source.pos >= Checksum
      BY <1>6, <2>1, FromToOwn DEF FromTo!CarefulCaller, FromTo!CallChecksum
    <3>2. IInv' /\ call'.op = "idle" /\ ret'.op = "from_to" /\ state' # None
      BY <1>1, <2>1, <3>1, ChecksumSliceKeepsIInv
    <3> QED
      BY <3>2 DEF SlicesOK
  <2>2. ASSUME NEW room \in ReadSizes, FromTo!CallInit(end, room)
        PROVE  /\ IInv' /\ SlicesOK' /\ call'.op \in {"idle", "from_to"}
               /\ ret' = ret \/ ret'.op = "from_to"
    BY <1>1, <2>2, FirstSliceKeepsIInv
  <2>3. ASSUME NEW room \in ReadSizes, FromTo!Call(end, room)
        PROVE  /\ IInv' /\ SlicesOK' /\ call'.op \in {"idle", "from_to"}
               /\ ret' = ret \/ ret'.op = "from_to"
    <3>1. IInv' /\ call'.op = "from_to" /\ ret' = ret /\ state' # None
      BY <1>1, <2>3, SliceBegins
    <3> QED
      BY <3>1 DEF SlicesOK
  <2> QED
    BY <1>6, <2>1, <2>2, <2>3 DEF FromTo!CarefulCaller, FromTo!Caller
<1> QED
  BY <1>3, <1>5, <1>6 DEF FromTo!CarefulCalls

-----------------------------------------------------------------------------
(* decode_all.                                                             *)

\* What the frames of a source hold.
HeldInOrder(frames) ==
    /\ All!Content(frames, 0) = 0
    /\ \A i \in 0..Len(frames) : All!Content(frames, i) \in Nat
    /\ \A i \in 1..Len(frames) :
          /\ All!Content(frames, i) = All!Content(frames, i - 1) + ContentSize(frames[i])
          /\ ContentSize(frames[i]) \in Nat
    /\ \A i, j \in 0..Len(frames) : i <= j => All!Content(frames, i) <= All!Content(frames, j)

\* The content of an input is the sum of its frames.
LEMMA FramesHold ==
    ASSUME NEW frames \in Inputs
    PROVE  HeldInOrder(frames)
<1> DEFINE n == Len(frames)
           g == [k \in 1..n |-> ContentSize(frames[k])]
<1>1. n \in Nat /\ \A k \in 1..n : frames[k] \in Frames
  BY FramesOfSource
<1>2. ASSUME NEW k \in 1..n PROVE ContentSize(frames[k]) \in Nat
  <2> DEFINE f == frames[k]
  <2>1. f \in Frames
    BY <1>1
  <2> HIDE DEF f
  <2>2. Held(f, Len(f.blocks)) /\ ContentSize(f) = Content(f, Len(f.blocks)) /\ Len(f.blocks) \in Nat
    BY <2>1, ContentIsHeld, FrameParts
  <2>3. ContentSize(f) \in Nat
    BY <2>2 DEF Held
  <2> QED
    BY <2>3 DEF f
<1>3. g \in [1..n -> Nat] /\ \A k \in 1..n : g[k] = ContentSize(frames[k])
  BY <1>2
<1>4. ASSUME NEW i \in 0..n PROVE All!Content(frames, i) = Sum(g, i)
  <2>1. [k \in 1..i |-> ContentSize(frames[k])] = [k \in 1..i |-> g[k]]
    BY <1>1
  <2>2. All!Content(frames, i) = Total([k \in 1..i |-> ContentSize(frames[k])])
    BY AllOwn, Zenon DEF All!Content
  <2> QED
    BY <2>1, <2>2, Zenon DEF Sum
<1> HIDE DEF g
<1>5. /\ Sum(g, 0) = 0 /\ \A k \in 0..n : Sum(g, k) \in Nat
      /\ \A k \in 1..n : Sum(g, k) = Sum(g, k - 1) + g[k]
  BY <1>1, <1>3, SumSteps
<1>6. \A i, j \in 0..n : i <= j => Sum(g, i) <= Sum(g, j)
  BY <1>1, <1>3, SumGrows, Zenon
<1> HIDE DEF n
<1>7. \A i \in 1..n : i \in 0..n /\ i - 1 \in 0..n
  BY <1>1
<1> QED
  BY <1>1, <1>2, <1>3, <1>4, <1>5, <1>6, <1>7, SMTT(40) DEF HeldInOrder, n

\* Where the frame at hand ends.
LEMMA FrameEnds ==
    ASSUME IInv, InFrame, call.op # "from_to"
    PROVE  /\ source.pos = FrameStart(source.frames, source.cur) + state.bytes_read_counter
           /\ FrameStart(source.frames, source.cur + 1)
                 = FrameStart(source.frames, source.cur) + FrameSize(state.header)
           /\ FrameSize(state.header) \in Nat
           /\ source.cur \in 1..Len(source.frames) /\ source.frames \in Inputs
           /\ state.header = source.frames[source.cur]
<1>1. /\ source.pos \in Nat /\ FrameStart(source.frames, source.cur) \in Nat
      /\ FramePos = source.pos - FrameStart(source.frames, source.cur)
      /\ source.cur \in 1..Len(source.frames) /\ source.frames \in Inputs
      /\ state \in States /\ state # None
  BY SourceOfFrame
<1>2. state.bytes_read_counter = FramePos /\ state.header = source.frames[source.cur]
  BY DEF IInv, OnFrame
<1>3. state.header \in Frames
  BY <1>1, StateInPlace
<1>4. FrameSize(state.header) \in Nat
  BY <1>3, FrameSizeIsNat
<1>5. FrameStart(source.frames, source.cur + 1)
        = FrameStart(source.frames, source.cur) + FrameSize(source.frames[source.cur])
  BY <1>1, FramesInOrder DEF InOrder
<1> QED
  BY <1>1, <1>2, <1>4, <1>5

\* An intact input has all its frames.
LEMMA IntactHasAll ==
    ASSUME IInv, All!Intact(source), NEW i \in 1..Len(source.frames)
    PROVE  /\ FrameStart(source.frames, i + 1) <= source.end
           /\ source.frames[i].kind # "bad"
           /\ source.frames[i].kind = "skippable" \/ source.frames[i].window <= MaxWindow
           /\ source.frames[i].dict \in dicts \cup {NoDict}
           /\ \A k \in 1..Len(source.frames[i].blocks) : source.frames[i].blocks[k].kind = "good"
<1> DEFINE n == Len(source.frames)
<1>1. source.frames \in Inputs /\ n \in Nat /\ InOrder(source.frames)
  BY FramesOfSource, FramesInOrder DEF IInv, SourceOK, SourceForms
<1>2. source.end = FrameStart(source.frames, n + 1)
  BY AllOwn, Zenon DEF All!Intact
<1>3. i + 1 \in 1..(n + 1) /\ n + 1 \in 1..(n + 1) /\ i + 1 <= n + 1
  BY <1>1
<1>4. FrameStart(source.frames, i + 1) <= FrameStart(source.frames, n + 1)
  BY <1>1, <1>3 DEF InOrder
<1> QED
  BY <1>2, <1>4, Zenon DEF All!Intact

\* Nothing fails in an intact input.
LEMMA IntactDecodes ==
    ASSUME IInv, BlockStep, ~state.frame_finished, All!Intact(source)
    PROVE  ret' = ret \/ ret'.result = "ok"
<1> DEFINE f == state.header
           k == state.block_counter + 1
           b == BlockHere
           n == Len(f.blocks)
           end == FrameStart(source.frames, source.cur + 1)
<1>1. call.op = "decode_blocks"
  BY DEF BlockStep
<1>2. InFrame /\ b = BlockAt(state.bytes_read_counter)
      /\ BlockSize(b) \in Nat /\ state.bytes_read_counter = FramePos /\ b \in BlockForms
  BY <1>1, CallIsAtBlock
<1>3. AtBlock(f, k, b) /\ Adds(f, k, b)
  BY <1>2, IsAtBlock, Zenon
<1>4. /\ source.pos = FrameStart(source.frames, source.cur) + state.bytes_read_counter
      /\ end = FrameStart(source.frames, source.cur) + FrameSize(f)
      /\ FrameSize(f) \in Nat
      /\ source.cur \in 1..Len(source.frames)
      /\ f = source.frames[source.cur]
  BY <1>1, <1>2, FrameEnds
<1>5. end <= source.end /\ \A j \in 1..n : f.blocks[j].kind = "good"
  BY <1>4, IntactHasAll
<1>6. b.kind = "good"
  BY <1>3, <1>5 DEF AtBlock
<1>7. /\ FrameSize(f) = f.header + BlocksSize(f, n) + ChecksumSize(f)
      /\ Laid(f, n) /\ n \in Nat
  BY <1>3, SizeOfFrame, BlocksAreLaid, FrameParts DEF AtBlock
<1>8. /\ FrameStart(source.frames, source.cur) \in Nat /\ source.pos \in Nat /\ source.end \in Nat
  BY <1>2, SourceOfFrame
<1>9. /\ source.pos + BlockSize(b) <= source.end
      /\ k = n => source.pos + (BlockSize(b) + ChecksumSize(f)) <= source.end
  <2> DEFINE start == FrameStart(source.frames, source.cur)
             before == BlocksSize(f, k - 1)
             all == BlocksSize(f, n)
             sum == ChecksumSize(f)
             size == BlockSize(b)
             h == f.header
  <2>1. state.bytes_read_counter = h + before /\ before \in Nat /\ h \in Nat /\ size \in Nat
    BY <1>2, <1>3 DEF AtBlock, Adds
  <2>2. BlocksSize(f, k) = before + size /\ k \in 1..n
    BY <1>3 DEF AtBlock, Adds
  <2>3. all \in Nat /\ BlocksSize(f, k) <= all /\ (k = n => BlocksSize(f, k) = all)
    <3>1. k \in 0..n /\ n \in 0..n /\ (k = n \/ k < n)
      BY <1>7, <2>2
    <3>2. all \in Nat /\ BlocksSize(f, k) \in Nat /\ (k < n => BlocksSize(f, k) < all)
      BY <1>7, <3>1, Zenon DEF Laid
    <3> QED
      BY <3>1, <3>2
  <2>4. sum \in Nat
    BY DEF ChecksumSize, Checksum
  <2>5. source.pos = start + (h + before) /\ start + (h + all + sum) <= source.end
    BY <1>4, <1>5, <1>7, <2>1
  <2>6. start \in Nat
    BY <1>8
  <2> HIDE DEF start, before, all, sum, size, h, k, n
  <2> QED
    BY <1>8, <2>1, <2>2, <2>3, <2>4, <2>5, <2>6 DEF size, sum
<1>10. Has(source, BlockSize(b)) /\ Has(source, BlockHeader)
  BY <1>2, <1>8, <1>9, BlockParts DEF Has, BlockHeader
<1>11. ~BlockHeaderFails /\ ~BlockBodyFails
  BY <1>6, <1>10 DEF BlockHeaderFails, HeaderRead, BlockBodyFails
<1>12. CASE DecodeBlock
  BY <1>12 DEF DecodeBlock, Return
<1>13. CASE DecodeLastBlock
  <2>1. IsLastAt(state.bytes_read_counter)
    BY <1>2, <1>13 DEF DecodeLastBlock
  <2>2. k = n
    BY <1>3, <2>1 DEF AtBlock
  <2>3. f.checksum => Has(source, BlockSize(b) + Checksum)
    BY <1>9, <2>2 DEF ChecksumSize, Has
  <2>4. Return("ok", 1)
    BY <1>13, <2>3, Zenon DEF DecodeLastBlock
  <2> QED
    BY <2>4 DEF Return
<1> QED
  BY <1>11, <1>12, <1>13 DEF BlockStep

\* A call of decode_all.
LEMMA AllCall ==
    ASSUME InterfaceInv, interface = "all", call.op = "all"
    PROVE  /\ IInv /\ RolesOK /\ call \in AllCalls /\ Consistent(call)
           /\ ret.op # "all" /\ ret.op # "stream" /\ ret.op # "reset" /\ ret.result # "SkipFrame"
           /\ call.at = "skip" => source.cur >= 1 /\ ~InFrame
           /\ call.at = "drain" => state # None
           /\ call.total \in Nat /\ call.room \in Nat /\ call.len \in 0..Capacity
           /\ source \in SourceForms /\ source.pos \in Nat /\ source.end \in Nat
           /\ source.cur \in Nat /\ Len(source.frames) \in Nat /\ source.cur <= Len(source.frames)
           /\ source.frames \in Inputs /\ source.pos <= source.end
           /\ source.pos = 0 /\ source.usable => source.cur = 0
           /\ vec_len \in 0..Capacity
<1>1. IInv /\ RolesOK /\ AllOK
  BY DEF InterfaceInv
<1>2. /\ call \in AllCalls /\ ret.op # "reset" /\ ret.result # "SkipFrame"
      /\ call.at = "skip" => source.cur >= 1 /\ ~InFrame
      /\ call.at = "drain" => state # None
  BY <1>1 DEF IInv, CallOK, Idle, StreamCalls, SliceCalls
<1>3. Consistent(call) /\ (source.pos = 0 /\ source.usable => source.cur = 0)
  BY <1>1 DEF AllOK, Who
<1>4. ret.op # "all" /\ ret.op # "stream" /\ vec_len \in 0..Capacity
  BY <1>1 DEF RolesOK, Idle
<1>5. call.total \in Nat /\ call.room \in Nat /\ call.len \in 0..Capacity
  BY <1>2, <1>3 DEF AllCalls, Consistent
<1>6. /\ source \in SourceForms /\ source.pos \in Nat /\ source.end \in Nat
      /\ source.cur \in Nat /\ Len(source.frames) \in Nat /\ source.cur <= Len(source.frames)
      /\ source.frames \in Inputs /\ source.pos <= source.end
  BY <1>1, FramesOfSource DEF IInv, SourceOK, SourceForms
<1> QED
  BY <1>1, <1>2, <1>3, <1>4, <1>5, <1>6

\* Whether an input is intact does not change while it is read.
LEMMA IntactStays ==
    ASSUME source'.frames = source.frames, source'.end = source.end, dicts' = dicts
    PROVE  (All!Intact(source))' <=> All!Intact(source)
  BY DEF All!Intact

\* What c must be to be the next call: as Consistent has it, of the state after.
Goes(c) ==
    /\ c.output = c.room + c.total /\ c.len <= Capacity /\ (c.vec => c.len + c.output <= Capacity)
    /\ ret'.result # "TargetTooSmall" /\ (All!Intact(source) => ret'.result = "ok")
    /\ c.at = "init" =>
          /\ c.total = Passed(source'.cur)
          /\ source'.pos = FrameStart(source.frames, source'.cur + 1)
    /\ c.at = "skip" =>
          /\ c.total = Passed(source'.cur)
          /\ source.frames[source'.cur].kind = "skippable"
          /\ source'.pos = FrameStart(source.frames, source'.cur)
                             + source.frames[source'.cur].header
    /\ c.at \in {"decode", "drain"} =>
          /\ source'.cur >= 1
          /\ state' # None /\ state'.header = source.frames[source'.cur]
          /\ c.total = Passed(source'.cur - 1) + collected'
          /\ c.at = "decode" \/ ret'.result = "ok" => InFrame'
          /\ c.at = "decode" => ~state'.frame_finished

\* A call goes on with the same input.
LEMMA CallGoesOn ==
    ASSUME source'.frames = source.frames, source'.end = source.end, dicts' = dicts,
           NEW c, Who' = c, Goes(c)
    PROVE  Consistent(Who)'
<1>1. (All!Intact(source))' <=> All!Intact(source)
  BY IntactStays
<1>2. All!Content(source'.frames, source'.cur) = Passed(source'.cur)
      /\ All!Content(source'.frames, source'.cur - 1) = Passed(source'.cur - 1)
  BY Zenon DEF Passed
<1>3. Passed(source.cur)' = All!Content(source'.frames, source'.cur)
      /\ Passed(source.cur - 1)' = All!Content(source'.frames, source'.cur - 1)
  BY Zenon DEF Passed
<1> QED
  BY <1>1, <1>2, <1>3, Zenon DEF Consistent, Goes

\* A vector has grown by what is returned, and by nothing after an error.
Lengthened == call.vec => vec_len' = call.len + (IF ret'.result = "ok" THEN ret'.n ELSE 0)

\* What a call answers.
Answered ==
    call.op = "all" /\ ret'.op = "all" =>
        /\ Lengthened
        /\ ret'.result = "ok" =>
              \E k \in 0..Len(source.frames) :
                 /\ source.end = FrameStart(source.frames, k + 1)
                 /\ ret'.n = Passed(k)
        /\ ret'.result = "TargetTooSmall" => call.output < Passed(Len(source.frames))
        /\ All!Intact(source) /\ call.output >= Passed(Len(source.frames)) => ret'.result = "ok"

\* What a step of decode_all leaves.
AllKept ==
    /\ IInv' /\ Who'.op \in {"idle", "all"} /\ vec_len' \in 0..Capacity
    /\ ret'.op = "all" => call' = Idle
    /\ ret'.op # "stream"
    /\ source'.pos = 0 /\ source'.usable => source'.cur = 0
    /\ Who'.op = "all" => Consistent(Who)'
    /\ Answered

\* A call that returns, having kept the counters.
LEMMA AllReturns ==
    ASSUME InterfaceInv, interface = "all", call.op = "all", NEW result, NEW n \in Nat,
           All!Finish(result, n)
    PROVE  /\ call' = Idle /\ call'.op = "idle" /\ Who'.op = "idle" /\ CallOK'
           /\ ret'.op = "all" /\ ret'.result = result /\ ret'.n = n
           /\ vec_len' \in 0..Capacity
           /\ n <= call.total => Lengthened
<1>1. All!Idle = Idle /\ Idle.op = "idle" /\ \A m, x : All!Smaller(m, x) = Smaller(m, x)
  BY AllOwn, Zenon DEF Idle
<1>2. call.len \in 0..Capacity /\ vec_len \in 0..Capacity
  BY AllCall
<1>3. /\ call' = Idle /\ ret'.op = "all" /\ ret'.result = result /\ ret'.n = n
      /\ vec_len' \in {vec_len, Smaller(call.len + n, Capacity), call.len}
  BY <1>1 DEF All!Finish
<1>4. Smaller(call.len + n, Capacity) \in 0..Capacity
  BY <1>2, OutputsAssumption DEF Smaller
<1>5. ASSUME n <= call.total, call.vec
      PROVE  vec_len' = call.len + (IF ret'.result = "ok" THEN ret'.n ELSE 0)
  <2>1. call.len + n <= Capacity
    <3>1. /\ call.room \in Nat /\ call.total \in Nat /\ call.output = call.room + call.total
          /\ call.len + call.output <= Capacity
      BY <1>5, AllCall DEF Consistent
    <3> QED
      BY <1>2, <1>5, <3>1, OutputsAssumption
  <2>2. vec_len' = IF result = "ok" THEN Smaller(call.len + n, Capacity) ELSE call.len
    BY <1>1, <1>5 DEF All!Finish
  <2> QED
    BY <1>2, <1>3, <2>1, <2>2, OutputsAssumption DEF Smaller
<1> QED
  BY <1>1, <1>2, <1>3, <1>4, <1>5 DEF Who, CallOK, Lengthened

\* An input that has been read to its end: all of it was frames.
LEMMA InputEmptyKeeps ==
    ASSUME InterfaceInv, interface = "all", All!InputEmpty
    PROVE  AllKept
<1>1. /\ call.op = "all" /\ call.at = "init" /\ source.pos = source.end
      /\ All!Finish("ok", call.total)
      /\ UNCHANGED <<source, state, dicts, collected>>
  BY DEF All!InputEmpty, All!At
<1>2. /\ IInv /\ Consistent(call) /\ call.total \in Nat
      /\ source.cur \in 0..Len(source.frames)
      /\ source.pos = 0 /\ source.usable => source.cur = 0
  BY <1>1, AllCall
<1>3. /\ call' = Idle /\ call'.op = "idle" /\ Who'.op = "idle" /\ CallOK'
      /\ ret'.op = "all" /\ ret'.result = "ok" /\ ret'.n = call.total
      /\ vec_len' \in 0..Capacity /\ Lengthened
  BY <1>1, <1>2, AllReturns
<1>4. ResetOK'
  BY <1>3 DEF ResetOK, FailedReset
<1>5. IInv'
  BY <1>1, <1>2, <1>3, <1>4, CallsKeepIInv
<1>6. call.total = Passed(source.cur) /\ source.end = FrameStart(source.frames, source.cur + 1)
  BY <1>1, <1>2 DEF Consistent
<1>7. Answered
  BY <1>2, <1>3, <1>6 DEF Answered
<1> QED
  BY <1>1, <1>2, <1>3, <1>5, <1>7 DEF AllKept

\* The next frame: one to decode, one to skip, or one that cannot be read.
LEMMA NextInitKeeps ==
    ASSUME InterfaceInv, interface = "all", All!NextInit
    PROVE  AllKept
<1> DEFINE f == NextFrame
           result == ResetResult(f)
<1>1. /\ call.op = "all" /\ call.at = "init" /\ AtFrame
      /\ ResetTo(f, result)
      /\ IF result \in {"ok", "SkipFrame"}
         THEN /\ call' = [call EXCEPT !.at = IF result = "ok" THEN "decode" ELSE "skip"]
              /\ UNCHANGED <<ret, vec_len>>
         ELSE All!Finish(result, 0)
  <2>1. /\ All!AtFrame <=> AtFrame
        /\ All!NextFrame = f /\ All!ResetResult(f) = result
        /\ All!ResetTo(f, result) <=> ResetTo(f, result)
    BY AllOwn, Zenon
  <2> HIDE DEF f, result
  <2> QED
    BY <2>1 DEF All!NextInit, All!At
<1>2. /\ IInv /\ Consistent(call) /\ call \in AllCalls /\ ret.op # "all" /\ ret.op # "stream"
      /\ ret.op # "reset" /\ ret.result # "SkipFrame" /\ vec_len \in 0..Capacity
      /\ source.frames \in Inputs /\ source.cur \in Nat /\ Len(source.frames) \in Nat
      /\ source.cur <= Len(source.frames) /\ source.pos \in Nat /\ source.end \in Nat
  BY <1>1, AllCall
<1>3. call.total = Passed(source.cur) /\ source.pos = FrameStart(source.frames, source.cur + 1)
  BY <1>1, <1>2 DEF Consistent
<1>4. result \notin {"ok", "SkipFrame"} =>
         /\ call' = Idle /\ call'.op = "idle" /\ Who'.op = "idle" /\ CallOK'
         /\ ret'.op = "all" /\ ret'.result = result /\ vec_len' \in 0..Capacity /\ Lengthened
  BY <1>1, AllCall, AllReturns
<1>5. result \in {"ok", "SkipFrame"} =>
         /\ call' \in AllCalls /\ call'.op = "all" /\ call'.total = call.total
         /\ call'.room = call.room /\ call'.output = call.output /\ call'.len = call.len
         /\ call'.vec = call.vec
         /\ call'.at = (IF result = "ok" THEN "decode" ELSE "skip")
         /\ ret' = ret /\ vec_len' = vec_len
  BY <1>1, <1>2 DEF AllCalls
<1>6. call'.op # "from_to"
  BY <1>4, <1>5
<1>7. Renewed(f, result)
  BY <1>1, <1>2, <1>6, ResetRenews
<1> HIDE DEF f, result
<1>8. f \in Frames /\ f = source.frames[source.cur + 1] /\ source.cur + 1 \in 1..Len(source.frames)
  BY <1>7 DEF Renewed
<1>9. CallOK' /\ ResetOK'
  <2>1. CASE result \in {"ok", "SkipFrame"}
    <3>1. ret'.op # "reset" /\ ret'.result # "SkipFrame" /\ call'.at # "drain"
      BY <1>2, <1>5, <2>1
    <3>2. call'.at = "skip" => source'.cur >= 1 /\ ~InFrame'
      BY <1>2, <1>5, <1>7, <2>1 DEF Renewed
    <3> QED
      BY <1>5, <2>1, <3>1, <3>2 DEF CallOK, ResetOK, FailedReset
  <2>2. CASE result \notin {"ok", "SkipFrame"}
    BY <1>4, <2>2 DEF ResetOK, FailedReset
  <2> QED
    BY <2>1, <2>2
<1>10. IInv'
  BY <1>7, <1>9 DEF IInv, Renewed
<1>11. source'.pos = 0 /\ source'.usable => source'.cur = 0
  <2>1. f.header \in Nat /\ f.header > 0
    BY <1>8, FrameParts
  <2> QED
    BY <1>2, <1>7, <2>1 DEF Renewed
<1>12. All!Intact(source) => result \in {"ok", "SkipFrame"}
  <2> SUFFICES ASSUME All!Intact(source) PROVE result \in {"ok", "SkipFrame"}
    OBVIOUS
  <2> DEFINE i == source.cur + 1
  <2>1. /\ FrameStart(source.frames, i + 1) <= source.end
        /\ f.kind # "bad" /\ (f.kind = "skippable" \/ f.window <= MaxWindow)
        /\ f.dict \in dicts \cup {NoDict}
    BY <1>2, <1>8, IntactHasAll
  <2>2. FrameStart(source.frames, i + 1) = FrameStart(source.frames, i) + FrameSize(f)
    BY <1>2, <1>8, FramesInOrder DEF InOrder
  <2>3. FrameSize(f) \in Nat /\ f.header <= FrameSize(f) /\ f.header \in Nat /\ f.window \in Nat
    BY <1>8, FrameSizeIsNat, FrameParts
  <2>4. source.pos + f.header <= source.end
    <3> HIDE DEF i
    <3> QED
      BY <1>2, <1>3, <2>1, <2>2, <2>3 DEF i
  <2>5. Has(source, f.header)
    BY <2>4 DEF Has
  <2>6. ~(f.kind # "skippable" /\ f.window > MaxWindow)
    BY <2>1, <2>3, MaxWindowAssumption
  <2> QED
    BY <2>1, <2>5, <2>6 DEF result, ResetResult
<1>13. Answered
  <2>1. result \in {"ReadFrameHeaderError", "SkipFrame", "WindowSizeTooBig", "DictNotProvided", "ok"}
    BY <1>7 DEF Renewed
  <2>2. CASE result \in {"ok", "SkipFrame"}
    BY <1>2, <1>5, <2>2 DEF Answered
  <2>3. CASE result \notin {"ok", "SkipFrame"}
    BY <1>4, <1>12, <2>1, <2>3 DEF Answered
  <2> QED
    BY <2>2, <2>3
<1>14. CASE result \notin {"ok", "SkipFrame"}
  BY <1>4, <1>10, <1>11, <1>13, <1>14 DEF AllKept
<1>15. CASE result \in {"ok", "SkipFrame"}
  <2>1. /\ source'.cur = source.cur + 1 /\ source'.pos = source.pos + f.header
        /\ source'.frames = source.frames /\ source'.end = source.end
        /\ result = "ok" =>
              InFrame' /\ state'.header = f /\ collected' = 0 /\ ~state'.frame_finished
    BY <1>7, <1>15 DEF Renewed
  <2>2. dicts' = dicts
    BY <1>1 DEF ResetTo
  <2>3. HeldInOrder(source.frames) /\ All!Content(source.frames, source.cur) \in Nat
    BY <1>2, FramesHold, SMTT(40) DEF HeldInOrder
  <2>4. (source.cur + 1) - 1 = source.cur /\ source.cur + 1 >= 1
    BY <1>2
  <2>5. /\ call'.output = call'.room + call'.total /\ call'.len <= Capacity
        /\ call'.vec => call'.len + call'.output <= Capacity
        /\ ret'.result # "TargetTooSmall" /\ (All!Intact(source) => ret'.result = "ok")
    BY <1>2, <1>5, <1>15 DEF Consistent
  <2>6. ASSUME result = "ok" PROVE Goes(call')
    <3>1. call'.at = "decode" /\ call'.total = Passed(source'.cur - 1) + collected'
      BY <1>3, <1>5, <2>1, <2>3, <2>4, <2>6 DEF Passed
    <3>2. state' # None /\ state'.header = source.frames[source'.cur]
      BY <1>8, <2>1, <2>6 DEF InFrame
    <3> QED
      BY <2>1, <2>4, <2>5, <2>6, <3>1, <3>2 DEF Goes
  <2>7. ASSUME result = "SkipFrame" PROVE Goes(call')
    <3>1. f.kind = "skippable"
      BY <1>8, <2>7, ResetResults DEF result
    <3>2. ContentSize(f) = 0
      <4>1. Len(f.blocks) = 0
        BY <1>8, <3>1 DEF Frames
      <4> QED
        BY <1>8, <4>1, ContentIsHeld DEF Held
    <3>3. All!Content(source.frames, source.cur + 1) = All!Content(source.frames, source.cur)
      BY <1>8, <2>3, <2>4, <3>2 DEF HeldInOrder
    <3>4. call'.at = "skip" /\ call'.total = Passed(source'.cur)
      BY <1>3, <1>5, <2>1, <2>7, <3>3 DEF Passed
    <3>5. source'.pos = FrameStart(source.frames, source'.cur) + source.frames[source'.cur].header
      BY <1>3, <1>8, <2>1
    <3>6. source.frames[source'.cur].kind = "skippable"
      BY <1>8, <2>1, <3>1
    <3> QED
      BY <2>5, <3>4, <3>5, <3>6 DEF Goes
  <2>8. Who' = call' /\ Who'.op = "all"
    BY <1>5, <1>15 DEF Who
  <2>9. Goes(call')
    BY <1>15, <2>6, <2>7, Zenon
  <2>10. Consistent(Who)'
    BY <2>1, <2>2, <2>8, <2>9, CallGoesOn, Zenon
  <2>11. /\ vec_len' \in 0..Capacity /\ ret'.op # "all" /\ ret'.op # "stream"
    BY <1>2, <1>5, <1>15
  <2> QED
    BY <1>10, <1>11, <1>13, <2>8, <2>10, <2>11, Zenon DEF AllKept
<1> QED
  BY <1>14, <1>15

\* What a round of decode_blocks answers.
LEMMA BlockAnswers ==
    ASSUME BlockStep
    PROVE  ret' = ret \/ ret'.result # "TargetTooSmall"
<1>1. \A r, n : Return(r, n) => ret'.result = r
  BY DEF Return
<1> QED
  BY <1>1 DEF BlockStep, BlockHeaderFails, BlockBodyFails, DecodeBlock, DecodeLastBlock

\* A skippable frame is stepped over, to where the next one begins.
LEMMA SkipKeeps ==
    ASSUME InterfaceInv, interface = "all", All!Skip
    PROVE  AllKept
<1> DEFINE f == source.frames[source.cur]
           n == f.skipped
<1>1. /\ call.op = "all" /\ call.at = "skip" /\ UNCHANGED <<state, dicts, collected>>
      /\ source' = IF Has(source, n) THEN Advanced(source, n) ELSE Spent(source)
      /\ Has(source, n) => call' = [call EXCEPT !.at = "init"] /\ UNCHANGED <<ret, vec_len>>
      /\ ~Has(source, n) => All!Finish("FailedToSkipFrame", 0)
  <2>1. /\ All!Has(source, n) <=> Has(source, n)
        /\ All!Advanced(source, n) = Advanced(source, n) /\ All!Spent(source) = Spent(source)
    BY AllOwn, Zenon
  <2> QED
    BY <2>1 DEF All!Skip, All!SkipFits, All!At
<1>2. /\ IInv /\ Consistent(call) /\ call \in AllCalls /\ ret.op # "all" /\ ret.op # "stream"
      /\ ret.op # "reset" /\ ret.result # "SkipFrame" /\ vec_len \in 0..Capacity
      /\ source.frames \in Inputs /\ source.cur \in Nat /\ Len(source.frames) \in Nat
      /\ source.cur <= Len(source.frames) /\ source.pos \in Nat /\ source.end \in Nat
      /\ source.cur >= 1 /\ ~InFrame
  BY <1>1, AllCall
<1>3. /\ call.total = Passed(source.cur) /\ f.kind = "skippable"
      /\ source.pos = FrameStart(source.frames, source.cur) + f.header
  BY <1>1, <1>2 DEF Consistent
<1>4. Has(source, n) =>
         /\ call' \in AllCalls /\ call'.op = "all" /\ call'.total = call.total
         /\ call'.room = call.room /\ call'.output = call.output /\ call'.len = call.len
         /\ call'.vec = call.vec
         /\ call'.at = "init" /\ ret' = ret /\ vec_len' = vec_len
  BY <1>1, <1>2 DEF AllCalls
<1>5. ~Has(source, n) =>
         /\ call' = Idle /\ call'.op = "idle" /\ Who'.op = "idle" /\ CallOK'
         /\ ret'.op = "all" /\ ret'.result = "FailedToSkipFrame" /\ vec_len' \in 0..Capacity
         /\ Lengthened
  BY <1>1, AllCall, AllReturns
<1>6. CallOK' /\ ResetOK'
  <2>1. CASE Has(source, n)
    BY <1>2, <1>4, <2>1 DEF CallOK, ResetOK, FailedReset
  <2>2. CASE ~Has(source, n)
    BY <1>5, <2>2 DEF ResetOK, FailedReset
  <2> QED
    BY <2>1, <2>2
<1>7. /\ IInv' /\ Moved(source, source') /\ n \in Nat
      /\ Has(source, n) => source'.pos = source.pos + n
  BY <1>1, <1>2, <1>6, SkippingLeavesFrame
<1>8. /\ f \in Frames /\ f.header \in Nat /\ f.header > 0
  BY <1>2, FramesOfSource, FrameParts
<1>9. FrameSize(f) = f.header + n
  <2>1. Len(f.blocks) = 0 /\ ChecksumSize(f) = 0
    BY <1>3, <1>8 DEF Frames, ChecksumSize
  <2>2. BlocksSize(f, Len(f.blocks)) = 0
    BY <1>8, <2>1, BlocksAreLaid DEF Laid
  <2>3. FrameSize(f) = f.header + 0 + 0 + n
    BY <2>1, <2>2 DEF FrameSize
  <2> HIDE DEF n, f
  <2> QED
    BY <1>7, <1>8, <2>3
<1>10. /\ FrameStart(source.frames, source.cur + 1) = FrameStart(source.frames, source.cur) + FrameSize(f)
       /\ FrameStart(source.frames, source.cur) \in Nat
  BY <1>2, FramesInOrder DEF InOrder
<1>11. /\ FrameStart(source.frames, source.cur + 1) = source.pos + n
       /\ 0 < source.pos
  <2> HIDE DEF f, n
  <2> QED
    BY <1>3, <1>7, <1>8, <1>9, <1>10
<1>12. ~(source'.pos = 0 /\ source'.usable)
  BY <1>2, <1>7, <1>11 DEF Moved, SourceForms
<1>13. All!Intact(source) => Has(source, n)
  <2>1. All!Intact(source) => FrameStart(source.frames, source.cur + 1) <= source.end
    BY <1>2, IntactHasAll
  <2> QED
    BY <1>11, <2>1 DEF Has
<1>14. Answered
  BY <1>2, <1>4, <1>5, <1>13 DEF Answered
<1> HIDE DEF n, f
<1>15. CASE ~Has(source, n)
  BY <1>5, <1>7, <1>12, <1>14, <1>15 DEF AllKept
<1>16. CASE Has(source, n)
  <2>1. source'.cur = source.cur /\ source'.frames = source.frames /\ source'.end = source.end
    BY <1>7 DEF Moved
  <2>2. Goes(call')
    BY <1>2, <1>3, <1>4, <1>7, <1>11, <1>16, <2>1 DEF Goes, Consistent
  <2>3. Who' = call' /\ Who'.op = "all" /\ dicts' = dicts
    BY <1>1, <1>4, <1>16 DEF Who
  <2>4. Consistent(Who)'
    BY <2>1, <2>2, <2>3, CallGoesOn, Zenon
  <2>5. vec_len' \in 0..Capacity /\ ret'.op # "all" /\ ret'.op # "stream"
    BY <1>2, <1>4, <1>16
  <2> QED
    BY <1>7, <1>12, <1>14, <2>3, <2>4, <2>5, Zenon DEF AllKept
<1> QED
  BY <1>15, <1>16

\* A round of decode_all asks decode_blocks for more of the frame.
LEMMA DecodeKeeps ==
    ASSUME InterfaceInv, interface = "all", All!Decode
    PROVE  AllKept
<1> DEFINE strat == [kind |-> "UptoBytes", n |-> Batch]
           caller == [call EXCEPT !.at = "drain"]
<1>1. /\ call.op = "all" /\ call.at = "decode" /\ DecodeBlocks(strat, caller) /\ vec_len' = vec_len
  <2>1. All!DecodeBlocks(strat, caller) <=> DecodeBlocks(strat, caller)
    BY AllOwn, Zenon
  <2> QED
    BY <2>1 DEF All!Decode, All!At
<1>2. /\ IInv /\ Consistent(call) /\ call \in AllCalls /\ ret.op # "all" /\ ret.op # "stream"
      /\ vec_len \in 0..Capacity /\ (source.pos = 0 /\ source.usable => source.cur = 0)
  BY <1>1, AllCall
<1>3. /\ caller \in AllCalls /\ caller.op = "all" /\ caller.at = "drain" /\ caller \in Callers
      /\ caller.total = call.total /\ caller.room = call.room /\ caller.output = call.output
      /\ caller.len = call.len /\ caller.vec = call.vec
  <2>1. /\ caller \in AllCalls /\ caller.op = "all" /\ caller.at = "drain"
        /\ caller.total = call.total /\ caller.room = call.room /\ caller.output = call.output
        /\ caller.len = call.len /\ caller.vec = call.vec
    BY <1>1, <1>2 DEF AllCalls
  <2> QED
    BY <2>1 DEF Callers
<1> HIDE DEF strat, caller
<1>4. IInv'
  BY <1>1, <1>2, <1>3, DecodeBlocksKeepsIInv DEF Consistent
<1>5. /\ InFrame /\ call'.op = "decode_blocks" /\ call'.caller = caller
      /\ UNCHANGED <<source, state, dicts, ret, collected>>
  BY <1>1 DEF DecodeBlocks
<1>6. InFrame' /\ Who' = caller
  BY <1>5 DEF InFrame, Who
<1>7. Goes(caller)
  BY <1>1, <1>2, <1>3, <1>5, <1>6 DEF Goes, Consistent
<1>8. Consistent(Who)'
  BY <1>5, <1>6, <1>7, CallGoesOn
<1> QED
  BY <1>1, <1>2, <1>3, <1>4, <1>5, <1>6, <1>8 DEF AllKept, Answered

\* A round of decode_blocks for decode_all.
LEMMA AllRoundKeeps ==
    ASSUME InterfaceInv, interface = "all", BlockStep, vec_len' = vec_len
    PROVE  AllKept
<1>1. IInv /\ RolesOK /\ AllOK
  BY DEF InterfaceInv
<1>2. /\ IInv' /\ Moved(source, source') /\ Kept(state, state', collected)
      /\ collected' = collected /\ dicts' = dicts
      /\ call.op = "decode_blocks" /\ call.caller \in Callers
      /\ \/ /\ call' = call.caller /\ ret'.op = "decode_blocks"
            /\ ret'.result = "ok" => InFrame'
         \/ call' = call /\ ret' = ret /\ InFrame'
  BY <1>1, BlockStepDoes
<1>3. Who = call.caller /\ Who' = Who
  <2>1. Who = call.caller /\ call.caller.op # "decode_blocks"
    BY <1>2 DEF Who, Callers, Idle, StreamCalls, AllCalls
  <2>2. Who' = call.caller
    BY <1>2, <2>1 DEF Who
  <2> QED
    BY <2>1, <2>2
<1>4. /\ InFrame /\ source.cur \in 1..Len(source.frames) /\ source.pos \in Nat
      /\ state.frame_finished => call.caller = Idle
  BY <1>1, <1>2, CallIsInFrame, SourceOfFrame
<1>5. source.usable /\ source.pos # 0
  BY <1>1, <1>4 DEF InFrame, AllOK
<1>6. source'.pos # 0 /\ source'.cur = source.cur
      /\ source'.frames = source.frames /\ source'.end = source.end
  BY <1>2, <1>4, <1>5 DEF Moved, SourceForms
<1>7. Who.op \in {"idle", "all"} /\ vec_len' \in 0..Capacity
  BY <1>1 DEF RolesOK
<1>8. ret'.op # "all" /\ ret'.op # "stream"
  <2>1. ret.op # "all" /\ ret.op # "stream"
    BY <1>1, <1>2 DEF RolesOK, Idle
  <2> QED
    BY <1>2, <2>1
<1>9. Who.op = "all" => Consistent(Who)'
  <2> SUFFICES ASSUME Who.op = "all" PROVE Consistent(Who)'
    OBVIOUS
  <2> DEFINE c == Who
  <2>1. c \in AllCalls /\ c.at = "drain" /\ Consistent(c)
    BY <1>1, <1>2, <1>3 DEF Callers, Idle, StreamCalls, AllOK
  <2>2. All!Intact(source) => ret'.result = "ok"
    <3>1. ~state.frame_finished
      BY <1>3, <1>4, <2>1 DEF Idle
    <3> QED
      BY <1>1, <2>1, <3>1, IntactDecodes DEF Consistent
  <2>3. ret'.result # "TargetTooSmall"
    BY <2>1, BlockAnswers DEF Consistent
  <2>4. state' # None /\ state'.header = state.header
    BY <1>2 DEF Kept
  <2> HIDE DEF c
  <2>5. Goes(c)
    BY <1>2, <1>6, <2>1, <2>2, <2>3, <2>4 DEF Goes, Consistent
  <2> QED
    BY <1>2, <1>3, <1>6, <2>5, CallGoesOn DEF c
<1> QED
  BY <1>2, <1>3, <1>6, <1>7, <1>8, <1>9 DEF AllKept, Answered

\* What is read into an output: all of it, or as much as there is room for.
LEMMA ReadsWhatFits ==
    ASSUME IInv, state # None, NEW room \in Nat
    PROVE  LET n == Smaller(room, Readable)
           IN  /\ n \in 0..state.buffered /\ n <= room /\ n \in Nat
               /\ All!TooSmall(n) => n = room /\ n < state.buffered
               /\ ~All!TooSmall(n) /\ IsFinished => n = state.buffered
<1> DEFINE n == Smaller(room, Readable)
           w == state.header.window
           b == state.buffered
           r == Readable
<1>1. b \in Nat /\ w \in Nat /\ r \in 0..b /\ state.frame_finished \in BOOLEAN
  BY StateInPlace, StateParts
<1>2. /\ IsFinished => state.frame_finished
      /\ state.frame_finished => r = b
      /\ ~state.frame_finished => r = IF b > w THEN b - w ELSE 0
  BY DEF IsFinished, Readable, CanDrainToWindowSize
<1>3. All!TooSmall(n) <=> IF IsFinished THEN b > n ELSE b > w + n
  <2>1. All!IsFinished <=> IsFinished
    BY AllOwn, Zenon
  <2> QED
    BY <2>1 DEF All!TooSmall
<1>4. n = IF room < r THEN room ELSE r
  BY DEF Smaller
<1> HIDE DEF n, w, b, r
<1>5. n \in 0..b /\ n <= room /\ n \in Nat
  BY <1>1, <1>4
<1>6. All!TooSmall(n) => n = room /\ n < b
  <2>1. CASE state.frame_finished
    BY <1>1, <1>2, <1>3, <1>4, <1>5, <2>1
  <2>2. CASE ~state.frame_finished
    BY <1>1, <1>2, <1>3, <1>4, <1>5, <2>2
  <2> QED
    BY <1>1, <2>1, <2>2
<1>7. ~All!TooSmall(n) /\ IsFinished => n = b
  BY <1>1, <1>2, <1>3, <1>4, <1>5
<1> QED
  BY <1>5, <1>6, <1>7 DEF n, b

\* What was decoded goes to the output, as far as there is room.
LEMMA DrainKeeps ==
    ASSUME InterfaceInv, interface = "all", All!Drain
    PROVE  AllKept
<1> DEFINE m == Smaller(call.room, Readable)
           c == [call EXCEPT !.at = IF IsFinished THEN "init" ELSE "decode",
                             !.room = @ - m, !.total = @ + m]
<1>1. /\ call.op = "all" /\ call.at = "drain"
      /\ ret.result # "ok" => /\ All!Finish(ret.result, 0)
                              /\ UNCHANGED <<source, state, dicts, collected>>
      /\ ret.result = "ok" =>
            /\ Take(m)
            /\ All!TooSmall(m) => All!Finish("TargetTooSmall", 0)
            /\ ~All!TooSmall(m) => call' = c /\ UNCHANGED <<ret, vec_len>>
  <2>1. /\ All!Smaller(call.room, All!Readable) = m /\ (All!Take(m) <=> Take(m))
        /\ (All!IsFinished <=> IsFinished)
    BY AllOwn, Zenon
  <2>2. All!AfterRead(m) = c
    BY <2>1, Zenon DEF All!AfterRead
  <2> HIDE DEF m, c
  <2> QED
    BY <2>1, <2>2 DEF All!Drain, All!At
<1>2. /\ IInv /\ Consistent(call) /\ call \in AllCalls /\ ret.op # "all" /\ ret.op # "stream"
      /\ ret.op # "reset" /\ ret.result # "SkipFrame" /\ vec_len \in 0..Capacity
      /\ call.total \in Nat /\ call.room \in Nat /\ state # None
      /\ source.frames \in Inputs /\ source.cur \in Nat /\ Len(source.frames) \in Nat
      /\ source.cur <= Len(source.frames) /\ source.pos \in Nat
      /\ (source.pos = 0 /\ source.usable => source.cur = 0)
  BY <1>1, AllCall
<1>3. /\ source.cur >= 1 /\ state.header = source.frames[source.cur]
      /\ call.total = Passed(source.cur - 1) + collected
      /\ call.output = call.room + call.total
      /\ ret.result = "ok" => InFrame
      /\ ret.result # "TargetTooSmall" /\ (All!Intact(source) => ret.result = "ok")
      /\ EndOK
  BY <1>1, <1>2 DEF Consistent, InterfaceInv
<1>4. call.op # "from_to"
  BY <1>1
<1> HIDE DEF m, c
<1>5. CASE ret.result # "ok"
  <2>1. /\ call' = Idle /\ call'.op = "idle" /\ Who'.op = "idle" /\ CallOK'
        /\ ret'.op = "all" /\ ret'.result = ret.result /\ vec_len' \in 0..Capacity /\ Lengthened
    BY <1>1, <1>2, <1>5, AllReturns
  <2>2. UNCHANGED <<source, state, dicts, collected>>
    BY <1>1, <1>5
  <2>3. ResetOK'
    BY <1>2, <2>1 DEF ResetOK, FailedReset
  <2>4. IInv'
    BY <1>2, <1>4, <2>1, <2>2, <2>3, CallsKeepIInv
  <2>5. Answered
    BY <1>3, <1>5, <2>1 DEF Answered
  <2> QED
    BY <1>2, <2>1, <2>2, <2>4, <2>5 DEF AllKept
<1>6. CASE ret.result = "ok"
  <2>1. /\ m \in 0..state.buffered /\ m <= call.room /\ m \in Nat
        /\ All!TooSmall(m) => m = call.room /\ m < state.buffered
        /\ ~All!TooSmall(m) /\ IsFinished => m = state.buffered
    BY <1>2, ReadsWhatFits DEF m
  <2>2. Take(m) /\ Drained(m) /\ source' = source /\ dicts' = dicts
    BY <1>1, <1>6 DEF Take, Drained
  <2>3. /\ Kept(state, state', collected') /\ collected' = collected + m
        /\ state' # None /\ state'.header = state.header /\ state'.of = state.of
        /\ state'.frame_finished = state.frame_finished
    BY <1>2, <2>1, <2>2, DrainedIsCounted DEF Kept, Drained
  <2>4. InFrame /\ InFrame'
    BY <1>3, <1>6, <2>2, <2>3 DEF InFrame
  <2> DEFINE before == Passed(source.cur - 1)
             size == ContentSize(state.header)
             here == Passed(source.cur)
             whole == Passed(Len(source.frames))
  <2>5. /\ before \in Nat /\ here = before + size /\ size \in Nat
        /\ here <= whole /\ here \in Nat /\ whole \in Nat
    <3>1. HeldInOrder(source.frames)
      BY <1>2, FramesHold
    <3>2. /\ source.cur \in 1..Len(source.frames) /\ source.cur - 1 \in 0..Len(source.frames)
          /\ source.cur \in 0..Len(source.frames)
          /\ Len(source.frames) \in 0..Len(source.frames)
      BY <1>2, <1>3
    <3> QED
      BY <1>2, <1>3, <3>1, <3>2 DEF HeldInOrder, Passed
  <2>6. collected + state.buffered <= size /\ collected \in Nat /\ state.buffered \in Nat
    BY <1>2, StateInPlace, ContentIsBound
  <2> HIDE DEF before, size, here, whole
  <2>7. CASE All!TooSmall(m)
    <3>1. /\ call' = Idle /\ call'.op = "idle" /\ Who'.op = "idle" /\ CallOK'
          /\ ret'.op = "all" /\ ret'.result = "TargetTooSmall" /\ vec_len' \in 0..Capacity
          /\ Lengthened
      BY <1>1, <1>2, <1>6, <2>7, AllReturns
    <3>2. ResetOK' /\ call'.op # "from_to"
      BY <3>1 DEF ResetOK, FailedReset
    <3>3. IInv'
      BY <1>2, <1>4, <2>1, <2>2, <3>1, <3>2, TakeKeepsIInv
    <3>4. call.output < whole
      <4>1. call.output = call.room + (before + collected)
        BY <1>3 DEF before
      <4> QED
        BY <1>2, <2>1, <2>5, <2>6, <2>7, <4>1
    <3>5. Answered
      BY <2>5, <3>1, <3>4, <1>2, <1>3 DEF Answered, whole
    <3> QED
      BY <1>2, <2>2, <3>1, <3>3, <3>5 DEF AllKept
  <2>8. CASE ~All!TooSmall(m)
    <3>1. call' = c /\ ret' = ret /\ vec_len' = vec_len
      BY <1>1, <1>6, <2>8
    <3> DEFINE room == call.room - m
               total == call.total + m
               at == IF IsFinished THEN "init" ELSE "decode"
    <3>2. room \in Nat /\ total \in Nat /\ room + total = call.room + call.total
          /\ at \in {"init", "decode"}
      BY <1>2, <2>1, SMTT(40)
    <3>3. c = [call EXCEPT !.at = at, !.room = room, !.total = total]
      BY DEF c
    <3> HIDE DEF room, total, at
    <3>4. /\ c \in AllCalls /\ c.op = "all" /\ c.at = at /\ c.room = room /\ c.total = total
          /\ c.output = call.output /\ c.len = call.len /\ c.vec = call.vec
      BY <1>1, <1>2, <3>2, <3>3 DEF AllCalls
    <3>5. CallOK' /\ ResetOK' /\ call'.op # "from_to"
      BY <1>2, <3>1, <3>2, <3>4 DEF CallOK, ResetOK, FailedReset
    <3>6. IInv'
      BY <1>2, <1>4, <2>1, <2>2, <3>5, TakeKeepsIInv
    <3>7. total = before + collected'
      <4>1. total = (before + collected) + m
        BY <1>3 DEF total, before
      <4> QED
        BY <2>1, <2>3, <2>5, <2>6, <4>1
    <3>8. ASSUME IsFinished PROVE Goes(c)
      <4>1. /\ collected + state.buffered = size
            /\ state.bytes_read_counter = FrameSize(state.header)
        BY <1>2, <3>8, FinishedIsWhole DEF size
      <4>2. total = here
        BY <2>1, <2>3, <2>5, <2>6, <2>8, <3>7, <3>8, <4>1
      <4>3. source.pos = FrameStart(source.frames, source.cur + 1)
        BY <1>2, <1>4, <2>4, <4>1, FrameEnds
      <4>4. at = "init"
        BY <3>8 DEF at
      <4> QED
        BY <1>2, <1>3, <2>2, <3>1, <3>2, <3>4, <4>2, <4>3, <4>4 DEF Goes, Consistent, here
    <3>9. ASSUME ~IsFinished PROVE Goes(c)
      <4>1. ~state'.frame_finished
        BY <1>3, <2>3, <2>4, <3>9 DEF EndOK
      <4> QED
        BY <1>2, <1>3, <2>2, <2>3, <2>4, <3>1, <3>2, <3>4, <3>7, <3>9, <4>1
        DEF Goes, Consistent, before, at
    <3>10. Who' = c /\ Who'.op = "all"
      BY <3>1, <3>4 DEF Who
    <3>11. Consistent(Who)'
      BY <2>2, <3>8, <3>9, <3>10, CallGoesOn
    <3>12. Answered
      BY <1>2, <3>1 DEF Answered
    <3> QED
      BY <1>2, <2>2, <3>1, <3>6, <3>10, <3>11, <3>12 DEF AllKept
  <2> QED
    BY <2>7, <2>8
<1> QED
  BY <1>5, <1>6

\* A call of decode_all starts with nothing put out.
LEMMA DecodeAllKeeps ==
    ASSUME InterfaceInv, interface = "all", NEW room \in Nat, NEW vec \in BOOLEAN,
           All!DecodeAll(room, vec), vec => room = Capacity - vec_len
    PROVE  AllKept
<1>1. IInv /\ RolesOK /\ AllOK
  BY DEF InterfaceInv
<1> DEFINE c == [op |-> "all", at |-> "init", vec |-> vec, len |-> vec_len,
                 output |-> room, room |-> room, total |-> 0]
<1>2. /\ call = Idle /\ source.usable /\ source.pos = 0 /\ call' = c
      /\ vec_len' \in {vec_len, Capacity} /\ ret' = Ok("called", 0)
      /\ UNCHANGED <<source, state, dicts, collected>>
  <2>1. All!Idle = Idle /\ All!Ok("called", 0) = Ok("called", 0)
    BY AllOwn, Zenon
  <2> QED
    BY <2>1 DEF All!DecodeAll
<1>3. vec_len \in 0..Capacity /\ vec_len \in Nat /\ vec_len' \in 0..Capacity
  BY <1>1, <1>2, OutputsAssumption DEF RolesOK
<1>4. /\ c \in AllCalls /\ c.op = "all" /\ c.at = "init" /\ c.output = c.room + c.total
      /\ c.total = 0 /\ c.len <= Capacity /\ (c.vec => c.len + c.output <= Capacity)
  <2>1. c \in AllCalls /\ c.op = "all" /\ c.at = "init" /\ c.total = 0
    BY <1>3 DEF AllCalls
  <2>2. c.output = room /\ c.room = room /\ c.len = vec_len /\ c.vec = vec
    OBVIOUS
  <2> HIDE DEF c
  <2> QED
    BY <1>3, <2>1, <2>2, OutputsAssumption
<1> HIDE DEF c
<1>5. ret'.op = "called" /\ ret'.result = "ok" /\ call.op = "idle"
  BY <1>2 DEF Ok, Idle
<1>6. CallOK' /\ ResetOK'
  BY <1>2, <1>4, <1>5 DEF CallOK, ResetOK, FailedReset
<1>7. IInv'
  BY <1>1, <1>2, <1>5, <1>6, CallsKeepIInv
<1>8. source.cur = 0 /\ source.frames \in Inputs
  BY <1>1, <1>2 DEF AllOK, IInv, SourceOK, SourceForms
<1>9. Passed(0) = 0 /\ FrameStart(source.frames, 0 + 1) = 0
  BY <1>8, FramesHold, FramesInOrder DEF Passed, HeldInOrder, InOrder
<1>10. Who' = c /\ Who'.op = "all"
  BY <1>2, <1>4 DEF Who
<1>11. Goes(c)
  BY <1>2, <1>4, <1>5, <1>8, <1>9 DEF Goes
<1>12. Consistent(Who)'
  BY <1>2, <1>10, <1>11, CallGoesOn
<1> QED
  BY <1>2, <1>3, <1>5, <1>7, <1>8, <1>10, <1>12 DEF AllKept, Answered

\* Another input.
LEMMA OtherInputKeeps ==
    ASSUME InterfaceInv, interface = "all", Sources, vec_len' = vec_len
    PROVE  AllKept
<1>1. IInv /\ RolesOK
  BY DEF InterfaceInv
<1>2. call = Idle /\ call' = call /\ ret' = Ok("open", 0) /\ source'.cur = 0
  BY DEF Sources, Open, Opened
<1>3. call.op = "idle" /\ Who'.op = "idle" /\ ret'.op = "open"
  BY <1>2 DEF Idle, Who, Ok
<1> QED
  BY <1>1, <1>2, <1>3, SourcesKeepIInv DEF AllKept, Answered, RolesOK

\* The steps of a decoder behind decode_all.
LEMMA AllStepKeeps ==
    ASSUME InterfaceInv, interface = "all", All!AllNext
    PROVE  AllKept
<1>1. Capacity - vec_len \in Nat /\ \A room \in Outputs : room \in Nat
  BY OutputsAssumption DEF InterfaceInv, RolesOK
<1>2. (All!BlockStep <=> BlockStep) /\ (All!Sources <=> Sources)
  BY AllOwn, Zenon
<1>3. CASE All!InputEmpty \/ All!NextInit \/ All!Skip \/ All!Decode \/ All!Drain
  BY <1>3, InputEmptyKeeps, NextInitKeeps, SkipKeeps, DecodeKeeps, DrainKeeps
<1>4. CASE BlockStep /\ vec_len' = vec_len
  BY <1>4, AllRoundKeeps
<1>5. CASE \E room \in Outputs : All!DecodeAll(room, FALSE)
  BY <1>1, <1>5, DecodeAllKeeps
<1>6. CASE All!DecodeAll(Capacity - vec_len, TRUE)
  BY <1>1, <1>6, DecodeAllKeeps
<1>7. CASE Sources /\ vec_len' = vec_len
  BY <1>7, OtherInputKeeps
<1> QED
  BY <1>2, <1>3, <1>4, <1>5, <1>6, <1>7 DEF All!AllNext, All!Library

\* Whether a frame has ended is known on the way.
LEMMA AllKeepsEnd ==
    ASSUME InterfaceInv, interface = "all", All!AllNext, interface' = interface
    PROVE  EndOK'
<1>1. IInv /\ EndOK /\ RolesOK
  BY DEF InterfaceInv
<1>2. /\ All!BlockStep <=> BlockStep
      /\ All!Sources <=> Sources
      /\ \A s, c : All!DecodeBlocks(s, c) <=> DecodeBlocks(s, c)
      /\ \A n : All!Take(n) <=> Take(n)
      /\ All!AtFrame <=> AtFrame
      /\ All!NextFrame = NextFrame /\ All!ResetResult(NextFrame) = ResetResult(NextFrame)
      /\ \A f, e : All!ResetTo(f, e) <=> ResetTo(f, e)
      /\ \A n : All!Spent(source) = Spent(source) /\ All!Advanced(source, n) = Advanced(source, n)
  BY AllOwn, Zenon
<1>3. CASE All!InputEmpty
  BY <1>1, <1>3, StateKeepsEnd DEF All!InputEmpty, InFrame
<1>4. CASE All!NextInit
  <2>1. call'.op # "from_to"
    BY <1>1, <1>4, AllStepKeeps DEF AllKept, Who
  <2>2. AtFrame /\ ResetTo(NextFrame, ResetResult(NextFrame))
    BY <1>2, <1>4, Zenon DEF All!NextInit
  <2>3. Renewed(NextFrame, ResetResult(NextFrame))
    BY <1>1, <2>1, <2>2, ResetRenews
  <2> QED
    BY <2>3, RenewedKeepsEnd
<1>5. CASE All!Skip
  <2>1. /\ call.op = "all" /\ call.at = "skip" /\ state' = state
        /\ \/ source' = Spent(source)
           \/ \E n : source' = Advanced(source, n)
    BY <1>2, <1>5 DEF All!Skip, All!At
  <2>2. ~InFrame /\ source \in SourceForms
    BY <2>1, AllCall
  <2>3. InFrame' => InFrame
    BY <2>1, <2>2 DEF InFrame, Spent, Advanced, SourceForms
  <2> QED
    BY <1>1, <2>1, <2>3, StateKeepsEnd
<1>6. CASE All!Decode
  BY <1>1, <1>2, <1>6, StateKeepsEnd DEF All!Decode, DecodeBlocks, InFrame
<1>7. CASE All!Drain
  <2>1. call.op = "all" /\ call.at = "drain" /\ state # None
    BY <1>7, AllCall DEF All!Drain, All!At
  <2>2. source' = source /\ (state' = state \/ \E n : Drained(n))
    BY <1>2, <1>7 DEF All!Drain, Take, Drained
  <2>3. state' = state \/ state'.of = state.of
    BY <1>1, <2>1, <2>2, StateInPlace DEF Drained, States
  <2>4. InFrame' => InFrame
    BY <2>1, <2>2, <2>3 DEF InFrame
  <2> QED
    BY <1>1, <2>2, <2>4, StateKeepsEnd
<1>8. CASE BlockStep
  BY <1>1, <1>8, RoundKeepsEnd
<1>9. CASE (\E room \in Outputs : All!DecodeAll(room, FALSE)) \/ All!DecodeAll(Capacity - vec_len, TRUE)
  BY <1>1, <1>9, StateKeepsEnd DEF All!DecodeAll, InFrame
<1>10. CASE Sources
  BY <1>1, <1>10, SourcesLeaveFrame DEF EndOK
<1> QED
  BY <1>2, <1>3, <1>4, <1>5, <1>6, <1>7, <1>8, <1>9, <1>10 DEF All!AllNext, All!Library

\* So the invariant holds of the interface, too.
LEMMA AllKeepsInv ==
    ASSUME InterfaceInv, interface = "all", All!AllNext, UNCHANGED <<offered, interface>>
    PROVE  InterfaceInv'
<1>1. AllKept /\ interface' = "all"
  BY AllStepKeeps
<1>2. EndOK'
  BY AllKeepsEnd
<1> QED
  BY <1>1, <1>2 DEF InterfaceInv, AllKept, RolesOK, StreamOK, SlicesOK, AllOK

-----------------------------------------------------------------------------
(* The interfaces together.                                                *)

\* The decoder's own operations.
LEMMA DirectKeepsInv ==
    ASSUME InterfaceInv, interface = "direct", Next, UNCHANGED <<offered, vec_len, interface>>
    PROVE  InterfaceInv'
<1>1. /\ IInv /\ EndOK /\ Who.op = "idle" /\ vec_len \in 0..Capacity
      /\ ret.op # "stream" /\ ret.op # "all"
  BY DEF InterfaceInv, RolesOK
<1>2. IInv'
  BY <1>1, NextKeepsIInv
<1>3. Idle.op = "idle"
  BY DEF Idle
<1>4. SUFFICES Who'.op = "idle" /\ ret'.op # "stream" /\ ret'.op # "all" /\ EndOK'
  BY <1>1, <1>2 DEF InterfaceInv, RolesOK, StreamOK, SlicesOK, AllOK
<1>5. CASE BlockStep
  <2>1. /\ call.op = "decode_blocks"
        /\ \/ call' = call.caller /\ ret'.op = "decode_blocks"
           \/ call' = call /\ ret' = ret
    BY <1>1, <1>5, BlockStepDoes
  <2>2. Who = call.caller
    BY <2>1 DEF Who
  <2> QED
    BY <1>1, <1>5, <2>1, <2>2, RoundKeepsEnd DEF Who
<1>6. CASE NotYetInitialized \/ \E strat \in Strategies : call = Idle /\ DecodeBlocks(strat, Idle)
  <2>1. Who'.op = "idle" /\ ret'.op # "stream" /\ ret'.op # "all"
    BY <1>1, <1>3, <1>6 DEF DecodeBlocks, NotYetInitialized, Err, Who
  <2> QED
    BY <1>1, <1>6, <2>1, StateKeepsEnd DEF DecodeBlocks, NotYetInitialized, InFrame
<1>7. CASE Reset
  <2>1. AtFrame /\ ResetTo(NextFrame, ResetResult(NextFrame)) /\ call'.op # "from_to"
    BY <1>3, <1>7 DEF Reset
  <2>2. Renewed(NextFrame, ResetResult(NextFrame))
    BY <1>1, <2>1, ResetRenews
  <2> QED
    BY <1>1, <1>3, <1>7, <2>2, RenewedKeepsEnd DEF Reset, Who
<1>8. CASE Sources
  BY <1>1, <1>3, <1>8, SourcesLeaveFrame DEF Sources, Open, Ok, Who, EndOK
<1>9. CASE SkipFrame
  <2>1. source \in SourceForms /\ ~InFrame
    BY <1>1, <1>9 DEF SkipFrame, IInv, SourceOK, ResetOK
  <2>2. state' = state /\ (InFrame' => InFrame)
    BY <1>9, <2>1 DEF SkipFrame, InFrame, Spent, Advanced, SourceForms
  <2> QED
    BY <1>1, <1>3, <1>9, <2>2, StateKeepsEnd DEF SkipFrame, Ok, Who
<1>10. CASE \E d \in Dicts : AddDict(d) \/ ForceDict(d)
  <2>1. /\ Who'.op = "idle" /\ ret'.op # "stream" /\ ret'.op # "all" /\ source' = source
        /\ state' = state \/ (state # None /\ \E d : state' = [state EXCEPT !.using_dict = d])
    BY <1>1, <1>3, <1>10 DEF AddDict, ForceDict, Ok, Who
  <2>2. InFrame' => InFrame
    BY <1>1, <2>1, StateInPlace DEF InFrame, States
  <2> QED
    BY <1>1, <2>1, <2>2, StateKeepsEnd
<1>11. CASE Collect \/ CollectToWriter \/ \E n \in ReadSizes : Read(n)
  <2>1. /\ Who'.op = "idle" /\ ret'.op # "stream" /\ ret'.op # "all"
        /\ state # None /\ source' = source /\ \E m : Drained(m)
    BY <1>1, <1>3, <1>11 DEF Collect, CollectToWriter, Read, Take, Drained, Ok, Who
  <2>2. InFrame' => InFrame
    BY <1>1, <2>1, StateInPlace DEF InFrame, Drained, States
  <2> QED
    BY <1>1, <2>1, <2>2, StateKeepsEnd
<1> QED
  BY <1>5, <1>6, <1>7, <1>8, <1>9, <1>10, <1>11 DEF Next

\* A step that changes nothing.
LEMMA NothingKeepsInv ==
    ASSUME InterfaceInv, UNCHANGED allVars
    PROVE  InterfaceInv'
<1>1. UNCHANGED <<source, state, dicts, call, ret, collected>>
      /\ UNCHANGED <<offered, vec_len, interface>>
  BY DEF allVars
<1>2. IInv'
  BY <1>1, NextKeepsIInv DEF InterfaceInv, vars
<1>3. Who' = Who /\ (InFrame' <=> InFrame)
  BY <1>1 DEF Who, InFrame
<1>4. RolesOK'
  BY <1>1, <1>3 DEF InterfaceInv, RolesOK
<1>5. StreamOK'
  <2>1. MemoryIsBounded => MemoryIsBounded'
    BY <1>1 DEF MemoryIsBounded, Stream!MemoryIsBounded
  <2> QED
    BY <1>1, <2>1 DEF InterfaceInv, StreamOK
<1>6. SlicesOK'
  BY <1>1 DEF InterfaceInv, SlicesOK
<1>7. EndOK'
  BY <1>1, StateKeepsEnd DEF InterfaceInv, InFrame
<1>8. AllOK'
  <2>1. ASSUME Who.op = "all", Consistent(Who) PROVE Consistent(Who)'
    <3> DEFINE c == Who
    <3>1. Consistent(c) /\ Who' = c
      BY <1>3, <2>1
    <3> HIDE DEF c
    <3>2. Goes(c)
      BY <1>1, <1>3, <3>1 DEF Goes, Consistent
    <3> QED
      BY <1>1, <3>1, <3>2, CallGoesOn
  <2> QED
    BY <1>1, <1>3, <2>1 DEF InterfaceInv, AllOK
<1> QED
  BY <1>2, <1>4, <1>5, <1>6, <1>7, <1>8 DEF InterfaceInv

\* The invariant holds before the first call.
LEMMA InterfaceInitKeeps == InterfaceInit => InterfaceInv
<1> SUFFICES ASSUME InterfaceInit PROVE InterfaceInv
  OBVIOUS
<1>1. /\ interface \in {"direct", "read", "from_to", "all"} /\ Init
      /\ interface = "all" => vec_len \in {Capacity - n : n \in Outputs}
      /\ interface # "all" => vec_len = Capacity
  <2>1. FromTo!Init <=> Init
    BY FromToOwn, Zenon
  <2> QED
    BY <2>1 DEF InterfaceInit, FromTo!FtInit, All!AllInit
<1>2. IInv
  BY <1>1, InitKeepsIInv
<1>3. vec_len \in 0..Capacity
  BY <1>1, OutputsAssumption
<1>4. call = Idle /\ ret = Ok("new", 0) /\ state = None
  BY <1>1 DEF Init
<1>5. Who.op = "idle" /\ call.op = "idle" /\ ret.op = "new" /\ ret.result = "ok"
  BY <1>4 DEF Who, Idle, Ok
<1>6. source.pos = 0 /\ source.usable => source.cur = 0
  BY <1>1 DEF Init, Opened
<1> QED
  BY <1>1, <1>2, <1>3, <1>4, <1>5, <1>6
  DEF InterfaceInv, RolesOK, StreamOK, SlicesOK, AllOK, EndOK, InFrame, MemoryIsBounded,
      Stream!MemoryIsBounded

\* Every step keeps it.
LEMMA InterfaceNextKeeps == InterfaceInv /\ [InterfaceNext]_allVars => InterfaceInv'
<1> SUFFICES ASSUME InterfaceInv, [InterfaceNext]_allVars PROVE InterfaceInv'
  OBVIOUS
<1>1. CASE interface = "direct" /\ Next /\ UNCHANGED <<offered, vec_len, interface>>
  BY <1>1, DirectKeepsInv
<1>2. CASE interface = "read" /\ Stream!StreamNext /\ UNCHANGED <<offered, vec_len, interface>>
  BY <1>2, ReadKeepsInv
<1>3. CASE interface = "from_to" /\ FromTo!CarefulNext /\ UNCHANGED <<vec_len, interface>>
  BY <1>3, SliceKeepsInv, CarefulCallsKeepInv DEF FromTo!CarefulNext
<1>4. CASE interface = "all" /\ All!AllNext /\ UNCHANGED <<offered, interface>>
  BY <1>4, AllKeepsInv
<1>5. CASE UNCHANGED allVars
  BY <1>5, NothingKeepsInv
<1> QED
  BY <1>1, <1>2, <1>3, <1>4, <1>5 DEF InterfaceNext

\* A call of decode_all is answered by decode_all.
LEMMA OnlyAllAnswers ==
    ASSUME InterfaceInv, InterfaceNext, call.op = "all", ret'.op = "all"
    PROVE  Answered
<1>1. call \in AllCalls /\ interface = "all"
  <2>1. Who = call
    BY DEF Who
  <2>2. interface = "all"
    BY <2>1 DEF InterfaceInv, RolesOK
  <2> QED
    BY <2>2, AllCall
<1>2. All!AllNext
  BY <1>1 DEF InterfaceNext
<1> QED
  BY <1>1, <1>2, AllStepKeeps DEF AllKept

\* Only a reset answers as one, and what follows a failed reset leaves its answer
\* or the state.
LEMMA OthersLeaveResets ==
    ASSUME InterfaceInv, InterfaceNext, FailedReset(ret')
    PROVE  Reset \/ (state' = state /\ collected' = collected)
<1>1. IInv /\ RolesOK /\ SlicesOK
  BY DEF InterfaceInv
<1>2. FailedReset(ret) => ~InFrame
  BY <1>1 DEF IInv, ResetOK
<1>3. ret'.op = "reset" /\ (ret' = ret => FailedReset(ret))
  BY DEF FailedReset
<1>4. ASSUME BlockStep PROVE FALSE
  BY <1>1, <1>4, RoundIsNoReset
<1>5. CASE interface = "direct" /\ Next
  BY <1>1, <1>5, NextLeavesResets
<1>6. CASE interface = "read" /\ Stream!StreamNext
  <2>1. /\ Stream!Reset <=> Reset
        /\ Stream!BlockStep <=> BlockStep
        /\ \A s, c : Stream!DecodeBlocks(s, c) <=> DecodeBlocks(s, c)
        /\ \A op, x : Stream!Err(op, x) = Err(op, x)
        /\ \A op, x : Stream!Ok(op, x) = Ok(op, x)
    BY StreamOwn, Zenon
  <2>2. CASE Stream!New
    BY <2>1, <2>2 DEF Stream!New
  <2>3. CASE \E n \in ReadSizes : Stream!StreamRead(n)
    BY <2>3 DEF Stream!StreamRead
  <2>4. CASE Stream!DecodeMore
    BY <2>1, <2>4 DEF Stream!DecodeMore, DecodeBlocks
  <2>5. CASE Stream!StreamFails
    BY <2>5 DEF Stream!StreamFails
  <2>6. CASE Stream!StreamReturns
    BY <1>3, <2>1, <2>6 DEF Stream!StreamReturns, Ok
  <2> QED
    BY <1>4, <1>6, <2>1, <2>2, <2>3, <2>4, <2>5, <2>6
    DEF Stream!StreamNext, Stream!Library, Stream!Reader
<1>7. CASE interface = "from_to" /\ FromTo!CarefulNext
  <2>1. /\ FromTo!Reset <=> Reset
        /\ \A op, x : FromTo!Err(op, x) = Err(op, x)
        /\ \A op, x : FromTo!Ok(op, x) = Ok(op, x)
    BY FromToOwn, Zenon
  <2>2. CASE FromTo!Library
    <3>1. call.op = "from_to"
      BY <2>2 DEF FromTo!Library, FromTo!InLoop, FromTo!BlockFails, FromTo!BlockDecoded,
                  FromTo!LastBlockDecoded, FromTo!Returns
    <3>2. InFrame
      BY <1>1, <3>1, SliceCall
    <3>3. ret' = ret \/ ret'.op = "from_to"
      <4>1. \A e : FromTo!Reject(e) => ret'.op = "from_to"
        BY <2>1 DEF FromTo!Reject, Err
      <4>2. CASE FromTo!BlockFails
        BY <4>1, <4>2 DEF FromTo!BlockFails
      <4>3. CASE FromTo!BlockDecoded \/ FromTo!LastBlockDecoded
        BY <4>3 DEF FromTo!BlockDecoded, FromTo!LastBlockDecoded
      <4>4. CASE FromTo!Returns
        BY <2>1, <4>4 DEF FromTo!Returns, Ok
      <4> QED
        BY <2>2, <4>2, <4>3, <4>4 DEF FromTo!Library
    <3> QED
      BY <1>2, <1>3, <3>2, <3>3
  <2>3. CASE FromTo!NextFrameReset
    BY <2>1, <2>3 DEF FromTo!NextFrameReset
  <2>4. ASSUME NEW end, NEW room, FromTo!CallInit(end, room) PROVE FALSE
    <3>1. state = None /\ (ret' = ret \/ ret'.op = "from_to")
      BY <2>1, <2>4 DEF FromTo!CallInit, FromTo!Reject, Err
    <3> QED
      BY <1>1, <1>3, <1>7, <3>1 DEF SlicesOK
  <2>5. ASSUME NEW end, FromTo!CallChecksum(end) PROVE FALSE
    BY <1>3, <2>1, <2>5 DEF FromTo!CallChecksum, Ok
  <2>6. ASSUME NEW end, NEW room, FromTo!Call(end, room) PROVE state' = state /\ collected' = collected
    BY <2>6 DEF FromTo!Call
  <2>7. CASE FromTo!CarefulCalls /\ ~FromTo!NextFrameReset
    <3>1. PICK end \in 0..source.end : FromTo!CarefulCaller(end)
      BY <2>7 DEF FromTo!CarefulCalls
    <3>2. PICK room : FromTo!CallInit(end, room) \/ FromTo!Call(end, room)
      BY <2>5, <3>1 DEF FromTo!CarefulCaller, FromTo!Caller
    <3> QED
      BY <2>4, <2>6, <3>2
  <2> QED
    BY <1>7, <2>2, <2>3, <2>7 DEF FromTo!CarefulNext
<1>8. CASE interface = "all" /\ All!AllNext
  <2>1. (All!BlockStep <=> BlockStep) /\ (All!Sources <=> Sources)
        /\ \A strat, c : All!DecodeBlocks(strat, c) <=> DecodeBlocks(strat, c)
    BY AllOwn, Zenon
  <2>2. CASE call.op = "all"
    <3>1. ret.op # "reset" /\ call.op # "idle" /\ All!Idle.op = "idle"
      BY <1>8, <2>2, AllCall, AllOwn DEF Idle
    <3>2. call.op # "decode_blocks" /\ ~Sources
      BY <2>2 DEF Sources, Open, Idle
    <3>3. ret' = ret \/ ret'.op = "all"
      BY <1>4, <1>8, <2>1, <3>1, <3>2
      DEF All!AllNext, All!Library, All!InputEmpty, All!NextInit, All!Skip, All!Decode, All!Drain,
          All!DecodeAll, All!Finish, DecodeBlocks
    <3> QED
      BY <1>3, <3>1, <3>3
  <2>3. CASE call.op # "all"
    <3>1. \/ \E room \in Outputs : All!DecodeAll(room, FALSE)
          \/ All!DecodeAll(Capacity - vec_len, TRUE)
          \/ Sources
      BY <1>4, <1>8, <2>1, <2>3
      DEF All!AllNext, All!Library, All!InputEmpty, All!NextInit, All!Skip, All!Decode, All!Drain, All!At
    <3> QED
      BY <3>1 DEF All!DecodeAll, Sources, Open
  <2> QED
    BY <2>2, <2>3
<1> QED
  BY <1>5, <1>6, <1>7, <1>8 DEF InterfaceNext

\* What a read that is short leaves.
LEMMA ShortReads ==
    ASSUME InterfaceInv, InterfaceNext, ret'.op = "stream", ret'.result = "ok",
           call = Idle \/ (call.op = "stream" /\ ret'.n < call.n)
    PROVE  IsFinished' /\ state'.buffered = 0 /\ collected' = ContentSize(state.header)
<1>1. IInv /\ RolesOK
  BY DEF InterfaceInv
<1>2. interface = "read" /\ Stream!StreamNext
  <2>1. InterfaceInv'
    BY InterfaceNextKeeps
  <2>2. interface' = "read" /\ interface' = interface
    BY <2>1 DEF InterfaceInv, RolesOK, InterfaceNext
  <2> QED
    BY <2>2 DEF InterfaceNext
<1>3. /\ Stream!Reset <=> Reset
      /\ Stream!BlockStep <=> BlockStep
      /\ \A s, c : Stream!DecodeBlocks(s, c) <=> DecodeBlocks(s, c)
      /\ \A op, x : Stream!Err(op, x) = Err(op, x)
      /\ \A op, x : Stream!Ok(op, x) = Ok(op, x)
      /\ (Stream!IsFinished <=> IsFinished) /\ Stream!CanCollect = CanCollect
      /\ Stream!Readable = Readable /\ \A m, n : Stream!Smaller(m, n) = Smaller(m, n)
      /\ \A n : Stream!Take(n) <=> Take(n)
  BY StreamOwn, Zenon
<1>4. call.op # "decode_blocks" /\ Idle.op = "idle"
  BY DEF Idle
<1>5. CASE Stream!New
  BY <1>3, <1>5 DEF Stream!New, Reset
<1>6. CASE Stream!BlockStep
  BY <1>3, <1>4, <1>6 DEF BlockStep
<1>7. CASE Stream!DecodeMore
  <2>1. ret' = ret /\ call.op = "stream"
    BY <1>3, <1>7 DEF Stream!DecodeMore, DecodeBlocks
  <2> QED
    BY <1>1, <1>4, <2>1 DEF RolesOK
<1>8. CASE Stream!StreamFails
  BY <1>3, <1>8 DEF Stream!StreamFails, Err
<1>9. CASE \E n \in ReadSizes : Stream!StreamRead(n)
  <2>1. PICK n \in ReadSizes : Stream!StreamRead(n)
    BY <1>9
  <2>2. /\ state # None /\ UNCHANGED <<source, state, dicts, collected>>
        /\ IsFinished /\ CanCollect = 0
    BY <1>3, <2>1 DEF Stream!StreamRead, Stream!Usable, Ok
  <2>3. collected + 0 = ContentSize(state.header) /\ state.buffered = 0 /\ collected \in Nat
    BY <1>1, <2>2, FinishedIsWhole, StateInPlace
  <2>4. IsFinished'
    BY <2>2 DEF IsFinished
  <2> QED
    BY <2>2, <2>3, <2>4
<1>10. CASE Stream!StreamReturns
  <2> DEFINE m == Smaller(call.n, Readable)
  <2>1. /\ call.op = "stream" /\ Take(m) /\ ret'.n = m
        /\ CanCollect >= call.n \/ IsFinished
    <3>1. /\ call.op = "stream" /\ Take(m) /\ ret' = Ok("stream", m)
          /\ ~(CanCollect < call.n /\ ~IsFinished)
      <4> HIDE DEF m
      <4>1. Stream!Smaller(call.n, Stream!Readable) = m
        BY <1>3 DEF m
      <4> QED
        BY <1>3, <1>10, <4>1 DEF Stream!StreamReturns, Stream!NeedsMore
    <3>2. call \in StreamCalls /\ state # None
      BY <1>1, <3>1 DEF IInv, CallOK, Idle, SliceCalls, AllCalls
    <3>3. call.n \in Nat /\ CanCollect \in 0..state.buffered /\ state.buffered \in Nat
      BY <1>1, <3>2, ReadSizesAssumption, StateInPlace DEF StreamCalls
    <3> QED
      BY <3>1, <3>3 DEF Ok
  <2>2. call \in StreamCalls /\ state # None
    BY <1>1, <2>1 DEF IInv, CallOK, Idle, SliceCalls, AllCalls
  <2>3. /\ call.n \in Nat /\ CanCollect \in 0..state.buffered /\ Readable \in 0..state.buffered
        /\ state.buffered \in Nat /\ collected \in Nat
    BY <1>1, <2>2, ReadSizesAssumption, StateInPlace DEF StreamCalls
  <2>4. m = Readable /\ Readable < call.n /\ m \in 0..state.buffered
    BY <1>4, <2>1, <2>3 DEF Smaller
  <2> HIDE DEF m
  <2>5. Drained(m)
    BY <2>1 DEF Take, Drained
  <2>6. IsFinished
    <3> SUFFICES ASSUME ~IsFinished PROVE FALSE
      OBVIOUS
    <3>1. CanCollect = CanDrainToWindowSize /\ CanCollect >= call.n
      BY <2>1, <2>2 DEF CanCollect
    <3>2. Readable = state.buffered \/ Readable = CanDrainToWindowSize
      BY DEF Readable
    <3> QED
      BY <2>3, <2>4, <3>1, <3>2
  <2>7. /\ collected + CanCollect = ContentSize(state.header) /\ CanCollect = state.buffered
        /\ state.frame_finished
    BY <1>1, <2>2, <2>6, FinishedIsWhole
  <2>8. m = state.buffered
    BY <2>4, <2>7 DEF Readable
  <2>9. /\ state'.buffered = state.buffered - m /\ collected' = collected + m
        /\ state'.frame_finished = state.frame_finished /\ state'.check_sum = state.check_sum
        /\ state' # None /\ state'.header = state.header
    BY <1>1, <2>2, <2>4, <2>5, DrainedIsCounted DEF Kept, Drained
  <2>10. IsFinished'
    BY <2>2, <2>6, <2>9 DEF IsFinished
  <2> QED
    BY <2>3, <2>7, <2>8, <2>9, <2>10
<1> QED
  BY <1>2, <1>5, <1>6, <1>7, <1>8, <1>9, <1>10
  DEF Stream!StreamNext, Stream!Library, Stream!Reader

-----------------------------------------------------------------------------
(* The theorems.                                                           *)

\* The counters of a decoder agree with the place in its source and with the
\* frame it decodes, whatever calls were made and whatever they answered.
THEOREM CountersAgree == Spec => []IInv
<1>1. Init => IInv
  BY InitKeepsIInv
<1>2. IInv /\ [Next]_vars => IInv'
  BY NextKeepsIInv
<1> QED
  BY <1>1, <1>2, PTL DEF Spec

\* Whichever interface a decoder is used through, its invariant and what the
\* interface adds to it hold.
THEOREM InterfacesKeepTheirPart == InterfaceSpec => []InterfaceInv
<1>1. InterfaceInit => InterfaceInv
  BY InterfaceInitKeeps
<1>2. InterfaceInv /\ [InterfaceNext]_allVars => InterfaceInv'
  BY InterfaceNextKeeps
<1> QED
  BY <1>1, <1>2, PTL DEF InterfaceSpec

\* The type invariant: no counter leaves its frame, no position its source.
THEOREM DecoderTypes == (Spec => []TypeOK) /\ (InterfaceSpec => []TypeOK)
<1>1. InterfaceInv => IInv
  BY DEF InterfaceInv
<1> QED
  BY <1>1, CountersStayInside, CountersAgree, InterfacesKeepTheirPart, PTL

\* When is_finished answers yes the whole frame was read and everything it
\* decodes to was given to the caller or can be collected.
THEOREM FinishedMeansWhole ==
    (Spec => []FinishedFrameIsWhole) /\ (InterfaceSpec => []FinishedFrameIsWhole)
<1>1. IInv => FinishedFrameIsWhole
  BY FinishedIsWhole DEF FinishedFrameIsWhole
<1>2. InterfaceInv => IInv
  BY DEF InterfaceInv
<1> QED
  BY <1>1, <1>2, CountersAgree, InterfacesKeepTheirPart, PTL

\* What callers were given and what the buffer holds is the content of the
\* blocks counted, and part of the next one if that one was damaged.
THEOREM NothingOfEarlierFrames ==
    (Spec => []OutputBelongsToFrame) /\ (InterfaceSpec => []OutputBelongsToFrame)
<1>1. InterfaceInv => IInv
  BY DEF InterfaceInv
<1> QED
  BY <1>1, OutputIsOfFrame, CountersAgree, InterfacesKeepTheirPart, PTL

\* A reset that cannot read a header leaves what can be collected, and nobody
\* goes on decoding the frame it failed in.
THEOREM FailedResetsKeepBytes ==
    (Spec => FailedResetKeepsBytes) /\ (InterfaceSpec => FailedResetKeepsBytes)
<1>1. FailedReset(ret') <=> ret'.op = "reset" /\ ret'.result \notin {"ok", "DictNotProvided"}
  BY DEF FailedReset
<1>2. IInv /\ [Next]_vars
         => [ret'.op = "reset" /\ ret'.result \notin {"ok", "DictNotProvided"}
               => CanCollect' = CanCollect /\ collected' = collected]_vars
  BY <1>1, NextLeavesResets, ResetLeavesBytes
<1>3. InterfaceInv /\ [InterfaceNext]_allVars
         => [ret'.op = "reset" /\ ret'.result \notin {"ok", "DictNotProvided"}
               => CanCollect' = CanCollect /\ collected' = collected]_vars
  BY <1>1, OthersLeaveResets, ResetLeavesBytes DEF allVars, vars
<1>4. Spec => FailedResetKeepsBytes
  BY <1>2, CountersAgree, PTL DEF Spec, FailedResetKeepsBytes
<1>5. InterfaceSpec => FailedResetKeepsBytes
  BY <1>3, InterfacesKeepTheirPart, PTL DEF InterfaceSpec, FailedResetKeepsBytes
<1> QED
  BY <1>4, <1>5

\* Between calls the caller's position and the decoder's counter agree.
THEOREM PlaceKept == InterfaceSpec => []PlaceIsKept
<1>1. InterfaceInv => PlaceIsKept
  <2> SUFFICES ASSUME InterfaceInv, call = Idle, InFrame
               PROVE  state.bytes_read_counter = FramePos
    BY DEF PlaceIsKept, CounterIsWhatWasConsumed
  <2>1. call.op # "from_to"
    BY DEF Idle
  <2> QED
    BY <2>1 DEF InterfaceInv, IInv, OnFrame
<1> QED
  BY <1>1, InterfacesKeepTheirPart, PTL

\* A decoder behind io::Read holds less than the window, a slice and a block,
\* however slices and blocks are sized.
THEOREM MemoryBounded == InterfaceSpec => []MemoryIsBounded
<1>1. InterfaceInv => MemoryIsBounded
  BY DEF InterfaceInv, StreamOK, MemoryIsBounded
<1> QED
  BY <1>1, InterfacesKeepTheirPart, PTL

\* Success of decode_all means that the input was a whole number of frames and
\* the output is their content; TargetTooSmall that the content is larger.  A vector
\* grows by just that.
THEOREM AnswersAreTrue == InterfaceSpec => AnswerIsTrue
<1>1. InterfaceInv /\ [InterfaceNext]_allVars
         => [call.op = "all" /\ ret'.op = "all" =>
               /\ call.vec => vec_len' = call.len + (IF ret'.result = "ok" THEN ret'.n ELSE 0)
               /\ ret'.result = "ok" =>
                     \E k \in 0..All!Frames : /\ source.end = All!FrameStart(source.frames, k + 1)
                                              /\ ret'.n = All!Content(source.frames, k)
               /\ ret'.result = "TargetTooSmall"
                     => call.output < All!Content(source.frames, All!Frames)]_(All!allVars)
  <2> SUFFICES ASSUME InterfaceInv, InterfaceNext, call.op = "all", ret'.op = "all"
               PROVE  /\ call.vec => vec_len' = call.len + (IF ret'.result = "ok" THEN ret'.n ELSE 0)
                      /\ ret'.result = "ok" =>
                           \E k \in 0..All!Frames :
                              /\ source.end = All!FrameStart(source.frames, k + 1)
                              /\ ret'.n = All!Content(source.frames, k)
                      /\ ret'.result = "TargetTooSmall"
                           => call.output < All!Content(source.frames, All!Frames)
    BY DEF allVars, All!allVars
  <2>1. Answered
    BY OnlyAllAnswers
  <2>2. \A frames, i : All!FrameStart(frames, i) = FrameStart(frames, i)
    BY AllOwn, Zenon
  <2>3. All!Frames = Len(source.frames)
    BY DEF All!Frames
  <2> QED
    BY <2>1, <2>2, <2>3 DEF Answered, Lengthened, Passed
<1> QED
  BY <1>1, InterfacesKeepTheirPart, PTL DEF InterfaceSpec, AnswerIsTrue, All!AnswerIsTrue

\* Frames that are intact and fit the output are decoded.
THEOREM IntactInputsAreDecoded == InterfaceSpec => IntactInputIsDecoded
<1>1. InterfaceInv /\ [InterfaceNext]_allVars
         => [call.op = "all" /\ ret'.op = "all" /\ All!Intact(source)
                /\ call.output >= All!Content(source.frames, All!Frames)
               => ret'.result = "ok"]_(All!allVars)
  <2> SUFFICES ASSUME InterfaceInv, InterfaceNext, call.op = "all", ret'.op = "all",
                      All!Intact(source), call.output >= All!Content(source.frames, All!Frames)
               PROVE  ret'.result = "ok"
    BY DEF allVars, All!allVars
  <2>1. Answered
    BY OnlyAllAnswers
  <2>2. All!Frames = Len(source.frames)
    BY DEF All!Frames
  <2> QED
    BY <2>1, <2>2 DEF Answered, Passed
<1> QED
  BY <1>1, InterfacesKeepTheirPart, PTL DEF InterfaceSpec, IntactInputIsDecoded, All!IntactInputIsDecoded

\* A read falls short of its slice only at the end of the frame, with nothing
\* left and everything handed out.
THEOREM ShortReadsEndTheFrame == InterfaceSpec => ShortReadOnlyAtEnd
<1>1. InterfaceInv /\ [InterfaceNext]_allVars
         => [ret'.op = "stream" /\ ret'.result = "ok"
               /\ (call = Stream!Idle \/ (call.op = "stream" /\ ret'.n < call.n))
               => /\ (Stream!IsFinished)' /\ state'.buffered = 0
                  /\ collected' = Stream!ContentSize(state.header)]_(Stream!vars)
  <2> SUFFICES ASSUME InterfaceInv, InterfaceNext, ret'.op = "stream", ret'.result = "ok",
                      call = Stream!Idle \/ (call.op = "stream" /\ ret'.n < call.n)
               PROVE  /\ (Stream!IsFinished)' /\ state'.buffered = 0
                      /\ collected' = Stream!ContentSize(state.header)
    BY DEF allVars, Stream!vars
  <2>1. /\ Stream!Idle = Idle /\ \A f : Stream!ContentSize(f) = ContentSize(f)
    BY StreamOwn, Zenon
  <2>2. IsFinished' /\ state'.buffered = 0 /\ collected' = ContentSize(state.header)
    BY <2>1, ShortReads
  <2>3. (Stream!IsFinished)' <=> IsFinished'
    BY DEF Stream!IsFinished, IsFinished
  <2> QED
    BY <2>1, <2>2, <2>3
<1> QED
  BY <1>1, InterfacesKeepTheirPart, PTL DEF InterfaceSpec, ShortReadOnlyAtEnd, Stream!ShortReadOnlyAtEnd
=============================================================================
