--------------------------- MODULE Formats_proofs ---------------------------
(***************************************************************************)
(* What the two formats of the driver guarantee for every input: the audio *)
(* file of a reply (WavFile) and the events of the speech services         *)
(* (WyomingFraming).                                                       *)
(***************************************************************************)
EXTENDS WavFile, WyomingFraming, TLAPS

Rate == Nat \ {0}

LEMMA DivFacts ==
    ASSUME NEW a \in Nat, NEW b \in Rate
    PROVE  /\ a \div b \in Nat
           /\ b * (a \div b) <= a
           /\ a < b * (a \div b) + b
           /\ a % b \in 0..(b - 1)
BY DEF Rate

LEMMA DivBelow ==
    ASSUME NEW a \in Nat, NEW b \in Rate, NEW n \in Nat, a < n * b
    PROVE  a \div b < n
<1> DEFINE q == a \div b
<1>1. q \in Nat /\ b * q <= a
    BY DivFacts
<1> HIDE DEF q
<1>2. SUFFICES ASSUME q >= n PROVE FALSE
    BY <1>1 DEF q
<1>3. b * q >= b * n
    BY <1>1, <1>2 DEF Rate
<1>4. QED
    BY <1>1, <1>3 DEF Rate

LEMMA DivAbove ==
    ASSUME NEW a \in Nat, NEW b \in Rate, NEW n \in Nat, n * b <= a
    PROVE  n <= a \div b
<1> DEFINE q == a \div b
<1>1. q \in Nat /\ a < b * q + b
    BY DivFacts
<1> HIDE DEF q
<1>2. SUFFICES ASSUME q + 1 <= n PROVE FALSE
    BY <1>1 DEF q
<1>3. b * (q + 1) <= b * n
    BY <1>1, <1>2 DEF Rate
<1>4. QED
    BY <1>1, <1>3 DEF Rate

\* A computed quotient is the exact one or, when that is a whole number, one less.
LEMMA QuotientBounds ==
    ASSUME NEW a \in Nat, NEW b \in Rate, NEW q \in Quotients(a, b)
    PROVE  q \in Nat /\ b * q <= a /\ a <= b * q + b
<1>1. PICK c \in {a - 1, a} \cap Nat : q = c \div b
    BY DEF Quotients
<1>2. c \in Nat /\ c <= a /\ a <= c + 1
    BY <1>1
<1>3. q \in Nat /\ b * q <= c /\ c < b * q + b
    BY <1>1, <1>2, DivFacts
<1>4. b * q \in Nat /\ b \in Nat
    BY <1>3 DEF Rate
<1>5. QED
    BY <1>2, <1>3, <1>4

\* Among them is the exact one.
LEMMA QuotientExists ==
    ASSUME NEW a \in Nat, NEW b \in Rate
    PROVE  a \div b \in Quotients(a, b)
BY DEF Quotients

\* However the division is rounded, the number of samples is that of the exact duration or
\* one less (wav.go 113-115).
LEMMA DurationKept ==
    ASSUME NEW n \in Nat, NEW src \in Rate, NEW dst \in Rate,
           NEW new \in NewNumSamples(n, src, dst)
    PROVE  new \in Nat /\ new * src <= n * dst /\ n * dst <= new * src + src
<1>1. n * dst \in Nat
    BY DEF Rate
<1>2. new \in Nat /\ src * new <= n * dst /\ n * dst <= src * new + src
    BY <1>1, QuotientBounds DEF NewNumSamples
<1>3. src * new = new * src
    BY <1>2 DEF Rate
<1>4. QED
    BY <1>2, <1>3

\* The resampling loop never reads behind the samples it was given, however the number of
\* samples and the positions are rounded (wav.go 113-130).
THEOREM ResampleStaysInside ==
    ASSUME NEW n \in Nat, NEW src \in Rate, NEW dst \in Rate,
           NEW new \in NewNumSamples(n, src, dst), NEW i \in 0..(new - 1),
           NEW idx \in SrcIdx(i, src, dst)
    PROVE  idx \in 0..(n - 1) /\ Left(i, idx, src, dst) \in 0..dst
<1>1. new \in Nat /\ new * src <= n * dst
    BY DurationKept
<1>2. i \in Nat /\ i + 1 <= new
    BY <1>1
<1>3. (i + 1) * src <= new * src
    BY <1>1, <1>2 DEF Rate
<1>4. i * src \in Nat /\ i * src < n * dst
    BY <1>1, <1>2, <1>3 DEF Rate
<1>5. idx \in Nat /\ dst * idx <= i * src /\ i * src <= dst * idx + dst
    BY <1>4, QuotientBounds DEF SrcIdx
<1>6. idx < n
  <2> SUFFICES ASSUME idx >= n PROVE FALSE
      BY <1>5
  <2>1. dst * idx >= dst * n /\ dst * n = n * dst
      BY <1>5 DEF Rate
  <2>2. QED
      BY <1>4, <1>5, <2>1 DEF Rate
<1>7. dst * idx = idx * dst /\ idx * dst \in Nat /\ dst \in Nat
    BY <1>5 DEF Rate
<1>8. i * src - idx * dst \in 0..dst
    BY <1>4, <1>5, <1>7
<1>9. QED
    BY <1>5, <1>6, <1>8 DEF Left

\* The rate is never raised in this program, so no sample but the last one is without a
\* next one and no zeros are left at the end of a reply (wav.go 123-126), however the
\* positions are rounded.
THEOREM NoSilentTail ==
    ASSUME NEW n \in Nat, NEW src \in Rate, NEW dst \in Rate, dst <= src,
           NEW new \in NewNumSamples(n, src, dst), NEW i \in 1..(new - 1),
           NEW idx \in SrcIdx(i - 1, src, dst)
    PROVE  idx + 1 < n
<1>1. new \in Nat /\ new * src <= n * dst
    BY DurationKept
<1>2. i \in Nat /\ i - 1 \in Nat /\ i + 1 <= new
    BY <1>1
<1>3. (i - 1) * src \in Nat /\ i * src \in Nat /\ i * src = (i - 1) * src + src
    BY <1>2 DEF Rate
<1>4. idx \in Nat /\ dst * idx <= (i - 1) * src
    BY <1>3, QuotientBounds DEF SrcIdx
<1>5. (idx + 1) * dst <= i * src
  <2>1. (idx + 1) * dst = dst * idx + dst
      BY <1>4 DEF Rate
  <2>2. QED
      BY <2>1, <1>3, <1>4 DEF Rate
<1>6. i * src < n * dst
  <2>1. (i + 1) * src <= new * src /\ (i + 1) * src = i * src + src
      BY <1>1, <1>2 DEF Rate
  <2>2. QED
      BY <1>1, <1>3, <2>1 DEF Rate
<1>7. SUFFICES ASSUME idx + 1 >= n PROVE FALSE
    BY <1>4
<1>8. (idx + 1) * dst >= n * dst
    BY <1>4, <1>7 DEF Rate
<1>9. QED
    BY <1>3, <1>4, <1>5, <1>6, <1>8 DEF Rate

LEMMA TruncateBounds ==
    ASSUME NEW a \in Int, NEW b \in Rate, NEW lo \in Nat, NEW hi \in Nat,
           -(lo * b) - b < a, a < hi * b + b
    PROVE  Truncate(a, b) \in Int /\ -lo <= Truncate(a, b) /\ Truncate(a, b) <= hi
<1>1. CASE a >= 0
    <2>1. a \in Nat /\ a < (hi + 1) * b
        <3>1. (hi + 1) * b = hi * b + b /\ b > 0 /\ hi * b \in Nat
            BY DEF Rate
        <3>2. QED
            BY <1>1, <3>1 DEF Rate
    <2>2. a \div b \in Nat /\ a \div b < hi + 1
        BY <2>1, DivFacts, DivBelow
    <2>3. QED
        BY <1>1, <2>2 DEF Truncate
<1>2. CASE ~(a >= 0)
    <2>1. -a \in Nat /\ -a < (lo + 1) * b
        <3>1. (lo + 1) * b = lo * b + b /\ b > 0 /\ lo * b \in Nat
            BY DEF Rate
        <3>2. QED
            BY <1>2, <3>1 DEF Rate
    <2>2. (-a) \div b \in Nat /\ (-a) \div b < lo + 1
        BY <2>1, DivFacts, DivBelow
    <2>3. QED
        BY <1>2, <2>2 DEF Truncate
<1>3. QED
    BY <1>1, <1>2

\* Between two samples of 16 bits lies one of 16 bits: the conversion to int16 never
\* wraps around, whatever rounding errors that are together less than one do to the sum
\* (wav.go 128-132).
THEOREM InterpolationFits ==
    ASSUME NEW x \in Sample16, NEW y \in Sample16, NEW dst \in Rate, NEW left \in 0..dst,
           NEW k \in Interpolate(x, y, left, dst)
    PROVE  k \in Sample16
<1> DEFINE right == dst - left
           v == x * right + y * left
<1>1. left \in Nat /\ right \in Nat /\ right + left = dst /\ dst \in Nat
    BY DEF Rate
<1>2. x \in Int /\ y \in Int /\ -32768 <= x /\ x <= 32767 /\ -32768 <= y /\ y <= 32767
    <2>1. MinSample \in Int /\ MaxSample \in Int
        BY DEF MinSample, MaxSample
    <2>2. /\ x \in Int /\ MinSample <= x /\ x <= MaxSample
          /\ y \in Int /\ MinSample <= y /\ y <= MaxSample
        BY <2>1 DEF Sample16
    <2>3. QED
        BY <2>2 DEF MinSample, MaxSample
<1>3. PICK s \in (v - dst + 1)..(v + dst - 1) : k = Truncate(s, dst)
    BY DEF Interpolate
<1> HIDE DEF right
<1>4. x * right \in Int /\ -32768 * right <= x * right /\ x * right <= 32767 * right
    BY <1>1, <1>2
<1>5. y * left \in Int /\ -32768 * left <= y * left /\ y * left <= 32767 * left
    BY <1>1, <1>2
<1>6. v \in Int /\ -(32768 * dst) <= v /\ v <= 32767 * dst
    BY <1>1, <1>4, <1>5
<1> HIDE DEF v
<1>7. s \in Int /\ -(32768 * dst) - dst < s /\ s < 32767 * dst + dst
    BY <1>1, <1>3, <1>6
<1>8. Truncate(s, dst) \in Int /\ -32768 <= Truncate(s, dst) /\ Truncate(s, dst) <= 32767
    BY <1>7, TruncateBounds
<1>9. /\ MinSample \in Int /\ MinSample <= Truncate(s, dst)
      /\ MaxSample \in Int /\ Truncate(s, dst) <= MaxSample
    BY <1>8 DEF MinSample, MaxSample
<1>10. QED
    BY <1>3, <1>8, <1>9 DEF Sample16

\* The values a sample of the result may have, as LinearResample says it.
Ends(data, idx, j) == idx[j] + 1 >= Len(data)
Outcomes(data, src, dst, idx, j) ==
    CASE \E k \in 1..(j - 1) : Ends(data, idx, k) -> {0}
      [] (\A k \in 1..(j - 1) : ~Ends(data, idx, k)) /\ Ends(data, idx, j) -> {data[idx[j] + 1]}
      [] \A k \in 1..j : ~Ends(data, idx, k) ->
           Interpolate(data[idx[j] + 1], data[idx[j] + 2], Left(j - 1, idx[j], src, dst), dst)

LEMMA ResampleIs ==
    ASSUME NEW data, NEW src, NEW dst
    PROVE  LinearResample(data, src, dst) =
             {r \in Seq(Int) :
                /\ Len(r) \in NewNumSamples(Len(data), src, dst)
                /\ \E idx \in [DOMAIN r -> 0..Len(data)] : \A j \in DOMAIN r :
                     /\ idx[j] \in SrcIdx(j - 1, src, dst)
                     /\ r[j] \in Outcomes(data, src, dst, idx, j)}
BY DEF LinearResample, Ends, Outcomes

\* Every value of a sample has 16 bits, and there is one.
LEMMA OutcomesFit ==
    ASSUME NEW data \in Seq(Sample16), NEW src \in Rate, NEW dst \in Rate,
           NEW new \in NewNumSamples(Len(data), src, dst),
           NEW idx \in [1..new -> 0..Len(data)],
           \A j \in 1..new : idx[j] \in SrcIdx(j - 1, src, dst),
           NEW j \in 1..new
    PROVE  /\ Outcomes(data, src, dst, idx, j) \subseteq Sample16
           /\ Outcomes(data, src, dst, idx, j) # {}
<1>1. Len(data) \in Nat /\ new \in Nat
    BY DurationKept
<1>2. j - 1 \in 0..(new - 1)
    BY <1>1
<1>3. idx[j] \in 0..(Len(data) - 1) /\ Left(j - 1, idx[j], src, dst) \in 0..dst
    BY <1>1, <1>2, ResampleStaysInside
<1>4. idx[j] + 1 \in 1..Len(data) /\ data[idx[j] + 1] \in Sample16
    BY <1>1, <1>3
<1>5. CASE \E k \in 1..(j - 1) : Ends(data, idx, k)
  <2>1. 0 \in Sample16
      BY DEF Sample16, MinSample, MaxSample
  <2>2. Outcomes(data, src, dst, idx, j) = {0}
    <3>1. ~((\A k \in 1..(j - 1) : ~Ends(data, idx, k)) /\ Ends(data, idx, j))
        BY <1>5
    <3>2. ~(\A k \in 1..j : ~Ends(data, idx, k))
        BY <1>1, <1>5
    <3>3. QED
        BY <1>5, <3>1, <3>2 DEF Outcomes
  <2>3. QED
      BY <2>1, <2>2
<1>6. CASE (\A k \in 1..(j - 1) : ~Ends(data, idx, k)) /\ Ends(data, idx, j)
  <2>1. ~(\A k \in 1..j : ~Ends(data, idx, k)) /\ ~(\E k \in 1..(j - 1) : Ends(data, idx, k))
      BY <1>1, <1>6
  <2>2. Outcomes(data, src, dst, idx, j) = {data[idx[j] + 1]}
      BY <1>6, <2>1 DEF Outcomes
  <2>3. QED
      BY <1>4, <2>2
<1>7. CASE \A k \in 1..j : ~Ends(data, idx, k)
  <2> DEFINE x == data[idx[j] + 1]
             y == data[idx[j] + 2]
             left == Left(j - 1, idx[j], src, dst)
             sum == x * (dst - left) + y * left
  <2>1. ~Ends(data, idx, j) /\ ~(\E k \in 1..(j - 1) : Ends(data, idx, k))
      BY <1>1, <1>7
  <2>2. Outcomes(data, src, dst, idx, j) = Interpolate(x, y, left, dst)
      BY <1>7, <2>1 DEF Outcomes
  <2>3. idx[j] + 2 \in 1..Len(data) /\ y \in Sample16
      BY <1>1, <1>3, <2>1 DEF Ends
  <2>4. Sample16 \subseteq Int
      BY DEF Sample16, MinSample, MaxSample
  <2>5. x \in Sample16 /\ y \in Sample16 /\ left \in 0..dst
      BY <1>3, <1>4, <2>3
  <2> HIDE DEF x, y, left
  <2>6. sum \in Int
      BY <2>4, <2>5 DEF Rate
  <2>7. Truncate(sum, dst) \in Interpolate(x, y, left, dst)
    <3> HIDE DEF sum
    <3>1. sum \in (sum - dst + 1)..(sum + dst - 1)
        BY <2>6 DEF Rate
    <3>2. QED
        BY <3>1 DEF Interpolate, sum
  <2>8. QED
      BY <2>2, <2>5, <2>7, InterpolationFits
<1>8. QED
    BY <1>1, <1>5, <1>6, <1>7

\* Whatever is synthesized and however it is rounded, resampling gives samples of 16 bits,
\* as many as were counted.
THEOREM ResampledIsAudio ==
    ASSUME NEW data \in Seq(Sample16), NEW src \in Rate, NEW dst \in Rate,
           NEW r \in LinearResample(data, src, dst)
    PROVE  r \in Seq(Sample16) /\ Len(r) \in NewNumSamples(Len(data), src, dst)
<1>1. r \in Seq(Int) /\ Len(r) \in NewNumSamples(Len(data), src, dst)
    BY ResampleIs
<1>2. DOMAIN r = 1..Len(r) /\ Len(r) \in Nat
    BY <1>1
<1>3. PICK idx \in [1..Len(r) -> 0..Len(data)] : \A j \in 1..Len(r) :
        idx[j] \in SrcIdx(j - 1, src, dst) /\ r[j] \in Outcomes(data, src, dst, idx, j)
    BY <1>2, ResampleIs
<1>4. \A j \in 1..Len(r) : r[j] \in Sample16
    BY <1>1, <1>3, OutcomesFit
<1>5. r = [j \in 1..Len(r) |-> r[j]]
    BY <1>1, <1>2
<1> DEFINE count == Len(r)
           Value(j) == r[j]
<1>6. r = [j \in 1..count |-> Value(j)] /\ count \in Nat
      /\ \A j \in 1..count : Value(j) \in Sample16
    BY <1>2, <1>4, <1>5
<1> HIDE DEF count, Value
<1>7. r \in Seq(Sample16)
  <2>1. [j \in 1..count |-> Value(j)] \in Seq(Sample16)
      BY <1>6
  <2>2. QED
      BY <1>6, <2>1
<1>8. QED
    BY <1>1, <1>7

\* There is an outcome, so the theorems on every one speak of something.
LEMMA ResampleExists ==
    ASSUME NEW data \in Seq(Sample16), NEW src \in Rate, NEW dst \in Rate
    PROVE  LinearResample(data, src, dst) # {}
<1> DEFINE new == (Len(data) * dst) \div src
           idx == [j \in 1..new |-> ((j - 1) * src) \div dst]
           r == [j \in 1..new |-> CHOOSE k \in Outcomes(data, src, dst, idx, j) : TRUE]
<1>1. Len(data) \in Nat /\ Len(data) * dst \in Nat
    BY DEF Rate
<1>2. new \in NewNumSamples(Len(data), src, dst) /\ new \in Nat
    BY <1>1, QuotientExists, DivFacts DEF NewNumSamples
<1> HIDE DEF new
<1>3. ASSUME NEW j \in 1..new
      PROVE  idx[j] \in SrcIdx(j - 1, src, dst) /\ idx[j] \in 0..Len(data)
  <2>1. j - 1 \in 0..(new - 1) /\ (j - 1) * src \in Nat
      BY <1>2 DEF Rate
  <2>2. idx[j] \in SrcIdx(j - 1, src, dst)
      BY <2>1, QuotientExists DEF SrcIdx
  <2> HIDE DEF idx
  <2>3. idx[j] \in 0..(Len(data) - 1)
      BY <1>1, <1>2, <2>1, <2>2, ResampleStaysInside
  <2>4. QED
      BY <1>1, <2>2, <2>3
<1>4. idx \in [1..new -> 0..Len(data)]
    BY <1>3
<1> HIDE DEF idx
<1>5. ASSUME NEW j \in 1..new
      PROVE  r[j] \in Outcomes(data, src, dst, idx, j) /\ r[j] \in Sample16
  <2> DEFINE values == Outcomes(data, src, dst, idx, j)
  <2>1. \A k \in 1..new : idx[k] \in SrcIdx(k - 1, src, dst)
      BY <1>3
  <2>2. values \subseteq Sample16 /\ values # {}
      BY <1>2, <1>4, <2>1, OutcomesFit
  <2>3. r[j] = CHOOSE k \in values : TRUE
      OBVIOUS
  <2> HIDE DEF values, r
  <2>4. r[j] \in values
      BY <2>2, <2>3
  <2>5. QED
      BY <2>2, <2>4 DEF values
<1>6. r \in Seq(Int) /\ Len(r) = new /\ DOMAIN r = 1..new
  <2>1. Sample16 \subseteq Int
      BY DEF Sample16, MinSample, MaxSample
  <2>2. \A j \in 1..new : r[j] \in Int
      BY <1>5, <2>1
  <2>3. QED
      BY <1>2, <2>2
<1> HIDE DEF r
<1>7. r \in LinearResample(data, src, dst)
    BY <1>2, <1>3, <1>4, <1>5, <1>6, ResampleIs
<1>8. QED
    BY <1>7

-----------------------------------------------------------------------------
(* The whole file *)

\* The values of a sample with 16 or 32 bits.
SampleOf(bitDepth) ==
    IF bitDepth = 32 THEN (MinSample * 65536)..(MaxSample * 65536 + 65535) ELSE Sample16

\* Of the first channel there is one sample for each frame, and it is one of the input.
LEMMA FirstChannelStays ==
    ASSUME NEW S, NEW pcm \in Seq(S), NEW channels \in Rate
    PROVE  /\ FirstChannel(pcm, channels) \in Seq(S)
           /\ Len(FirstChannel(pcm, channels)) = Len(pcm) \div channels
<1> DEFINE n == Len(pcm) \div channels
<1>1. Len(pcm) \in Nat
    OBVIOUS
<1>2. n \in Nat /\ channels * n <= Len(pcm)
    BY <1>1, DivFacts
<1>3. ASSUME NEW i \in 1..n PROVE pcm[(i - 1) * channels + 1] \in S
    <2> HIDE DEF n
    <2>1. i \in Nat /\ i - 1 \in Nat /\ i <= n
        BY <1>2
    <2>2. channels * i <= channels * n
        BY <1>2, <2>1 DEF Rate
    <2>3. (i - 1) * channels + channels = channels * i /\ channels >= 1
        BY <2>1 DEF Rate
    <2>4. (i - 1) * channels \in Nat
        BY <2>1 DEF Rate
    <2>5. channels * i \in Nat /\ channels * n \in Nat /\ channels \in Nat
        BY <1>2, <2>1 DEF Rate
    <2>6. (i - 1) * channels + 1 \in 1..Len(pcm)
        BY <1>1, <1>2, <2>2, <2>3, <2>4, <2>5
    <2>7. QED
        BY <2>6
<1>4. FirstChannel(pcm, channels) = [i \in 1..n |-> pcm[(i - 1) * channels + 1]]
    BY DEF FirstChannel
<1> HIDE DEF n
<1>5. FirstChannel(pcm, channels) \in Seq(S) /\ Len(FirstChannel(pcm, channels)) = n
    BY <1>2, <1>3, <1>4
<1>6. QED
    BY <1>5 DEF n

\* The upper half of 32 bits has 16.
LEMMA UpperHalfFits ==
    ASSUME NEW pcm \in Seq(SampleOf(32))
    PROVE  UpperHalf(pcm) \in Seq(Sample16) /\ Len(UpperHalf(pcm)) = Len(pcm)
<1>1. ASSUME NEW x \in SampleOf(32) PROVE x \div 65536 \in Sample16
    <2>0. MinSample \in Int /\ MaxSample \in Int
        BY DEF MinSample, MaxSample
    <2>1. x \in Int /\ MinSample * 65536 <= x /\ x <= MaxSample * 65536 + 65535
        BY <2>0 DEF SampleOf
    <2>2. x \div 65536 \in Int /\ 65536 * (x \div 65536) <= x /\ x < 65536 * (x \div 65536) + 65536
        BY <2>1
    <2>3. MinSample <= x \div 65536 /\ x \div 65536 <= MaxSample
        BY <2>0, <2>1, <2>2
    <2>4. QED
        BY <2>0, <2>2, <2>3 DEF Sample16
<1>2. Len(pcm) \in Nat /\ DOMAIN pcm = 1..Len(pcm) /\ \A i \in 1..Len(pcm) : pcm[i] \in SampleOf(32)
    OBVIOUS
<1>3. UpperHalf(pcm) = [i \in 1..Len(pcm) |-> pcm[i] \div 65536]
    BY <1>2 DEF UpperHalf
<1>4. QED
    BY <1>1, <1>2, <1>3

\* The number of samples that come out of the conversion to one channel of 16 bits.
Frames(n, channels) == IF channels > 1 THEN n \div channels ELSE n

LEMMA MonoIsAudio ==
    ASSUME NEW bitDepth \in {16, 32}, NEW pcm \in Seq(SampleOf(bitDepth)), NEW channels \in Rate
    PROVE  /\ To16BitMono(pcm, bitDepth, channels) \in Seq(Sample16)
           /\ Len(To16BitMono(pcm, bitDepth, channels)) = Frames(Len(pcm), channels)
<1> DEFINE mono == IF channels > 1 THEN FirstChannel(pcm, channels) ELSE pcm
<1>1. mono \in Seq(SampleOf(bitDepth)) /\ Len(mono) = Frames(Len(pcm), channels)
    BY FirstChannelStays DEF Frames
<1>2. To16BitMono(pcm, bitDepth, channels) = IF bitDepth = 32 THEN UpperHalf(mono) ELSE mono
    BY DEF To16BitMono
<1> HIDE DEF mono
<1>3. CASE bitDepth = 32
    BY <1>1, <1>2, <1>3, UpperHalfFits
<1>4. CASE bitDepth = 16
    <2>1. SampleOf(bitDepth) = Sample16
        BY <1>4 DEF SampleOf
    <2>2. QED
        BY <1>1, <1>2, <1>4, <2>1
<1>5. QED
    BY <1>3, <1>4

\* A file of 16 bit samples whose header counts exactly the bytes behind it.
Playable(file) ==
    /\ file.samples \in Seq(Sample16)
    /\ file.header.dataSize = 2 * Len(file.samples)
    /\ file.header.riffSize = file.header.dataSize + 36

\* It lasts as long as n samples of the given rate, or less by at most one sample.
LastsAsLong(file, n, rate) ==
    /\ Len(file.samples) * rate <= n * OutputSampleRate
    /\ n * OutputSampleRate <= Len(file.samples) * rate + rate

\* Whatever rate, width and number of channels the synthesizer speaks in, and however the
\* resampling is rounded, the file is one the device can play and lasts as long as what was
\* synthesized (wav.go 17-57, 138-158); and there is one.
THEOREM EncodedIsPlayable ==
    ASSUME NEW bitDepth \in {16, 32}, NEW pcm \in Seq(SampleOf(bitDepth)),
           NEW rate \in Rate, NEW channels \in Rate
    PROVE  /\ EncodeWAV(pcm, rate, bitDepth, channels) # {}
           /\ \A file \in EncodeWAV(pcm, rate, bitDepth, channels) :
                Playable(file) /\ LastsAsLong(file, Frames(Len(pcm), channels), rate)
<1> DEFINE mono == To16BitMono(pcm, bitDepth, channels)
           n == Frames(Len(pcm), channels)
           outcomes == IF rate = OutputSampleRate THEN {mono}
                       ELSE LinearResample(mono, rate, OutputSampleRate)
<1>1. mono \in Seq(Sample16) /\ Len(mono) = n
    BY MonoIsAudio
<1>2. OutputSampleRate \in Rate
    BY DEF OutputSampleRate, Rate
<1>3. EncodeWAV(pcm, rate, bitDepth, channels)
        = {[header |-> WavHeader(2 * Len(samples)), samples |-> samples] : samples \in outcomes}
    BY DEF EncodeWAV
<1>4. n \in Nat
    BY <1>1
<1> HIDE DEF mono, n
<1>5. outcomes # {}
    BY <1>1, <1>2, ResampleExists
<1>6. ASSUME NEW samples \in outcomes
      PROVE  /\ samples \in Seq(Sample16)
             /\ Len(samples) * rate <= n * OutputSampleRate
             /\ n * OutputSampleRate <= Len(samples) * rate + rate
  <2>1. CASE rate = OutputSampleRate
    <3>1. samples = mono
        BY <2>1
    <3>2. Len(samples) = n
        BY <1>1, <3>1
    <3>3. QED
        BY <1>1, <1>2, <1>4, <2>1, <3>1, <3>2 DEF Rate
  <2>2. CASE rate # OutputSampleRate
    <3>1. samples \in LinearResample(mono, rate, OutputSampleRate)
        BY <2>2
    <3>2. samples \in Seq(Sample16) /\ Len(samples) \in NewNumSamples(n, rate, OutputSampleRate)
        BY <1>1, <1>2, <3>1, ResampledIsAudio
    <3>3. QED
        BY <1>2, <1>4, <3>2, DurationKept
  <2>3. QED
      BY <2>1, <2>2
<1> HIDE DEF outcomes
<1>7. ASSUME NEW file \in EncodeWAV(pcm, rate, bitDepth, channels)
      PROVE  Playable(file) /\ LastsAsLong(file, n, rate)
  <2>1. PICK samples \in outcomes :
          file = [header |-> WavHeader(2 * Len(samples)), samples |-> samples]
      BY <1>3
  <2>2. file.samples = samples /\ Len(samples) \in Nat
        /\ file.header.dataSize = 2 * Len(samples) /\ file.header.riffSize = 36 + 2 * Len(samples)
      BY <1>6, <2>1 DEF WavHeader
  <2>3. QED
      BY <1>6, <2>2 DEF Playable, LastsAsLong
<1>8. QED
    BY <1>3, <1>5, <1>7 DEF n

-----------------------------------------------------------------------------
(* Wyoming *)

\* What one side writes the other side reads, whatever the bytes are and whatever follows:
\* the reader is then at the beginning of the next event (client.go 59-113, 115-156).
THEOREM ReadsWhatWasWritten ==
    ASSUME NEW type, NEW Byte, NEW data \in Seq(Byte), NEW payload \in Seq(Byte),
           NEW T, NEW rest \in Seq(T), Byte \subseteq T
    PROVE  ReadEvent(WriteEvent(type, data, payload) \o rest)
             = [type |-> type, data |-> data, payload |-> payload, rest |-> rest]
<1> DEFINE line == Header(type, data, payload)
           body == data \o payload \o rest
           stream == WriteEvent(type, data, payload) \o rest
           n == Len(data)
           m == Len(payload)
<1>1. n \in Nat /\ m \in Nat /\ Len(rest) \in Nat
    OBVIOUS
<1>2. line.type = type /\ line.data_length = n /\ line.payload_length = m
    BY DEF Header
<1>3. data \in Seq(T) /\ payload \in Seq(T)
    OBVIOUS
<1>4. body \in Seq(T) /\ Len(body) = n + m + Len(rest)
    BY <1>3
<1> HIDE DEF line
<1>5. Head(stream) = line /\ Tail(stream) = body
    <2>1. PICK U : U = T \cup {line}
        OBVIOUS
    <2>2. <<line>> \in Seq(U) /\ data \in Seq(U) /\ payload \in Seq(U) /\ rest \in Seq(U)
        BY <1>3, <2>1
    <2>3. stream = <<line>> \o body
        BY <2>2 DEF WriteEvent, line
    <2>4. QED
        BY <2>2, <2>3
<1>6. SubSeq(body, 1, n) = data
    BY <1>1, <1>3, <1>4
<1>7. SubSeq(body, n + 1, n + m) = payload
    BY <1>1, <1>3, <1>4
<1>8. SubSeq(body, n + m + 1, Len(body)) = rest
    BY <1>1, <1>3, <1>4
<1> HIDE DEF body, stream
<1>9. ReadEvent(stream) =
         IF Len(body) < n + m THEN NoEvent
         ELSE [type |-> type, data |-> SubSeq(body, 1, n),
               payload |-> SubSeq(body, n + 1, n + m),
               rest |-> SubSeq(body, n + m + 1, Len(body))]
    BY <1>2, <1>5 DEF ReadEvent
<1>10. ~(Len(body) < n + m)
    BY <1>1, <1>4
<1>11. QED
    BY <1>6, <1>7, <1>8, <1>9, <1>10 DEF stream
=============================================================================
