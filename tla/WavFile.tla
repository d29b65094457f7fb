------------------------------- MODULE WavFile -------------------------------
(***************************************************************************)
(* The conversion of a synthesized reply to the file the device plays      *)
(* (internal/tts/wav.go): 16 bits, one channel, 16000 samples per second.  *)
(* A sample is its value, so that two bytes are one element.  The code     *)
(* resamples in float64: what is rounded there gives a set of outcomes.    *)
(***************************************************************************)
EXTENDS Integers, Sequences

OutputSampleRate == 16000

MinSample == -32768
MaxSample == 32767
Sample16 == MinSample..MaxSample

\* The first channel of each frame; of 32 bits the upper half.
FirstChannel(pcm, channels) == [i \in 1..(Len(pcm) \div channels) |-> pcm[(i - 1) * channels + 1]]
UpperHalf(pcm) == [i \in DOMAIN pcm |-> pcm[i] \div 65536]

To16BitMono(pcm, bitDepth, channels) ==
    LET mono == IF channels > 1 THEN FirstChannel(pcm, channels) ELSE pcm
    IN IF bitDepth = 32 THEN UpperHalf(mono) ELSE mono

\* A quotient that float64 computes from rounded numbers and int() cuts.  It is wrong by
\* less than 1 / b (up to 2^36 samples), so one that is a whole number may lose one.
Quotients(a, b) == {c \div b : c \in {a - 1, a} \cap Nat}

\* newNumSamples, srcIdxInt, and how far srcIdx is beyond idx, in parts of the output rate.
NewNumSamples(n, src, dst) == Quotients(n * dst, src)
SrcIdx(i, src, dst) == Quotients(i * src, dst)
Left(i, idx, src, dst) == i * src - idx * dst

\* Conversion to int16 cuts the fraction off.
Truncate(a, b) == IF a >= 0 THEN a \div b ELSE -((-a) \div b)

\* The sample between two, with the rounding errors of a sum that together are less than one.
Interpolate(x, y, left, dst) ==
    LET sum == x * (dst - left) + y * left
    IN {Truncate(s, dst) : s \in (sum - dst + 1)..(sum + dst - 1)}

\* The loop is left at the first sample that has no next one; the zeros of the new
\* slice stay behind it.
LinearResample(data, src, dst) ==
    LET Last(idx, j) == idx[j] + 1 >= Len(data)
        Values(idx, j) ==
          CASE \E k \in 1..(j - 1) : Last(idx, k) -> {0}
            [] (\A k \in 1..(j - 1) : ~Last(idx, k)) /\ Last(idx, j) -> {data[idx[j] + 1]}
            [] \A k \in 1..j : ~Last(idx, k) ->
                 Interpolate(data[idx[j] + 1], data[idx[j] + 2], Left(j - 1, idx[j], src, dst), dst)
    IN {r \in Seq(Int) :
          /\ Len(r) \in NewNumSamples(Len(data), src, dst)
          /\ \E idx \in [DOMAIN r -> 0..Len(data)] :
               \A j \in DOMAIN r : idx[j] \in SrcIdx(j - 1, src, dst) /\ r[j] \in Values(idx, j)}

\* The sizes in the header count bytes; they have 32 bits, enough for a reply of a day.
WavHeader(size) == [riffSize |-> 36 + size, dataSize |-> size]

EncodeWAV(pcm, rate, bitDepth, channels) ==
    LET mono == To16BitMono(pcm, bitDepth, channels)
        outcomes == IF rate = OutputSampleRate THEN {mono}
                    ELSE LinearResample(mono, rate, OutputSampleRate)
    IN {[header |-> WavHeader(2 * Len(samples)), samples |-> samples] : samples \in outcomes}
=============================================================================
