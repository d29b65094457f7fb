------------------------ MODULE SttTranscriber_proofs ------------------------
(***************************************************************************)
(* Safety properties of SttTranscriber and of the detector it feeds, for   *)
(* any connections, energies, lengths and detector settings.               *)
(***************************************************************************)
EXTENDS SttTranscriber, SequenceTheorems, TLAPS

DetectorType ==
    [framesProcessed : Nat, isLearning : BOOLEAN, noiseFloor : Nat, threshold : Nat,
     silentFrames : Nat, wasSpeaking : BOOLEAN, speechEnded : BOOLEAN]

\* What a detector knows of the chunks q it heard since its reset: the noise floor is not
\* above the first one, and the silent frames it counts are the chunks since the last one
\* that was loud.
Knows(d, q) ==
    /\ d \in DetectorType /\ q \in Seq(Nat)
    /\ d.framesProcessed = Len(q)
    /\ d.isLearning <=> Len(q) < LearningFrames
    /\ Len(q) > 0 => d.noiseFloor <= q[1]
    /\ d.isLearning => d.silentFrames = 0
    /\ ~d.isLearning =>
         /\ d.threshold = ThresholdFor(d.noiseFloor)
         /\ d.wasSpeaking
         /\ d.silentFrames + LearningFrames <= Len(q)
         /\ \A i \in 1..Len(q) : i > Len(q) - d.silentFrames => q[i] < ThresholdFor(q[1])
         /\ d.silentFrames + LearningFrames < Len(q) =>
              q[Len(q) - d.silentFrames] >= MinThreshold

\* The detector knows the chunks of this session, and the caller listens as long as it has
\* not heard enough silence.
DetectorInv ==
    /\ Knows(vadDetector, chunks) /\ ~vadDetector.speechEnded
    /\ vadDetector.silentFrames <= MinSilenceFrames
    /\ call = "listening" => vadDetector.silentFrames < MinSilenceFrames
    /\ call = "audioStop" => vadDetector.silentFrames >= MinSilenceFrames

\* The connection in hand is open, was written to, and carries this session only.
ClientInv ==
    /\ client # None =>
         client \in open /\ sent[client] # <<>> /\ heard[client] \subseteq {session}
    /\ closed => client = None
    /\ call = "listening" => session # 0
    /\ \A c \in Conns : heard[c] # {} => sent[c] # <<>>
    /\ OneSessionPerConnection

\* An answered connection is the one in hand until it is closed.
AnsweredInv ==
    /\ call \in {"audioStop", "recv"} /\ ~closed => client # None
    /\ call = "reading" => sent[reading] # <<>> /\ (reading = client \/ reading \notin open)
    /\ \A c \in answered : sent[c] # <<>>
    /\ \A c \in answered \cap open : call = "close" /\ c = client

IInv == TypeOK /\ DetectorInv /\ ClientInv /\ AnsweredInv

-----------------------------------------------------------------------------
(* The detector *)

\* The settings are natural numbers, and the counts are above zero.
LEMMA Settings ==
    /\ LearningFrames \in Nat /\ LearningFrames > 0
    /\ MinSilenceFrames \in Nat /\ MinSilenceFrames > 0
    /\ UpdateEvery \in Nat /\ RatioTenths \in Nat /\ MinThreshold \in Nat
BY DetectorAssumption

\* A product does not fall when a factor grows.
LEMMA ProductGrows ==
    ASSUME NEW k \in Nat, NEW a \in Nat, NEW b \in Nat, a <= b
    PROVE  k * a <= k * b /\ k * a \in Nat /\ k * b \in Nat
<1>1. k * (b - a) >= 0
    BY SMT
<1>2. k * b = k * a + k * (b - a)
    BY SMT
<1>3. k * a \in Nat /\ k * b \in Nat
    BY SMT
<1>4. QED
    BY <1>1, <1>2, <1>3, SMT

\* The threshold does not fall when the noise floor rises, and is never below the lowest one.
LEMMA ThresholdGrows ==
    ASSUME NEW a \in Nat, NEW b \in Nat, a <= b
    PROVE  /\ ThresholdFor(a) \in Nat
           /\ ThresholdFor(a) >= MinThreshold
           /\ ThresholdFor(a) <= ThresholdFor(b)
<1> DEFINE x == RatioTenths * a
           y == RatioTenths * b
<1>1. x <= y /\ x \in Nat /\ y \in Nat
    BY Settings, ProductGrows
<1>2. ThresholdFor(a) = Higher(MinThreshold, x \div 10)
      /\ ThresholdFor(b) = Higher(MinThreshold, y \div 10)
    BY DEF ThresholdFor
<1> HIDE DEF x, y
<1>3. x \div 10 \in Nat /\ y \div 10 \in Nat /\ x \div 10 <= y \div 10
    BY <1>1, SMT
<1>4. QED
    BY <1>2, <1>3, Settings DEF Higher

\* A new detector has heard nothing.
LEMMA NewKnows == Knows(NewDetector, <<>>) /\ ~NewDetector.speechEnded
<1>1. <<>> \in Seq(Nat) /\ Len(<<>>) = 0
    BY EmptySeq
<1>2. QED
    BY <1>1, Settings DEF Knows, NewDetector, DetectorType

\* A detector after a reset has heard nothing.
LEMMA ResetKnows ==
    ASSUME NEW d \in DetectorType
    PROVE  Knows(ResetDetector(d), <<>>) /\ ~ResetDetector(d).speechEnded
<1> DEFINE e == ResetDetector(d)
<1>1. e \in DetectorType
    BY DEF ResetDetector, DetectorType
<1>2. e.framesProcessed = 0 /\ e.isLearning = TRUE /\ e.silentFrames = 0
      /\ e.speechEnded = FALSE
    BY DEF ResetDetector, DetectorType
<1>3. <<>> \in Seq(Nat) /\ Len(<<>>) = 0
    BY EmptySeq
<1> HIDE DEF e
<1>4. Knows(e, <<>>) /\ ~e.speechEnded
    BY <1>1, <1>2, <1>3, Settings DEF Knows
<1>5. QED
    BY <1>4 DEF e

\* What Append does to a sequence of energies.
LEMMA AppendEnergy ==
    ASSUME NEW q \in Seq(Nat), NEW rms \in Nat
    PROVE  /\ Append(q, rms) \in Seq(Nat)
           /\ Len(q) \in Nat /\ Len(Append(q, rms)) = Len(q) + 1
           /\ \A i \in 1..Len(q) : Append(q, rms)[i] = q[i]
           /\ Append(q, rms)[Len(q) + 1] = rms
BY AppendProperties, LenProperties

\* The fields a step assigns, one by one.
LEMMA Assigned ==
    ASSUME NEW d \in DetectorType, NEW n \in Nat, NEW f \in Nat, NEW t \in Nat,
           NEW l \in BOOLEAN, NEW w \in BOOLEAN
    PROVE  /\ [d EXCEPT !.framesProcessed = n, !.noiseFloor = f, !.isLearning = l,
                        !.threshold = t, !.wasSpeaking = w] \in DetectorType
           /\ [d EXCEPT !.silentFrames = n, !.wasSpeaking = l, !.speechEnded = w]
                 \in DetectorType
           /\ [d EXCEPT !.noiseFloor = f, !.threshold = t] \in DetectorType
           /\ [d EXCEPT !.framesProcessed = n] \in DetectorType
           /\ [d EXCEPT !.speechEnded = l] \in DetectorType
BY DEF DetectorType

\* Learning from one more chunk.
LEMMA LearnKnows ==
    ASSUME NEW d, NEW q, NEW rms \in Nat, Knows(d, q), d.isLearning, ~d.speechEnded
    PROVE  Knows(Learn(d, rms), Append(q, rms)) /\ ~Learn(d, rms).speechEnded
<1> DEFINE f == LearnedFloor(d, rms)
           e == Learn(d, rms)
           r == Append(q, rms)
<1>1. /\ d \in DetectorType /\ q \in Seq(Nat) /\ d.framesProcessed = Len(q)
      /\ Len(q) < LearningFrames /\ d.silentFrames = 0
      /\ Len(q) > 0 => d.noiseFloor <= q[1]
    BY DEF Knows
<1>2. r \in Seq(Nat) /\ Len(q) \in Nat /\ Len(r) = Len(q) + 1
      /\ (\A i \in 1..Len(q) : r[i] = q[i]) /\ r[Len(q) + 1] = rms
    BY <1>1, AppendEnergy
<1>3. d.noiseFloor \in Nat
    BY <1>1 DEF DetectorType
<1>4. f \in Nat /\ f <= r[1]
  <2>1. CASE Len(q) = 0
      BY <1>1, <1>2, <2>1 DEF LearnedFloor
  <2>2. CASE Len(q) > 0
    <3>1. f = (95 * d.noiseFloor + 5 * Lower(d.noiseFloor, rms)) \div 100
        BY <1>1, <1>2, <2>2 DEF LearnedFloor
    <3>2. Lower(d.noiseFloor, rms) \in Nat /\ Lower(d.noiseFloor, rms) <= d.noiseFloor
        BY <1>3 DEF Lower
    <3>3. f \in Nat /\ f <= d.noiseFloor
        BY <1>3, <3>1, <3>2, SMT
    <3>4. r[1] = q[1] /\ q[1] \in Nat
        BY <1>1, <1>2, <2>2, ElementOfSeq
    <3>5. QED
        BY <1>1, <1>3, <2>2, <3>3, <3>4
  <2>3. QED
      BY <1>2, <2>1, <2>2
<1>5. ThresholdFor(f) \in Nat
    BY <1>4, ThresholdGrows
<1> DEFINE done == d.framesProcessed + 1 >= LearningFrames
           learning == ~done
           threshold == IF done THEN ThresholdFor(f) ELSE d.threshold
           speaking == done \/ d.wasSpeaking
<1>6. e = [d EXCEPT !.framesProcessed = d.framesProcessed + 1, !.noiseFloor = f,
                    !.isLearning = learning, !.threshold = threshold,
                    !.wasSpeaking = speaking]
    BY <1>1 DEF Learn, DetectorType
<1> HIDE DEF f, e, r
<1>7. /\ e \in DetectorType /\ ~e.speechEnded
      /\ e.framesProcessed = Len(q) + 1 /\ e.noiseFloor = f
      /\ e.isLearning <=> Len(q) + 1 < LearningFrames
      /\ e.silentFrames = 0
      /\ ~e.isLearning => e.threshold = ThresholdFor(f) /\ e.wasSpeaking
  <2>1. learning \in BOOLEAN /\ speaking \in BOOLEAN /\ threshold \in Nat
      BY <1>1, <1>5 DEF DetectorType
  <2>2. learning <=> Len(q) + 1 < LearningFrames
      BY <1>1, <1>2, Settings
  <2>3. ~learning => threshold = ThresholdFor(f) /\ speaking
      OBVIOUS
  <2> HIDE DEF learning, speaking, threshold
  <2>4. e \in DetectorType
    <3>1. d.framesProcessed + 1 \in Nat
        BY <1>1, <1>2
    <3>2. QED
        BY <1>1, <1>4, <1>6, <2>1, <3>1, Assigned, Zenon
  <2>5. e.framesProcessed = Len(q) + 1 /\ e.noiseFloor = f /\ e.isLearning = learning
        /\ e.silentFrames = 0 /\ e.speechEnded = d.speechEnded
        /\ e.threshold = threshold /\ e.wasSpeaking = speaking
      BY <1>1, <1>6 DEF DetectorType
  <2>6. QED
      BY <2>2, <2>3, <2>4, <2>5
<1>8. ~e.isLearning => e.silentFrames + LearningFrames = Len(r)
    BY <1>1, <1>2, <1>7, Settings
<1>9. Knows(e, r)
    BY <1>2, <1>4, <1>7, <1>8, Settings DEF Knows
<1>10. QED
    BY <1>7, <1>9 DEF e, r

\* An update only lowers the noise floor, and the threshold with it.
LEMMA UpdateLowers ==
    ASSUME NEW d \in DetectorType, NEW rms \in Nat, d.threshold = ThresholdFor(d.noiseFloor)
    PROVE  LET u == UpdateFloor(d, rms)
           IN  /\ u \in DetectorType
               /\ u.noiseFloor <= d.noiseFloor
               /\ u.threshold = ThresholdFor(u.noiseFloor)
               /\ u.framesProcessed = d.framesProcessed /\ u.isLearning = d.isLearning
               /\ u.silentFrames = d.silentFrames /\ u.wasSpeaking = d.wasSpeaking
               /\ u.speechEnded = d.speechEnded
<1> DEFINE u == UpdateFloor(d, rms)
           f == (99 * d.noiseFloor + Lower(d.noiseFloor, rms)) \div 100
           t == ThresholdFor(f)
<1>1. d.noiseFloor \in Nat
    BY DEF DetectorType
<1>2. f \in Nat /\ f <= d.noiseFloor
  <2>1. Lower(d.noiseFloor, rms) \in Nat /\ Lower(d.noiseFloor, rms) <= d.noiseFloor
      BY <1>1 DEF Lower
  <2>2. QED
      BY <1>1, <2>1, SMT
<1>3. t \in Nat
    BY <1>2, ThresholdGrows
<1>4. u = d \/ u = [d EXCEPT !.noiseFloor = f, !.threshold = t]
    BY DEF UpdateFloor
<1>5. CASE u = d
    BY <1>1, <1>5
<1>6. CASE u = [d EXCEPT !.noiseFloor = f, !.threshold = t]
  <2>1. t = ThresholdFor(f)
      OBVIOUS
  <2> HIDE DEF f, t, u
  <2>2. u \in DetectorType
      BY <1>2, <1>3, <1>6 DEF DetectorType
  <2>3. u.noiseFloor = f /\ u.threshold = t
        /\ u.framesProcessed = d.framesProcessed /\ u.isLearning = d.isLearning
        /\ u.silentFrames = d.silentFrames /\ u.wasSpeaking = d.wasSpeaking
        /\ u.speechEnded = d.speechEnded
      BY <1>6 DEF DetectorType
  <2>4. QED
      BY <1>2, <2>1, <2>2, <2>3 DEF u
<1>7. QED
    BY <1>4, <1>5, <1>6

\* Judging one more chunk: the end of speech is reported when the silent frames are enough.
LEMMA JudgeKnows ==
    ASSUME NEW d, NEW q, NEW rms \in Nat, Knows(d, q), ~d.isLearning, ~d.speechEnded
    PROVE  LET e == ProcessAudio(d, rms)
           IN  /\ Knows(SpeechEndedTaken(e), Append(q, rms))
               /\ ~SpeechEndedTaken(e).speechEnded
               /\ e.speechEnded <=> SpeechEndedTaken(e).silentFrames >= MinSilenceFrames
               /\ SpeechEndedTaken(e).silentFrames <= d.silentFrames + 1
<1> DEFINE c == [d EXCEPT !.framesProcessed = @ + 1]
           u == UpdateFloor(c, rms)
           silent == IF rms < u.threshold THEN u.silentFrames + 1 ELSE 0
           speaking == u.wasSpeaking \/ rms >= u.threshold
           ended == u.speechEnded \/ (silent >= MinSilenceFrames /\ speaking)
           e == ProcessAudio(d, rms)
           g == SpeechEndedTaken(e)
           r == Append(q, rms)
<1>1. /\ d \in DetectorType /\ q \in Seq(Nat) /\ d.framesProcessed = Len(q)
      /\ Len(q) >= LearningFrames /\ Len(q) \in Nat
      /\ d.noiseFloor <= q[1] /\ q[1] \in Nat
      /\ d.threshold = ThresholdFor(d.noiseFloor) /\ d.wasSpeaking
      /\ d.silentFrames + LearningFrames <= Len(q)
      /\ d.noiseFloor \in Nat /\ d.silentFrames \in Nat
      /\ d.isLearning = FALSE /\ d.speechEnded = FALSE /\ d.wasSpeaking = TRUE
  <2>1. d \in DetectorType /\ q \in Seq(Nat) /\ Len(q) \in Nat
      BY LenProperties DEF Knows
  <2>2. Len(q) >= LearningFrames
      BY <2>1, Settings DEF Knows
  <2>3. q[1] \in Nat
      BY <2>1, <2>2, Settings, ElementOfSeq
  <2>4. QED
      BY <2>1, <2>2, <2>3, Settings DEF Knows, DetectorType
<1>2. r \in Seq(Nat) /\ Len(r) = Len(q) + 1
      /\ (\A i \in 1..Len(q) : r[i] = q[i]) /\ r[Len(q) + 1] = rms
    BY <1>1, AppendEnergy
<1>3. /\ c \in DetectorType /\ c.framesProcessed = Len(q) + 1 /\ c.isLearning = FALSE
      /\ c.noiseFloor = d.noiseFloor /\ c.threshold = d.threshold
      /\ c.silentFrames = d.silentFrames /\ c.wasSpeaking = TRUE /\ c.speechEnded = FALSE
    BY <1>1 DEF DetectorType
<1> HIDE DEF c
<1>4. /\ u \in DetectorType /\ u.noiseFloor \in Nat /\ u.noiseFloor <= d.noiseFloor
      /\ u.threshold = ThresholdFor(u.noiseFloor)
      /\ u.framesProcessed = Len(q) + 1 /\ u.isLearning = FALSE
      /\ u.silentFrames = d.silentFrames /\ u.wasSpeaking = TRUE /\ u.speechEnded = FALSE
  <2>1. c.threshold = ThresholdFor(c.noiseFloor)
      BY <1>1, <1>3
  <2>2. u \in DetectorType /\ u.noiseFloor <= c.noiseFloor
        /\ u.threshold = ThresholdFor(u.noiseFloor)
        /\ u.framesProcessed = c.framesProcessed /\ u.isLearning = c.isLearning
        /\ u.silentFrames = c.silentFrames /\ u.wasSpeaking = c.wasSpeaking
        /\ u.speechEnded = c.speechEnded
      BY <1>3, <2>1, UpdateLowers
  <2>3. u.noiseFloor \in Nat
      BY <2>2 DEF DetectorType
  <2>4. QED
      BY <1>3, <2>2, <2>3
<1>5. e = [u EXCEPT !.silentFrames = silent, !.wasSpeaking = speaking, !.speechEnded = ended]
    BY <1>1 DEF ProcessAudio, Judge, c
<1> HIDE DEF u
<1>6. /\ silent \in Nat /\ silent <= d.silentFrames + 1
      /\ speaking = TRUE /\ ended \in BOOLEAN /\ (ended <=> silent >= MinSilenceFrames)
      /\ rms < u.threshold => silent = d.silentFrames + 1
      /\ ~(rms < u.threshold) => silent = 0
    BY <1>1, <1>4
<1> HIDE DEF silent, speaking, ended, e
<1>7. /\ g \in DetectorType /\ g.speechEnded = FALSE /\ g.silentFrames = silent
      /\ g.wasSpeaking = TRUE /\ g.framesProcessed = Len(q) + 1 /\ g.isLearning = FALSE
      /\ g.noiseFloor = u.noiseFloor /\ g.threshold = u.threshold
      /\ e.speechEnded = ended
  <2>1. e \in DetectorType
      BY <1>4, <1>5, <1>6, Assigned, Zenon
  <2>2. e.silentFrames = silent /\ e.wasSpeaking = speaking /\ e.speechEnded = ended
        /\ e.framesProcessed = u.framesProcessed /\ e.isLearning = u.isLearning
        /\ e.noiseFloor = u.noiseFloor /\ e.threshold = u.threshold
      BY <1>4, <1>5 DEF DetectorType
  <2>3. g \in DetectorType
      BY <2>1 DEF SpeechEndedTaken, DetectorType
  <2>4. g.speechEnded = FALSE /\ g.silentFrames = e.silentFrames
        /\ g.wasSpeaking = e.wasSpeaking /\ g.framesProcessed = e.framesProcessed
        /\ g.isLearning = e.isLearning /\ g.noiseFloor = e.noiseFloor
        /\ g.threshold = e.threshold
      BY <2>1 DEF SpeechEndedTaken, DetectorType
  <2>5. QED
      BY <1>4, <1>6, <2>2, <2>3, <2>4
<1> HIDE DEF g, r
<1>8. r[1] = q[1] /\ u.noiseFloor <= r[1]
  <2>1. 1 \in 1..Len(q)
      BY <1>1, Settings
  <2>2. r[1] = q[1]
      BY <1>2, <2>1
  <2>3. QED
      BY <1>1, <1>4, <2>2
<1>9. u.threshold \in Nat /\ MinThreshold <= u.threshold /\ u.threshold <= ThresholdFor(r[1])
      /\ ThresholdFor(r[1]) \in Nat
  <2>1. r[1] \in Nat
      BY <1>1, <1>8
  <2>2. QED
      BY <1>4, <1>8, <2>1, ThresholdGrows
<1>10. \A i \in 1..Len(r) : i > Len(r) - silent => r[i] < ThresholdFor(r[1])
  <2>1. SUFFICES ASSUME NEW i \in 1..Len(r), i > Len(r) - silent
                 PROVE  r[i] < ThresholdFor(r[1])
      OBVIOUS
  <2>2. rms < u.threshold /\ silent = d.silentFrames + 1
      BY <1>1, <1>2, <1>6, <2>1
  <2>3. CASE i = Len(q) + 1
    <3>1. r[i] = rms
        BY <1>2, <2>3
    <3>2. QED
        BY <1>9, <2>2, <3>1
  <2>4. CASE i <= Len(q)
    <3>1. i \in 1..Len(q) /\ i > Len(q) - d.silentFrames
        BY <1>1, <1>2, <2>1, <2>2, <2>4
    <3>2. q[i] < ThresholdFor(q[1])
        BY <1>1, <3>1 DEF Knows
    <3>3. QED
        BY <1>2, <1>8, <3>1, <3>2
  <2>5. QED
      BY <1>1, <1>2, <2>1, <2>3, <2>4
<1>11. silent + LearningFrames <= Len(r)
  <2>1. LearningFrames \in Nat /\ silent \in Nat /\ silent <= d.silentFrames + 1
      BY <1>6, Settings
  <2>2. Len(r) = Len(q) + 1 /\ d.silentFrames + LearningFrames <= Len(q)
      BY <1>1, <1>2
  <2>3. d.silentFrames \in Nat /\ Len(q) \in Nat
      BY <1>1
  <2>4. QED
      BY <2>1, <2>2, <2>3
<1>12. silent + LearningFrames < Len(r) => r[Len(r) - silent] >= MinThreshold
  <2>1. CASE ~(rms < u.threshold)
      BY <1>1, <1>2, <1>6, <1>9, <2>1, Settings
  <2>2. CASE rms < u.threshold
    <3>1. SUFFICES ASSUME silent + LearningFrames < Len(r)
                   PROVE  r[Len(r) - silent] >= MinThreshold
        OBVIOUS
    <3>2. silent = d.silentFrames + 1
        BY <1>6, <2>2
    <3>3. d.silentFrames + LearningFrames < Len(q) /\ Len(r) - silent = Len(q) - d.silentFrames
          /\ Len(q) - d.silentFrames \in 1..Len(q)
      <4>1. d.silentFrames + 1 + LearningFrames < Len(q) + 1
            /\ Len(r) - silent = (Len(q) + 1) - (d.silentFrames + 1)
          BY <1>2, <3>1, <3>2
      <4>2. d.silentFrames \in Nat /\ Len(q) \in Nat
          BY <1>1
      <4>3. QED
          BY <4>1, <4>2, Settings
    <3>4. q[Len(q) - d.silentFrames] >= MinThreshold
        BY <1>1, <3>3 DEF Knows
    <3>5. QED
        BY <1>2, <3>3, <3>4
  <2>3. QED
      BY <2>1, <2>2
<1>13. Knows(g, r)
  <2>1. Len(r) \in Nat /\ LearningFrames \in Nat /\ Len(r) >= LearningFrames
        /\ ~(Len(r) < LearningFrames)
      BY <1>1, <1>2, Settings
  <2>2. g \in DetectorType /\ r \in Seq(Nat) /\ g.framesProcessed = Len(r)
        /\ g.noiseFloor <= r[1] /\ g.threshold = ThresholdFor(g.noiseFloor)
        /\ g.wasSpeaking /\ ~g.isLearning /\ g.silentFrames = silent
      BY <1>2, <1>4, <1>7, <1>8
  <2>3. QED
      BY <1>10, <1>11, <1>12, <2>1, <2>2 DEF Knows
<1>14. QED
    BY <1>6, <1>7, <1>13 DEF g, r, e

\* One chunk, learned from or judged, with what the caller asks afterwards.
LEMMA ChunkKnows ==
    ASSUME NEW d, NEW q, NEW rms \in Nat, Knows(d, q), ~d.speechEnded,
           d.silentFrames < MinSilenceFrames
    PROVE  LET e == ProcessAudio(d, rms)
           IN  /\ Knows(SpeechEndedTaken(e), Append(q, rms))
               /\ ~SpeechEndedTaken(e).speechEnded
               /\ SpeechEndedTaken(e).silentFrames <= MinSilenceFrames
               /\ e.speechEnded <=> SpeechEndedTaken(e).silentFrames >= MinSilenceFrames
<1> DEFINE e == ProcessAudio(d, rms)
           r == Append(q, rms)
<1>1. CASE d.isLearning
  <2>1. e = Learn(d, rms)
      BY <1>1 DEF ProcessAudio
  <2>2. Knows(e, r) /\ ~e.speechEnded
      BY <1>1, <2>1, LearnKnows
  <2>3. SpeechEndedTaken(e) = e
    <3>1. e \in DetectorType
        BY <2>2 DEF Knows
    <3>2. e.speechEnded = FALSE
        BY <2>2, <3>1 DEF DetectorType
    <3>3. QED
        BY <3>1, <3>2 DEF SpeechEndedTaken, DetectorType
  <2>4. e.silentFrames < MinSilenceFrames
    <3>1. e.silentFrames = d.silentFrames
        BY <1>1, <2>1 DEF Learn, Knows, DetectorType
    <3>2. QED
        BY <3>1
  <2>5. e.silentFrames \in Nat
      BY <2>2 DEF Knows, DetectorType
  <2>6. QED
      BY <2>2, <2>3, <2>4, <2>5, Settings
<1>2. CASE ~d.isLearning
  <2>1. d.silentFrames \in Nat
      BY DEF Knows, DetectorType
  <2>2. /\ Knows(SpeechEndedTaken(e), r) /\ ~SpeechEndedTaken(e).speechEnded
        /\ e.speechEnded <=> SpeechEndedTaken(e).silentFrames >= MinSilenceFrames
        /\ SpeechEndedTaken(e).silentFrames <= d.silentFrames + 1
      BY <1>2, JudgeKnows
  <2>3. SpeechEndedTaken(e).silentFrames \in Nat
      BY <2>2 DEF Knows, DetectorType
  <2>4. QED
      BY <2>1, <2>2, <2>3, Settings
<1>3. QED
    BY <1>1, <1>2

-----------------------------------------------------------------------------
(* The events of a call *)

\* What is written on a connection stays, and a connection something was written on is known
\* from then on.
LEMMA WriteKeeps ==
    ASSUME NEW log \in Seq(Event), NEW events \in Seq(Event)
    PROVE  /\ Write(log, events) \in Seq(Event)
           /\ log # <<>> \/ events # <<>> => Write(log, events) # <<>>
<1>1. /\ log \o events \in Seq(Event)
      /\ Len(log \o events) = Len(log) + Len(events)
      /\ Len(log) \in Nat /\ Len(events) \in Nat
    BY ConcatProperties, LenProperties
<1>2. log # <<>> \/ events # <<>> => log \o events # <<>>
  <2>1. log # <<>> => Len(log) > 0
      BY EmptySeq, <1>1
  <2>2. events # <<>> => Len(events) > 0
      BY EmptySeq, <1>1
  <2>3. log \o events = <<>> => Len(log \o events) = 0
      BY EmptySeq
  <2>4. QED
      BY <1>1, <2>1, <2>2, <2>3
<1>3. QED
    BY <1>1, <1>2 DEF Write

\* audio-stop alone is a sequence of events.
LEMMA StopEvent == <<"audio-stop">> \in Seq(Event) /\ <<"audio-stop">> # <<>>
BY DEF Event

\* There are one to three events due, and the chunk is the last.
LEMMA DueEvents ==
    /\ Due \in Seq(Event)
    /\ Len(Due) \in Nat /\ Len(Due) >= 1
    /\ Due[Len(Due)] = "audio-chunk"
<1> DEFINE a == IF transcribeSent THEN <<>> ELSE <<"transcribe">>
           b == IF audioSent THEN <<>> ELSE <<"audio-start">>
           c == <<"audio-chunk">>
<1>1. /\ a \in Seq(Event) /\ b \in Seq(Event) /\ c \in Seq(Event)
      /\ Len(c) = 1 /\ c[1] = "audio-chunk"
  <2>1. <<>> \in Seq(Event) /\ <<"transcribe">> \in Seq(Event)
        /\ <<"audio-start">> \in Seq(Event) /\ c \in Seq(Event)
      BY EmptySeq DEF Event
  <2>2. a = <<>> \/ a = <<"transcribe">>
      OBVIOUS
  <2>3. b = <<>> \/ b = <<"audio-start">>
      OBVIOUS
  <2>4. Len(c) = 1 /\ c[1] = "audio-chunk"
      OBVIOUS
  <2> HIDE DEF a, b, c
  <2>5. QED
      BY <2>1, <2>2, <2>3, <2>4
<1>2. Due = (a \o b) \o c
    BY DEF Due
<1> HIDE DEF a, b, c
<1>3. a \o b \in Seq(Event) /\ Len(a \o b) \in Nat
    BY <1>1, ConcatProperties, LenProperties
<1>4. /\ (a \o b) \o c \in Seq(Event)
      /\ Len((a \o b) \o c) = Len(a \o b) + 1
      /\ ((a \o b) \o c)[Len(a \o b) + 1] = c[1]
  <2>1. (a \o b) \o c \in Seq(Event) /\ Len((a \o b) \o c) = Len(a \o b) + Len(c)
      BY <1>1, <1>3, ConcatProperties
  <2>2. \A i \in 1..(Len(a \o b) + Len(c)) :
          ((a \o b) \o c)[i] = IF i <= Len(a \o b) THEN (a \o b)[i] ELSE c[i - Len(a \o b)]
      BY <1>1, <1>3, ConcatProperties
  <2>3. Len(a \o b) + 1 \in 1..(Len(a \o b) + Len(c))
        /\ (Len(a \o b) + 1) - Len(a \o b) = 1
        /\ ~(Len(a \o b) + 1 <= Len(a \o b))
      BY <1>1, <1>3
  <2>4. QED
      BY <1>1, <2>1, <2>2, <2>3
<1>5. QED
    BY <1>1, <1>2, <1>3, <1>4

\* The first n of them, and nothing when n is 0.
LEMMA FirstEvents ==
    ASSUME NEW n \in 0..Len(Due)
    PROVE  /\ SubSeq(Due, 1, n) \in Seq(Event)
           /\ n >= 1 => SubSeq(Due, 1, n) # <<>>
<1>1. SubSeq(Due, 1, n) \in Seq(Event) /\ Len(SubSeq(Due, 1, n)) = n
    BY DueEvents, SubSeqProperties
<1>2. QED
    BY <1>1, EmptySeq

-----------------------------------------------------------------------------
(* The inductive invariant *)

\* The initial state satisfies the inductive invariant.
LEMMA InitInv == Init => IInv
<1> SUFFICES ASSUME Init PROVE IInv
    OBVIOUS
<1>1. DetectorInv
    BY NewKnows, Settings DEF Init, DetectorInv, NewDetector
<1>2. TypeOK
  <2>1. <<>> \in Seq(Event) /\ <<>> \in Seq(Energy) /\ Len(<<>>) = 0
      BY EmptySeq
  <2>2. vadDetector.silentFrames = 0 /\ vadDetector.framesProcessed = 0
        /\ vadDetector.speechEnded = FALSE
      BY DEF Init, NewDetector
  <2>3. session \in 0..MaxSessions /\ vadDetector.silentFrames \in 0..MinSilenceFrames
      BY <2>2, BoundAssumption, Settings DEF Init
  <2>4. sent \in [Conns -> Seq(Event)] /\ heard \in [Conns -> SUBSET (1..MaxSessions)]
      BY <2>1 DEF Init
  <2>5. QED
      BY <2>1, <2>2, <2>3, <2>4 DEF Init, TypeOK
<1>3. ClientInv
    BY DEF Init, ClientInv, OneSessionPerConnection
<1>4. AnsweredInv
    BY DEF Init, AnsweredInv
<1>5. QED
    BY <1>1, <1>2, <1>3, <1>4 DEF IInv

\* A reset drops the connection and what the detector knew.
LEMMA ResetInv == IInv /\ Reset => IInv'
<1> SUFFICES ASSUME IInv, Reset PROVE IInv'
    OBVIOUS
<1>1. Knows(vadDetector', <<>>) /\ ~vadDetector'.speechEnded /\ chunks' = <<>>
      /\ vadDetector'.silentFrames = 0 /\ vadDetector'.framesProcessed = 0
  <2>1. vadDetector \in DetectorType
      BY DEF IInv, DetectorInv, Knows
  <2>2. vadDetector' = ResetDetector(vadDetector) /\ chunks' = <<>>
      BY DEF Reset
  <2>3. ResetDetector(vadDetector).silentFrames = 0
        /\ ResetDetector(vadDetector).framesProcessed = 0
      BY <2>1 DEF ResetDetector, DetectorType
  <2>4. QED
      BY <2>1, <2>2, <2>3, ResetKnows
<1>2. DetectorInv'
    BY <1>1, Settings DEF DetectorInv, Reset
<1>3. TypeOK'
  <2>1. <<>> \in Seq(Energy) /\ Len(<<>>) = 0
      BY EmptySeq
  <2>2. (session \in 0..MaxSessions)'
      BY BoundAssumption DEF Reset, IInv, TypeOK
  <2>3. (vadDetector.silentFrames \in 0..MinSilenceFrames /\ ~vadDetector.speechEnded
         /\ chunks \in Seq(Energy) /\ vadDetector.framesProcessed = Len(chunks))'
      BY <1>1, <2>1, Settings
  <2>4. QED
      BY <2>2, <2>3 DEF Reset, IInv, TypeOK, connVars
<1>4. ClientInv'
  <2>1. session' # 0
      BY BoundAssumption DEF Reset, IInv, TypeOK
  <2>2. QED
      BY <2>1 DEF Reset, IInv, ClientInv, OneSessionPerConnection, connVars
<1>5. AnsweredInv'
    BY DEF Reset, IInv, AnsweredInv, connVars
<1>6. QED
    BY <1>2, <1>3, <1>4, <1>5 DEF IInv

\* The connection a method works on is the one in hand, or one nothing was done with.
LEMMA ConnectedIsFresh ==
    ASSUME IInv, NEW c \in Connected
    PROVE  /\ c \in Conns
           /\ c = client \/ (c \notin open /\ sent[c] = <<>> /\ heard[c] = {})
           /\ heard[c] \subseteq {session}
           /\ c \notin answered \/ (c \in open /\ c = client)
BY NoneAssumption DEF Connected, Unused, IInv, TypeOK, ClientInv, AnsweredInv

\* Sending a chunk, or failing to, keeps the inductive invariant.
LEMMA SendAudioInv ==
    ASSUME IInv, NEW c \in Conns, NEW n \in 0..3, NEW rms \in Energy, SendAudio(c, n, rms)
    PROVE  IInv'
<1>1. /\ call = "listening" /\ ~closed /\ c \in Connected /\ n \in 0..Len(Due)
      /\ open' = open \cup {c} /\ UNCHANGED <<closed, reading, shut, session, answered>>
      /\ call' \in {"listening", "audioStop"}
    BY DEF SendAudio
<1>2. /\ c \in Conns
      /\ c = client \/ (c \notin open /\ sent[c] = <<>> /\ heard[c] = {})
      /\ heard[c] \subseteq {session}
      /\ c \notin answered \/ (c \in open /\ c = client)
    BY <1>1, ConnectedIsFresh
<1>3. /\ sent' = [sent EXCEPT ![c] = Write(sent[c], SubSeq(Due, 1, n))]
      /\ Write(sent[c], SubSeq(Due, 1, n)) \in Seq(Event)
      /\ sent[c] # <<>> \/ n >= 1 => Write(sent[c], SubSeq(Due, 1, n)) # <<>>
  <2>1. sent[c] \in Seq(Event)
      BY DEF IInv, TypeOK
  <2>2. QED
      BY <1>1, <2>1, FirstEvents, WriteKeeps DEF SendAudio
<1>4. sent' \in [Conns -> Seq(Event)] /\ sent'[c] = Write(sent[c], SubSeq(Due, 1, n))
      /\ \A k \in Conns : k # c => sent'[k] = sent[k]
    BY <1>2, <1>3 DEF IInv, TypeOK
<1>5. \/ heard' = heard
      \/ n >= 1 /\ heard' = [heard EXCEPT ![c] = heard[c] \cup {session}]
    BY <1>1 DEF SendAudio
<1>6. /\ heard' \in [Conns -> SUBSET (1..MaxSessions)]
      /\ heard'[c] \subseteq {session}
      /\ heard'[c] # {} => n >= 1 \/ sent[c] # <<>>
      /\ \A k \in Conns : k # c => heard'[k] = heard[k]
  <2>1. CASE heard' = heard
      BY <1>2, <2>1 DEF IInv, TypeOK, ClientInv
  <2>2. CASE n >= 1 /\ heard' = [heard EXCEPT ![c] = heard[c] \cup {session}]
    <3>1. session \in 1..MaxSessions
        BY <1>1, BoundAssumption DEF IInv, TypeOK, ClientInv
    <3>2. QED
        BY <1>2, <2>2, <3>1 DEF IInv, TypeOK
  <2>3. QED
      BY <1>5, <2>1, <2>2
<1>7. CASE n < Len(Due)
  <2>1. client' = None /\ UNCHANGED <<call, vadDetector, chunks>>
      BY <1>7, DueEvents DEF SendAudio, vadVars
  <2>2. /\ audioSent' \in BOOLEAN /\ transcribeSent' \in BOOLEAN
        /\ written' \in BOOLEAN /\ resumed' \subseteq Conns
      BY DEF SendAudio, IInv, TypeOK
  <2>3. TypeOK'
      BY <1>1, <1>2, <1>4, <1>6, <2>1, <2>2 DEF IInv, TypeOK
  <2>4. DetectorInv'
      BY <2>1 DEF IInv, DetectorInv
  <2>5. ClientInv'
      BY <1>1, <1>3, <1>4, <1>6, <2>1 DEF IInv, ClientInv, OneSessionPerConnection
  <2>6. AnsweredInv'
      BY <1>1, <1>2, <1>3, <1>4, <2>1 DEF IInv, AnsweredInv, TypeOK
  <2>7. QED
      BY <2>3, <2>4, <2>5, <2>6 DEF IInv
<1>8. CASE n = Len(Due)
  <2> DEFINE e == ProcessAudio(vadDetector, rms)
  <2>1. /\ client' = c /\ vadDetector' = SpeechEndedTaken(e) /\ chunks' = Append(chunks, rms)
        /\ call' = IF e.speechEnded THEN "audioStop" ELSE "listening"
      BY <1>8, DueEvents DEF SendAudio
  <2>2. rms \in Nat
      BY EnergyAssumption
  <2>3. /\ Knows(vadDetector', chunks') /\ ~vadDetector'.speechEnded
        /\ vadDetector'.silentFrames <= MinSilenceFrames
        /\ e.speechEnded <=> vadDetector'.silentFrames >= MinSilenceFrames
      BY <1>1, <2>1, <2>2, ChunkKnows DEF IInv, DetectorInv
  <2>4. vadDetector'.silentFrames \in Nat /\ vadDetector'.framesProcessed = Len(chunks')
      BY <2>3 DEF Knows, DetectorType
  <2>5. DetectorInv'
      BY <2>1, <2>3, <2>4, Settings DEF DetectorInv
  <2>6. /\ audioSent' \in BOOLEAN /\ transcribeSent' \in BOOLEAN
        /\ written' \in BOOLEAN /\ resumed' \subseteq Conns
      BY DEF SendAudio, IInv, TypeOK
  <2>7. chunks' \in Seq(Energy)
      BY <2>1, AppendProperties DEF IInv, TypeOK
  <2>8. vadDetector'.silentFrames \in 0..MinSilenceFrames
      BY <2>3, <2>4, Settings
  <2>9. TypeOK'
      BY <1>1, <1>2, <1>4, <1>6, <2>1, <2>3, <2>4, <2>6, <2>7, <2>8 DEF IInv, TypeOK
  <2>10. n >= 1
      BY <1>8, DueEvents
  <2>11. ClientInv'
    <3>1. client' = c /\ c \in open' /\ sent'[c] # <<>> /\ heard'[c] \subseteq {session'}
        BY <1>1, <1>3, <1>4, <1>6, <2>1, <2>10
    <3>2. closed' = FALSE /\ session' # 0
        BY <1>1 DEF IInv, ClientInv, TypeOK
    <3>3. \A k \in Conns : heard'[k] # {} => sent'[k] # <<>>
        BY <1>4, <1>6, <3>1 DEF IInv, ClientInv
    <3>4. \A k \in Conns : \A s, t \in heard'[k] : s = t
        BY <1>6, <3>1 DEF IInv, ClientInv, OneSessionPerConnection
    <3>5. QED
        BY <3>1, <3>2, <3>3, <3>4 DEF ClientInv, OneSessionPerConnection
  <2>12. AnsweredInv'
      BY <1>1, <1>2, <1>3, <1>4, <2>1, <2>10, NoneAssumption DEF IInv, AnsweredInv, TypeOK
  <2>13. QED
      BY <2>5, <2>9, <2>11, <2>12 DEF IInv
<1>9. QED
    BY <1>1, <1>7, <1>8, DueEvents

\* The detector is only used while the caller listens.
LEMMA DetectorUntouched ==
    ASSUME IInv, UNCHANGED vadVars, call' = call \/ call' \notin {"listening", "audioStop"}
    PROVE  DetectorInv'
BY DEF IInv, DetectorInv, vadVars

\* Writing audio-stop, or failing to, keeps the inductive invariant.
LEMMA SendAudioStopInv == IInv /\ SendAudioStop => IInv'
<1> SUFFICES ASSUME IInv, SendAudioStop PROVE IInv'
    OBVIOUS
<1>1. DetectorInv'
    BY DetectorUntouched DEF SendAudioStop, vadVars
<1>2. sent' \in [Conns -> Seq(Event)] /\ \A c \in Conns : sent[c] # <<>> => sent'[c] # <<>>
  <2>1. CASE client # None /\ sent' = [sent EXCEPT ![client] = Write(@, <<"audio-stop">>)]
    <3>1. client \in Conns /\ sent[client] \in Seq(Event)
        BY <2>1 DEF IInv, TypeOK
    <3>2. Write(sent[client], <<"audio-stop">>) \in Seq(Event)
          /\ Write(sent[client], <<"audio-stop">>) # <<>>
        BY <3>1, StopEvent, WriteKeeps
    <3>3. QED
        BY <2>1, <3>1, <3>2 DEF IInv, TypeOK
  <2>2. CASE sent' = sent
      BY <2>2 DEF IInv, TypeOK
  <2>3. QED
      BY <2>1, <2>2 DEF SendAudioStop
<1>3. TypeOK'
    BY <1>2 DEF SendAudioStop, IInv, TypeOK, flagVars, vadVars, sessionVars
<1>4. ClientInv'
    BY <1>2 DEF SendAudioStop, IInv, TypeOK, ClientInv, OneSessionPerConnection, flagVars,
           sessionVars
<1>5. AnsweredInv'
    BY <1>2 DEF SendAudioStop, IInv, TypeOK, AnsweredInv, flagVars
<1>6. QED
    BY <1>1, <1>3, <1>4, <1>5 DEF IInv

\* The steps of Recv keep the inductive invariant.
LEMMA RecvInv ==
    IInv /\ (Recv \/ RecvRead \/ RecvTranscript \/ RecvOther \/ RecvFails) => IInv'
<1> SUFFICES ASSUME IInv, Recv \/ RecvRead \/ RecvTranscript \/ RecvOther \/ RecvFails
             PROVE  IInv'
    OBVIOUS
<1>1. DetectorInv'
    BY DetectorUntouched
       DEF Recv, RecvRead, RecvTranscript, RecvOther, RecvFails, vadVars
<1>2. CASE Recv
  <2>1. CASE closed /\ call' = "close" /\ UNCHANGED <<client, open>>
    <3>1. \A c \in answered \cap open : FALSE
        BY <1>2 DEF Recv, IInv, AnsweredInv
    <3>2. QED
        BY <1>1, <1>2, <2>1, <3>1
           DEF Recv, IInv, TypeOK, ClientInv, OneSessionPerConnection, AnsweredInv,
               flagVars, vadVars, sessionVars
  <2>2. CASE ~closed /\ call' \in {"close", "read"} /\ client' = client /\ open' = open
    <3>1. \A c \in answered \cap open : FALSE
        BY <1>2 DEF Recv, IInv, AnsweredInv
    <3>2. QED
        BY <1>1, <1>2, <2>2, <3>1
           DEF Recv, IInv, TypeOK, ClientInv, OneSessionPerConnection, AnsweredInv,
               flagVars, vadVars, sessionVars
  <2>3. ~closed => client # None
      BY <1>2 DEF Recv, IInv, AnsweredInv
  <2>4. client # None => Connected = {client} /\ open \cup {client} = open
      BY DEF Connected, IInv, ClientInv
  <2>5. QED
      BY <1>2, <2>1, <2>2, <2>3, <2>4 DEF Recv
<1>3. CASE RecvRead
    BY <1>1, <1>3
       DEF RecvRead, IInv, TypeOK, ClientInv, OneSessionPerConnection, AnsweredInv,
           flagVars, connVars, vadVars, sessionVars
<1>4. CASE RecvTranscript
  <2>1. reading = client /\ sent[reading] # <<>> /\ reading \in Conns
      BY <1>4 DEF RecvTranscript, IInv, TypeOK, AnsweredInv
  <2>2. QED
      BY <1>1, <1>4, <2>1, NoneAssumption
         DEF RecvTranscript, IInv, TypeOK, ClientInv, OneSessionPerConnection, AnsweredInv,
             flagVars, vadVars, sessionVars
<1>5. CASE RecvOther
    BY <1>1, <1>5
       DEF RecvOther, IInv, TypeOK, ClientInv, OneSessionPerConnection, AnsweredInv,
           flagVars, connVars, vadVars, sessionVars
<1>6. CASE RecvFails
    BY <1>1, <1>6
       DEF RecvFails, IInv, TypeOK, ClientInv, OneSessionPerConnection, AnsweredInv,
           flagVars, connVars, vadVars, sessionVars
<1>7. QED
    BY <1>2, <1>3, <1>4, <1>5, <1>6

\* What Close does to the connection, by the controller or by the shutdown function.
LEMMA CloseClientInv ==
    ASSUME IInv, CloseClient, UNCHANGED <<audioSent, transcribeSent, session, heard, answered>>
    PROVE  /\ client' = None /\ closed' = TRUE
           /\ open' \subseteq open /\ client \notin open'
           /\ sent' \in [Conns -> Seq(Event)]
           /\ \A c \in Conns : sent[c] # <<>> => sent'[c] # <<>>
<1>1. CASE closed
    BY <1>1, NoneAssumption DEF CloseClient, IInv, TypeOK, ClientInv
<1>2. CASE ~closed
  <2>1. client' = None /\ closed' = TRUE /\ open' = open \ {client}
      BY <1>2 DEF CloseClient
  <2>2. CASE client # None /\ sent' = [sent EXCEPT ![client] = Write(@, <<"audio-stop">>)]
    <3>1. client \in Conns /\ sent[client] \in Seq(Event)
        BY <2>2 DEF IInv, TypeOK
    <3>2. Write(sent[client], <<"audio-stop">>) \in Seq(Event)
          /\ Write(sent[client], <<"audio-stop">>) # <<>>
        BY <3>1, StopEvent, WriteKeeps
    <3>3. QED
        BY <2>1, <2>2, <3>1, <3>2 DEF IInv, TypeOK
  <2>3. CASE sent' = sent
      BY <2>1, <2>3 DEF IInv, TypeOK
  <2>4. QED
      BY <1>2, <2>2, <2>3 DEF CloseClient
<1>3. QED
    BY <1>1, <1>2

\* Close keeps the inductive invariant, whoever calls it.
LEMMA CloseInv == IInv /\ (Close \/ ShutdownClose) => IInv'
<1> SUFFICES ASSUME IInv, Close \/ ShutdownClose PROVE IInv'
    OBVIOUS
<1>1. /\ client' = None /\ closed' = TRUE
      /\ open' \subseteq open /\ client \notin open'
      /\ sent' \in [Conns -> Seq(Event)]
      /\ \A c \in Conns : sent[c] # <<>> => sent'[c] # <<>>
    BY CloseClientInv DEF Close, ShutdownClose, sessionVars
<1>2. /\ UNCHANGED <<audioSent, transcribeSent, session, heard, answered, reading, vadVars>>
      /\ UNCHANGED <<written, resumed>>
      /\ \/ call = "close" /\ call' = "idle" /\ shut' = shut
         \/ call' = call /\ shut' = TRUE
    BY DEF Close, ShutdownClose, sessionVars
<1>3. DetectorInv'
    BY <1>2, DetectorUntouched
<1>4. TypeOK'
    BY <1>1, <1>2 DEF IInv, TypeOK, vadVars
<1>5. ClientInv'
    BY <1>1, <1>2 DEF IInv, ClientInv, OneSessionPerConnection
<1>6. AnsweredInv'
  <2>1. \A c \in (answered \cap open)' : FALSE
      BY <1>1, <1>2 DEF IInv, AnsweredInv
  <2>2. call = "reading" => reading \in Conns
      BY DEF IInv, TypeOK
  <2>3. (call = "reading" => sent[reading] # <<>> /\ (reading = client \/ reading \notin open))'
      BY <1>1, <1>2, <2>2 DEF IInv, AnsweredInv
  <2>4. (\A c \in answered : sent[c] # <<>>)'
      BY <1>1, <1>2 DEF IInv, TypeOK, AnsweredInv
  <2>5. QED
      BY <1>1, <2>1, <2>3, <2>4 DEF AnsweredInv
<1>7. QED
    BY <1>3, <1>4, <1>5, <1>6 DEF IInv

-----------------------------------------------------------------------------
(* The order of events on a connection *)

\* The connection in hand carries the events of an utterance up to a chunk or to the first
\* audio-stop, and up to a chunk while the caller listens or was just told to stop.
FlowInv ==
    /\ FlowKept
    /\ audioSent => transcribeSent
    /\ transcribeSent => written
    /\ client # None =>
        \E first \in Firsts(client) :
            /\ PartFrom(sent[client], first)
            /\ Len(sent[client]) + first \in 4..5
            /\ call \in {"listening", "audioStop"} =>
                 audioSent /\ transcribeSent /\ Len(sent[client]) + first = 4

\* The events of an utterance, one by one.
LEMMA UtteranceIs ==
    /\ Len(Utterance) = 5
    /\ Utterance[1] = "transcribe" /\ Utterance[2] = "audio-start"
    /\ Utterance[3] = "audio-chunk" /\ Utterance[4] = "audio-stop"
    /\ Utterance[5] = "audio-stop"
BY DEF Utterance

\* A connection begins with one of the first three events.
LEMMA FirstsAre == \A c \in Conns : Firsts(c) \subseteq 1..3
BY DEF Firsts

\* audio-stop may follow a chunk, and one audio-stop.
LEMMA StopFollows ==
    ASSUME NEW log \in Seq(Event), NEW first \in 1..3, PartFrom(log, first),
           Len(log) + first \in 4..5
    PROVE  /\ PartFrom(Write(log, <<"audio-stop">>), first)
           /\ Len(Write(log, <<"audio-stop">>)) = Len(log) + 1
<1> DEFINE r == log \o <<"audio-stop">>
<1>1. Write(log, <<"audio-stop">>) = r
    BY DEF Write
<1>2. /\ Len(log) \in Nat /\ r \in Seq(Event) /\ Len(r) = Len(log) + 1
      /\ \A i \in 1..Len(log) : r[i] = log[i]
      /\ r[Len(log) + 1] = "audio-stop"
  <2>1. Len(log) \in Nat /\ Len(<<"audio-stop">>) = 1 /\ <<"audio-stop">>[1] = "audio-stop"
      BY LenProperties
  <2>2. /\ r \in Seq(Event) /\ Len(r) = Len(log) + Len(<<"audio-stop">>)
        /\ \A i \in 1..(Len(log) + Len(<<"audio-stop">>)) :
             r[i] = IF i <= Len(log) THEN log[i] ELSE <<"audio-stop">>[i - Len(log)]
      BY StopEvent, ConcatProperties
  <2>3. Len(log) + 1 \in 1..(Len(log) + 1) /\ ~(Len(log) + 1 <= Len(log))
        /\ (Len(log) + 1) - Len(log) = 1
      BY <2>1
  <2> HIDE DEF r
  <2>4. QED
      BY <2>1, <2>2, <2>3
<1> HIDE DEF r
<1>3. DOMAIN r = 1..(Len(log) + 1) /\ DOMAIN log = 1..Len(log)
    BY <1>2, LenProperties
<1>4. ASSUME NEW i \in 1..(Len(log) + 1) PROVE r[i] = Utterance[first + i - 1]
  <2>1. CASE i \in 1..Len(log)
      BY <1>2, <1>3, <2>1 DEF PartFrom
  <2>2. CASE i = Len(log) + 1
    <3>1. first + i - 1 \in {4, 5}
        BY <1>2, <2>2
    <3>2. Utterance[first + i - 1] = "audio-stop"
        BY <3>1, UtteranceIs
    <3>3. QED
        BY <1>2, <2>2, <3>2
  <2>3. QED
      BY <1>2, <2>1, <2>2
<1>5. Len(r) + first <= Len(Utterance) + 1
    BY <1>2, UtteranceIs
<1>6. QED
    BY <1>1, <1>2, <1>3, <1>4, <1>5 DEF PartFrom

\* What is due goes from the first event not yet sent in this session to a chunk.
DueFirst == IF ~transcribeSent THEN 1 ELSE IF ~audioSent THEN 2 ELSE 3

LEMMA DueIs ==
    ASSUME audioSent => transcribeSent
    PROVE  /\ DueFirst \in 1..3 /\ Len(Due) + DueFirst = 4
           /\ \A i \in 1..Len(Due) : Due[i] = Utterance[DueFirst + i - 1]
<1>1. CASE transcribeSent /\ audioSent
  <2>1. Due = <<"audio-chunk">>
      BY <1>1 DEF Due
  <2>2. Len(Due) = 1 /\ Due[1] = "audio-chunk" /\ DueFirst = 3
      BY <1>1, <2>1 DEF DueFirst
  <2>3. QED
      BY <2>2, UtteranceIs
<1>2. CASE transcribeSent /\ ~audioSent
  <2>1. Len(Due) = 2 /\ Due[1] = "audio-start" /\ Due[2] = "audio-chunk"
      BY <1>2 DEF Due
  <2>2. DueFirst = 2
      BY <1>2 DEF DueFirst
  <2>3. ASSUME NEW i \in 1..2 PROVE Due[i] = Utterance[2 + i - 1]
    <3>1. i = 1 \/ i = 2
        OBVIOUS
    <3>2. QED
        BY <2>1, <3>1, UtteranceIs
  <2>4. QED
      BY <2>1, <2>2, <2>3
<1>3. CASE ~transcribeSent
  <2>1. Len(Due) = 3 /\ Due[1] = "transcribe" /\ Due[2] = "audio-start"
        /\ Due[3] = "audio-chunk"
      BY <1>3 DEF Due
  <2>2. DueFirst = 1
      BY <1>3 DEF DueFirst
  <2>3. ASSUME NEW i \in 1..3 PROVE Due[i] = Utterance[1 + i - 1]
    <3>1. i = 1 \/ i = 2 \/ i = 3
        OBVIOUS
    <3>2. QED
        BY <2>1, <3>1, UtteranceIs
  <2>4. QED
      BY <2>1, <2>2, <2>3
<1>4. QED
    BY <1>1, <1>2, <1>3

\* The number of events due, when there is more than the chunk.
LEMMA DueLength ==
    /\ ~transcribeSent /\ ~audioSent => Len(Due) = 3
    /\ transcribeSent /\ ~audioSent => Len(Due) = 2
<1>1. ASSUME ~transcribeSent, ~audioSent PROVE Len(Due) = 3
    BY <1>1 DEF Due
<1>2. ASSUME transcribeSent, ~audioSent PROVE Len(Due) = 2
    BY <1>2 DEF Due
<1>3. QED
    BY <1>1, <1>2

\* The first events due, on a new connection.
LEMMA FirstFlow ==
    ASSUME NEW n \in 0..Len(Due), audioSent => transcribeSent
    PROVE  /\ PartFrom(Write(<<>>, SubSeq(Due, 1, n)), DueFirst)
           /\ Len(Write(<<>>, SubSeq(Due, 1, n))) = n
<1> DEFINE s == SubSeq(Due, 1, n)
<1>1. s \in Seq(Event) /\ Len(s) = n /\ \A i \in 1..n : s[i] = Due[i]
  <2>1. /\ s \in Seq(Event) /\ Len(s) = n
        /\ \A i \in 1..n : s[i] = Due[1 + i - 1]
      BY DueEvents, SubSeqProperties
  <2>2. \A i \in 1..n : 1 + i - 1 = i
      BY DueEvents
  <2>3. QED
      BY <2>1, <2>2
<1>2. Write(<<>>, s) = s
    BY <1>1, ConcatEmptySeq DEF Write
<1>3. DOMAIN s = 1..n
    BY <1>1, LenProperties
<1> HIDE DEF s
<1>4. \A i \in 1..n : s[i] = Utterance[DueFirst + i - 1]
    BY <1>1, DueIs, DueEvents
<1>5. Len(s) + DueFirst <= Len(Utterance) + 1
    BY <1>1, DueIs, DueEvents, UtteranceIs
<1>6. QED
    BY <1>1, <1>2, <1>3, <1>4, <1>5 DEF s, PartFrom

\* One more chunk on a connection that carries chunks adds nothing to its log.
LEMMA ChunkFlow ==
    ASSUME transcribeSent, audioSent, NEW n \in 0..Len(Due), NEW log \in Seq(Event),
           log # <<>>, log[Len(log)] = "audio-chunk"
    PROVE  Write(log, SubSeq(Due, 1, n)) = log
<1> DEFINE s == SubSeq(Due, 1, n)
<1>1. Due = <<"audio-chunk">>
    BY DEF Due
<1>2. s \in Seq(Event) /\ Len(s) = n /\ \A i \in 1..n : s[i] = Due[1 + i - 1]
    BY DueEvents, SubSeqProperties
<1>3. n = 0 \/ n = 1
    BY <1>1
<1> HIDE DEF s
<1>4. CASE n = 0
  <2>1. s = <<>>
      BY <1>2, <1>4, EmptySeq
  <2>2. QED
      BY <2>1, ConcatEmptySeq DEF s, Write
<1>5. CASE n = 1
  <2>1. Len(s) = 1 /\ s[1] = "audio-chunk" /\ s \in Seq(Event)
      BY <1>1, <1>2, <1>5
  <2>2. <<"audio-chunk">> \in Seq(Event) /\ Len(<<"audio-chunk">>) = 1
        /\ <<"audio-chunk">>[1] = "audio-chunk"
      BY DEF Event
  <2>3. s = <<"audio-chunk">>
      BY <2>1, <2>2, SeqEqual
  <2>4. QED
      BY <2>3 DEF s, Write
<1>6. QED
    BY <1>3, <1>4, <1>5

\* A chunk, or the part of it that was written, keeps the order: the connection goes on, or
\* a new one begins with the first event not yet sent.
LEMMA SendAudioFlow ==
    ASSUME IInv, FlowInv, NEW c \in Conns, NEW n \in 0..3, NEW rms \in Energy,
           SendAudio(c, n, rms)
    PROVE  FlowInv'
<1> DEFINE log == Write(sent[c], SubSeq(Due, 1, n))
<1>1. /\ n \in 0..Len(Due) /\ call = "listening" /\ c \in Connected
      /\ sent' = [sent EXCEPT ![c] = log]
      /\ resumed' = IF client = None /\ written THEN resumed \cup {c} ELSE resumed
      /\ written' = (written \/ n >= 1)
    BY DEF SendAudio
<1>2. c \in Conns /\ (c = client \/ sent[c] = <<>>)
    BY <1>1, ConnectedIsFresh
<1>3. sent'[c] = log /\ \A k \in Conns : k # c => sent'[k] = sent[k]
    BY <1>1, <1>2 DEF IInv, TypeOK
<1>4. \E first \in Firsts(c)' :
        /\ PartFrom(log, first)
        /\ n = Len(Due) => Len(log) + first = 4
  <2>1. CASE sent[c] = <<>>
    <3>1. client = None
        BY <1>1, <2>1 DEF Connected, IInv, ClientInv
    <3>2. (audioSent => transcribeSent) /\ (transcribeSent => written)
        BY DEF FlowInv
    <3>3. PartFrom(log, DueFirst) /\ Len(log) = n
        BY <1>1, <2>1, <3>2, FirstFlow
    <3>4. DueFirst \in 1..3 /\ Len(Due) + DueFirst = 4
        BY <3>2, DueIs
    <3>5. DueFirst \in Firsts(c)'
      <4>1. CASE written
          BY <1>1, <3>1, <3>4, <4>1 DEF Firsts
      <4>2. CASE ~written
          BY <3>2, <4>2 DEF Firsts, DueFirst
      <4>3. QED
          BY <4>1, <4>2
    <3> HIDE DEF log
    <3>6. QED
        BY <3>3, <3>4, <3>5
  <2>2. CASE sent[c] # <<>>
    <3>1. c = client /\ client # None /\ sent[c] \in Seq(Event)
        BY <1>1, <1>2, <2>2, NoneAssumption DEF IInv, TypeOK
    <3>2. PICK first \in Firsts(client) :
            /\ PartFrom(sent[client], first) /\ Len(sent[client]) + first = 4
            /\ audioSent /\ transcribeSent
        BY <1>1, <3>1 DEF FlowInv
    <3>3. sent[c][Len(sent[c])] = "audio-chunk"
      <4>1. Len(sent[c]) \in Nat /\ DOMAIN sent[c] = 1..Len(sent[c])
          BY <3>1, LenProperties
      <4>2. Len(sent[c]) # 0
          BY <2>2, <3>1, EmptySeq
      <4>3. sent[c][Len(sent[c])] = Utterance[first + Len(sent[c]) - 1]
          BY <3>1, <3>2, <4>1, <4>2 DEF PartFrom
      <4>4. first + Len(sent[c]) - 1 = 3
          BY <3>1, <3>2, <4>1, FirstsAre
      <4>5. QED
          BY <4>3, <4>4, UtteranceIs
    <3>4. log = sent[c]
        BY <1>1, <2>2, <3>1, <3>2, <3>3, ChunkFlow
    <3>5. Firsts(c)' = Firsts(c)
        BY <1>1, <3>1 DEF Firsts
    <3> HIDE DEF log
    <3>6. QED
        BY <3>1, <3>2, <3>4, <3>5
  <2>3. QED
      BY <2>1, <2>2
<1> HIDE DEF log
<1>5. FlowKept'
  <2>1. ASSUME NEW k \in Conns, k # c
        PROVE  \E first \in Firsts(k)' : PartFrom(sent'[k], first)
    <3>1. Firsts(k)' = Firsts(k)
        BY <1>1, <2>1 DEF Firsts
    <3>2. QED
        BY <1>3, <2>1, <3>1 DEF FlowInv, FlowKept
  <2>2. \E first \in Firsts(c)' : PartFrom(sent'[c], first)
      BY <1>3, <1>4
  <2>3. QED
      BY <2>1, <2>2 DEF FlowKept
<1>6. /\ audioSent' => transcribeSent'
      /\ transcribeSent' => written'
      /\ n = Len(Due) => audioSent' /\ transcribeSent'
  <2>1. /\ transcribeSent' = (transcribeSent \/ \E i \in 1..n : Due[i] = "transcribe")
        /\ audioSent' = (audioSent \/ \E i \in 1..n : Due[i] = "audio-start")
      BY DEF SendAudio
  <2>2. /\ audioSent => transcribeSent
        /\ transcribeSent => written
        /\ ~transcribeSent => Len(Due) = 3
        /\ transcribeSent /\ ~audioSent => Len(Due) = 2
        /\ \A i \in 1..Len(Due) : Due[i] = Utterance[DueFirst + i - 1]
      BY DueIs, DueLength DEF FlowInv
  <2>3. CASE ~transcribeSent
    <3>1. DueFirst = 1 /\ Len(Due) = 3 /\ ~audioSent
        BY <2>2, <2>3 DEF DueFirst
    <3>2. n >= 1 => Due[1] = "transcribe" /\ 1 \in 1..n
        BY <2>2, <3>1, UtteranceIs
    <3>3. n = 3 => Due[2] = "audio-start" /\ 2 \in 1..n
        BY <2>2, <3>1, UtteranceIs
    <3>4. n >= 1 => transcribeSent' /\ written'
        BY <1>1, <2>1, <3>2
    <3>5. n = 3 => audioSent'
        BY <2>1, <3>3
    <3>6. ~(n >= 1) => 1..n = {}
        OBVIOUS
    <3>7. ~(n >= 1) => ~transcribeSent' /\ ~audioSent'
        BY <2>1, <2>3, <3>1, <3>6
    <3>8. n = Len(Due) => n = 3 /\ n >= 1
        BY <3>1
    <3>9. QED
        BY <3>4, <3>5, <3>7, <3>8
  <2>4. CASE transcribeSent /\ ~audioSent
    <3>1. DueFirst = 2 /\ Len(Due) = 2
        BY <2>2, <2>4 DEF DueFirst
    <3>2. Due[1] = "audio-start"
        BY <2>2, <3>1, UtteranceIs
    <3>3. n = 2 => 1 \in 1..n
        OBVIOUS
    <3>4. QED
        BY <1>1, <2>1, <2>2, <2>4, <3>1, <3>2, <3>3
  <2>5. CASE transcribeSent /\ audioSent
      BY <1>1, <2>1, <2>2, <2>5
  <2>6. QED
      BY <2>3, <2>4, <2>5
<1>7. CASE n < Len(Due)
  <2>1. client' = None
      BY <1>7, DueEvents DEF SendAudio
  <2>2. QED
      BY <1>5, <1>6, <2>1 DEF FlowInv
<1>8. CASE n = Len(Due)
  <2>1. client' = c
      BY <1>8, DueEvents DEF SendAudio
  <2>2. PICK first \in Firsts(c)' : PartFrom(log, first) /\ Len(log) + first = 4
      BY <1>4, <1>8
  <2>3. QED
      BY <1>3, <1>5, <1>6, <1>8, <2>1, <2>2 DEF FlowInv
<1>9. QED
    BY <1>1, <1>7, <1>8, DueEvents

\* audio-stop after the last chunk keeps the order.
LEMMA SendAudioStopFlow == IInv /\ FlowInv /\ SendAudioStop => FlowInv'
<1> SUFFICES ASSUME IInv, FlowInv, SendAudioStop PROVE FlowInv'
    OBVIOUS
<1>1. /\ client' = client /\ call' = "recv" /\ call = "audioStop"
      /\ UNCHANGED <<audioSent, transcribeSent, written, resumed>>
    BY DEF SendAudioStop, flagVars, sessionVars
<1>2. \A c \in Conns : Firsts(c)' = Firsts(c)
    BY <1>1 DEF Firsts
<1>3. CASE UNCHANGED sent
  <2>1. FlowKept'
      BY <1>2, <1>3 DEF FlowInv, FlowKept
  <2>2. client # None => client \in Conns
      BY DEF IInv, TypeOK
  <2>3. QED
      BY <1>1, <1>2, <1>3, <2>1, <2>2 DEF FlowInv
<1>4. CASE client # None /\ sent' = [sent EXCEPT ![client] = Write(@, <<"audio-stop">>)]
  <2>1. client \in Conns /\ sent[client] \in Seq(Event)
      BY <1>4 DEF IInv, TypeOK
  <2>2. PICK first \in Firsts(client) :
          PartFrom(sent[client], first) /\ Len(sent[client]) + first = 4
      BY <1>1, <1>4 DEF FlowInv
  <2>3. /\ sent'[client] = Write(sent[client], <<"audio-stop">>)
        /\ \A k \in Conns : k # client => sent'[k] = sent[k]
      BY <1>4, <2>1 DEF IInv, TypeOK
  <2>4. first \in 1..3
      BY <2>1, <2>2, FirstsAre
  <2>5. PartFrom(sent'[client], first) /\ Len(sent'[client]) = Len(sent[client]) + 1
      BY <2>1, <2>2, <2>3, <2>4, StopFollows
  <2>6. Len(sent'[client]) + first \in 4..5
      BY <2>1, <2>2, <2>4, <2>5, LenProperties
  <2>7. FlowKept'
      BY <1>2, <2>2, <2>3, <2>5 DEF FlowInv, FlowKept
  <2>8. QED
      BY <1>1, <1>2, <2>1, <2>2, <2>5, <2>6, <2>7 DEF FlowInv
<1>5. QED
    BY <1>3, <1>4 DEF SendAudioStop

\* The audio-stop that Close writes keeps the order, whoever calls it.
LEMMA CloseFlow == IInv /\ FlowInv /\ (Close \/ ShutdownClose) => FlowInv'
<1> SUFFICES ASSUME IInv, FlowInv, Close \/ ShutdownClose PROVE FlowInv'
    OBVIOUS
<1>1. CloseClient /\ UNCHANGED <<audioSent, transcribeSent, written, resumed>>
    BY DEF Close, ShutdownClose, sessionVars
<1>2. client' = None
    BY CloseClientInv DEF Close, ShutdownClose, sessionVars
<1>3. \A c \in Conns : Firsts(c)' = Firsts(c)
    BY <1>1 DEF Firsts
<1>4. FlowKept'
  <2>1. CASE UNCHANGED sent
      BY <1>3, <2>1 DEF FlowInv, FlowKept
  <2>2. CASE client # None /\ sent' = [sent EXCEPT ![client] = Write(@, <<"audio-stop">>)]
    <3>1. client \in Conns /\ sent[client] \in Seq(Event)
        BY <2>2 DEF IInv, TypeOK
    <3>2. PICK first \in Firsts(client) :
            PartFrom(sent[client], first) /\ Len(sent[client]) + first \in 4..5
        BY <2>2 DEF FlowInv
    <3>3. first \in 1..3
        BY <3>1, <3>2, FirstsAre
    <3>4. PartFrom(Write(sent[client], <<"audio-stop">>), first)
        BY <3>1, <3>2, <3>3, StopFollows
    <3>5. /\ sent'[client] = Write(sent[client], <<"audio-stop">>)
          /\ \A k \in Conns : k # client => sent'[k] = sent[k]
        BY <2>2, <3>1 DEF IInv, TypeOK
    <3>6. QED
        BY <1>3, <3>2, <3>4, <3>5 DEF FlowInv, FlowKept
  <2>3. QED
      BY <1>1, <2>1, <2>2 DEF CloseClient
<1>5. QED
    BY <1>1, <1>2, <1>4 DEF FlowInv

\* The other steps write nothing, and take no connection but the one in hand.
LEMMA OthersFlow ==
    IInv /\ FlowInv /\ (Reset \/ Recv \/ RecvRead \/ RecvTranscript \/ RecvOther \/ RecvFails)
      => FlowInv'
<1> SUFFICES ASSUME IInv, FlowInv,
                    Reset \/ Recv \/ RecvRead \/ RecvTranscript \/ RecvOther \/ RecvFails
             PROVE  FlowInv'
    OBVIOUS
<1>1. sent' = sent /\ resumed' = resumed
    BY DEF Reset, Recv, RecvRead, RecvTranscript, RecvOther, RecvFails, connVars, sessionVars
<1>2. client' = None \/ (client' = client /\ call' \notin {"listening", "audioStop"})
  <2>1. CASE Recv
    <3>1. ~closed => client # None
        BY <2>1 DEF Recv, IInv, AnsweredInv
    <3>2. QED
        BY <2>1, <3>1 DEF Recv, Connected
  <2>2. CASE ~Recv
      BY <2>2 DEF Reset, RecvRead, RecvTranscript, RecvOther, RecvFails
  <2>3. QED
      BY <2>1, <2>2
<1>3. (audioSent' => transcribeSent') /\ (transcribeSent' => written')
  <2>1. CASE Reset
      BY <2>1 DEF Reset
  <2>2. CASE ~Reset
      BY <2>2 DEF Recv, RecvRead, RecvTranscript, RecvOther, RecvFails, flagVars, sessionVars,
                  FlowInv
  <2>3. QED
      BY <2>1, <2>2
<1>4. \A c : Firsts(c)' = Firsts(c)
    BY <1>1 DEF Firsts
<1>5. FlowKept'
    BY <1>1, <1>4 DEF FlowInv, FlowKept
<1>6. QED
    BY <1>1, <1>2, <1>3, <1>4, <1>5 DEF FlowInv

-----------------------------------------------------------------------------
(* The theorems *)

\* The inductive invariant holds in every reachable state: what the transcriber, its
\* connections and its detector are between the calls of wyoming.go 80-260.
THEOREM InvariantHolds == Spec => []IInv
<1>1. IInv /\ [Next]_vars => IInv'
  <2> SUFFICES ASSUME IInv, [Next]_vars PROVE IInv'
      OBVIOUS
  <2>1. CASE UNCHANGED vars
      BY <2>1 DEF vars, flagVars, vadVars, connVars, sessionVars, IInv, TypeOK, DetectorInv, ClientInv,
                  AnsweredInv, OneSessionPerConnection
  <2>2. CASE Next
      BY <2>2, ResetInv, SendAudioInv, SendAudioStopInv, RecvInv, CloseInv DEF Next
  <2>3. QED
      BY <2>1, <2>2
<1>2. QED
    BY InitInv, <1>1, PTL DEF Spec

\* Every variable keeps its type, and the detector counts no more silent frames than it
\* waits for.
THEOREM TypeCorrect == Spec => []TypeOK
<1>1. IInv => TypeOK
    BY DEF IInv
<1>2. QED
    BY <1>1, InvariantHolds, PTL

\* No connection carries the audio of two sessions (wyoming.go 236-247), for any number of
\* sessions, connections and failed writes.
THEOREM ConnectionsCarryOneSession == Spec => []OneSessionPerConnection
<1>1. IInv => OneSessionPerConnection
    BY DEF IInv, ClientInv
<1>2. QED
    BY <1>1, InvariantHolds, PTL

\* The connection in hand is never one that was closed (wyoming.go 184-212).
THEOREM ClientIsAlwaysOpen == Spec => []ClientIsOpen
<1>1. IInv => ClientIsOpen
    BY DEF IInv, ClientInv, ClientIsOpen
<1>2. QED
    BY <1>1, InvariantHolds, PTL

\* A connection whose session was answered is closed before the next session
\* (wyoming.go 184-212, phases.go 88-103).
THEOREM AnsweredConnectionsAreClosed == Spec => []AnsweredConnectionsClose
<1>1. IInv => AnsweredConnectionsClose
    BY DEF IInv, AnsweredInv, AnsweredConnectionsClose
<1>2. QED
    BY <1>1, InvariantHolds, PTL

\* A connection carries the events of an utterance in their order, none left out and none
\* twice but the audio-stop that Close repeats, and from the first one on unless it was
\* dialled after a write had failed (wyoming.go 88-150, 184-212, 236-247), for any number of
\* sessions, connections and failed writes.
THEOREM FlowIsAlwaysKept == Spec => []FlowKept
<1>1. Init => FlowInv
  <2>1. Len(<<>>) = 0 /\ DOMAIN <<>> = {}
      OBVIOUS
  <2>2. PartFrom(<<>>, 1)
      BY <2>1, UtteranceIs DEF PartFrom
  <2>3. QED
      BY <2>2 DEF Init, FlowInv, FlowKept, Firsts
<1>2. IInv /\ FlowInv /\ [Next]_vars => FlowInv'
  <2> SUFFICES ASSUME IInv, FlowInv, [Next]_vars PROVE FlowInv'
      OBVIOUS
  <2>1. CASE UNCHANGED vars
      BY <2>1 DEF vars, flagVars, connVars, sessionVars, FlowInv, FlowKept, Firsts
  <2>2. CASE Next
      BY <2>2, SendAudioFlow, SendAudioStopFlow, CloseFlow, OthersFlow DEF Next
  <2>3. QED
      BY <2>1, <2>2
<1>3. FlowInv => FlowKept
    BY DEF FlowInv
<1>4. QED
    BY <1>1, <1>2, <1>3, InvariantHolds, PTL DEF Spec

\* Speech louder than the threshold ratio times the first chunk never ends an utterance
\* (detector.go 79-135), for any energies, ratio and lengths.
THEOREM SpeechIsNeverSilence == Spec => []SpeechIsNotSilence
<1>1. IInv => SpeechIsNotSilence
  <2> SUFFICES ASSUME IInv, call = "audioStop" PROVE
        /\ Len(chunks) >= LearningFrames + MinSilenceFrames
        /\ \A i \in LastChunks : chunks[i] < ThresholdFor(chunks[1])
      BY DEF SpeechIsNotSilence
  <2>1. /\ Knows(vadDetector, chunks) /\ vadDetector.silentFrames >= MinSilenceFrames
        /\ vadDetector.silentFrames <= MinSilenceFrames
      BY DEF IInv, DetectorInv
  <2>2. vadDetector.silentFrames \in Nat /\ Len(chunks) \in Nat
      BY <2>1, LenProperties DEF Knows, DetectorType
  <2>3. vadDetector.silentFrames = MinSilenceFrames /\ ~vadDetector.isLearning
      BY <2>1, <2>2, Settings DEF Knows
  <2>4. Len(chunks) >= LearningFrames + MinSilenceFrames
      BY <2>1, <2>2, <2>3, Settings DEF Knows
  <2>5. ASSUME NEW i \in LastChunks PROVE chunks[i] < ThresholdFor(chunks[1])
    <3>1. i \in 1..Len(chunks) /\ i > Len(chunks) - vadDetector.silentFrames
        BY <2>2, <2>3, <2>4, Settings DEF LastChunks
    <3>2. QED
        BY <2>1, <2>3, <3>1 DEF Knows
  <2>6. QED
      BY <2>4, <2>5
<1>2. QED
    BY <1>1, InvariantHolds, PTL

\* Enough chunks below the lowest threshold always end the utterance (detector.go 129-132),
\* for any energies, ratio and lengths.
THEOREM SilenceAlwaysEndsUtterance == Spec => []SilenceEndsUtterance
<1>1. IInv => SilenceEndsUtterance
  <2> SUFFICES ASSUME IInv, call = "listening",
                      Len(chunks) >= LearningFrames + MinSilenceFrames
               PROVE  \E i \in LastChunks : chunks[i] >= MinThreshold
      BY DEF SilenceEndsUtterance
  <2> DEFINE k == Len(chunks) - vadDetector.silentFrames
  <2>1. Knows(vadDetector, chunks) /\ vadDetector.silentFrames < MinSilenceFrames
      BY DEF IInv, DetectorInv
  <2>2. vadDetector.silentFrames \in Nat /\ Len(chunks) \in Nat
      BY <2>1, LenProperties DEF Knows, DetectorType
  <2>3. ~vadDetector.isLearning
      BY <2>1, <2>2, Settings DEF Knows
  <2>4. vadDetector.silentFrames + LearningFrames < Len(chunks)
      BY <2>1, <2>2, Settings
  <2>5. chunks[k] >= MinThreshold
      BY <2>1, <2>3, <2>4 DEF Knows
  <2>6. k \in LastChunks
      BY <2>1, <2>2, Settings DEF LastChunks
  <2>7. QED
      BY <2>5, <2>6
<1>2. QED
    BY <1>1, InvariantHolds, PTL
=============================================================================
