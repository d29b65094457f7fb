----------------------------- MODULE VadDetector -----------------------------
(***************************************************************************)
(* The voice activity detector (internal/vad/detector.go) as operators on  *)
(* the record of its fields.  A chunk of audio is its energy.  Energies,   *)
(* noise floor and threshold are whole numbers, rounded down where the     *)
(* code has fractions.                                                     *)
(***************************************************************************)
EXTENDS Naturals

CONSTANTS
    LearningFrames,     \* chunks the noise floor is learned from (16)
    MinSilenceFrames,   \* chunks of silence that end an utterance (31)
    UpdateEvery,        \* chunks between updates of the noise floor (100)
    RatioTenths,        \* threshold over noise floor, in tenths (25)
    MinThreshold        \* the lowest threshold (50)

ASSUME DetectorAssumption ==
    /\ LearningFrames \in Nat \ {0} /\ MinSilenceFrames \in Nat \ {0}
    /\ UpdateEvery \in Nat \ {0} /\ RatioTenths \in Nat /\ MinThreshold \in Nat

Lower(a, b) == IF a < b THEN a ELSE b
Higher(a, b) == IF a < b THEN b ELSE a

NewDetector ==
    [framesProcessed |-> 0, isLearning |-> TRUE, noiseFloor |-> 0, threshold |-> 0,
     silentFrames |-> 0, wasSpeaking |-> FALSE, speechEnded |-> FALSE]

\* Mutant: what was learned survives a reset.
ResetKeepsThreshold(d) ==
    [d EXCEPT !.silentFrames = 0, !.wasSpeaking = FALSE, !.speechEnded = FALSE]

ResetDetector(d) ==
    [d EXCEPT !.silentFrames = 0, !.wasSpeaking = FALSE, !.speechEnded = FALSE,
              !.framesProcessed = 0, !.isLearning = TRUE, !.noiseFloor = 0, !.threshold = 0]

ThresholdFor(floor) == Higher(MinThreshold, (RatioTenths * floor) \div 10)

\* The noise floor follows the quietest chunk, and is the first one to begin with.
LearnedFloor(d, rms) ==
    IF d.framesProcessed = 0 THEN rms
    ELSE (95 * d.noiseFloor + 5 * Lower(d.noiseFloor, rms)) \div 100

Learn(d, rms) ==
    LET floor == LearnedFloor(d, rms)
        done == d.framesProcessed + 1 >= LearningFrames
    IN  [d EXCEPT !.framesProcessed = @ + 1,
                  !.noiseFloor = floor,
                  !.isLearning = ~done,
                  !.threshold = IF done THEN ThresholdFor(floor) ELSE @,
                  !.wasSpeaking = done \/ @]

\* Every so often a chunk that is not much louder than the noise floor lowers it.
UpdateFloor(d, rms) ==
    IF d.framesProcessed % UpdateEvery = 0 /\ 10 * rms < 15 * d.noiseFloor
    THEN LET floor == (99 * d.noiseFloor + Lower(d.noiseFloor, rms)) \div 100
         IN  [d EXCEPT !.noiseFloor = floor, !.threshold = ThresholdFor(floor)]
    ELSE d

\* Mutant: one more chunk of silence is waited for.
JudgeOneLate(d, rms) ==
    LET silent == IF rms < d.threshold THEN d.silentFrames + 1 ELSE 0
        speaking == d.wasSpeaking \/ rms >= d.threshold
    IN  [d EXCEPT !.silentFrames = silent,
                  !.wasSpeaking = speaking,
                  !.speechEnded = @ \/ (silent > MinSilenceFrames /\ speaking)]

Judge(d, rms) ==
    LET silent == IF rms < d.threshold THEN d.silentFrames + 1 ELSE 0
        speaking == d.wasSpeaking \/ rms >= d.threshold
    IN  [d EXCEPT !.silentFrames = silent,
                  !.wasSpeaking = speaking,
                  !.speechEnded = @ \/ (silent >= MinSilenceFrames /\ speaking)]

ProcessAudio(d, rms) ==
    IF d.isLearning THEN Learn(d, rms)
    ELSE Judge(UpdateFloor([d EXCEPT !.framesProcessed = @ + 1], rms), rms)

\* Mutant: the flag is given and not cleared.
SpeechEndedKept(d) == d

\* SpeechEnded gives the flag and clears it.
SpeechEndedTaken(d) == [d EXCEPT !.speechEnded = FALSE]
=============================================================================
