---------------------------- MODULE VoicePipeline ----------------------------
(***************************************************************************)
(* What the device is promised: the order of the voice-assistant events    *)
(* that the driver sends it, whatever the driver does in between.          *)
(*                                                                         *)
(* One run of the pipeline is  STTStart, VADEnd, STTEnd(text), TTSStart,   *)
(* TTSEnd  (the CommandType constants of internal/esphome/command.go).  A  *)
(* run may be abandoned without a word after any of them except TTSStart,  *)
(* which is always followed by its TTSEnd.  RunEnd is sent once for each   *)
(* announced audio file that was played, and may come during the next run. *)
(***************************************************************************)
EXTENDS Naturals

CONSTANT ErrorResponse      \* the sentence that stands in for a failed answer

VARIABLES
    session,    \* number of runs begun; the words heard in run n are called n
    said,       \* the last event of the pipeline and the text it carried
    announced   \* an audio URL was sent and its RunEnd was not

vars == <<session, said, announced>>

NoText == 0     \* the empty string

Init ==
    /\ session = 0
    /\ said = [type |-> "none", text |-> NoText]
    /\ announced = FALSE

Say(type, text) == said' = [type |-> type, text |-> text]

STTStart ==
    /\ said.type # "TTSStart"
    /\ session' = session + 1
    /\ Say("STTStart", NoText)
    /\ UNCHANGED announced

VADEnd ==
    /\ said.type = "STTStart"
    /\ Say("VADEnd", NoText)
    /\ UNCHANGED <<session, announced>>

\* The transcript of a run is its own words or nothing, never those of a run before.
STTEnd ==
    /\ said.type = "VADEnd"
    /\ \E text \in {NoText, session} : Say("STTEnd", text)
    /\ UNCHANGED <<session, announced>>

\* What is spoken answers the transcript just sent; an empty one is not answered.
TTSStart ==
    /\ said.type = "STTEnd"
    /\ said.text # NoText
    /\ \E text \in {said.text, ErrorResponse} : Say("TTSStart", text)
    /\ UNCHANGED <<session, announced>>

TTSEnd ==
    /\ said.type = "TTSStart"
    /\ Say("TTSEnd", said.text)
    /\ announced' \in {announced, TRUE}
    /\ UNCHANGED session

RunEnd ==
    /\ announced
    /\ announced' = FALSE
    /\ UNCHANGED <<session, said>>

Next == STTStart \/ VADEnd \/ STTEnd \/ TTSStart \/ TTSEnd \/ RunEnd

Spec == Init /\ [][Next]_vars
=============================================================================
