------------------------------ MODULE GabbyTurn -----------------------------
(***************************************************************************)
(* The conversation of one call handler of gabby: gabby/src/pipeline/      *)
(* vad.rs, which decides from the energy of the audio and the partial      *)
(* texts of the recogniser when the caller has finished, and the turn that *)
(* call.rs then takes with language model and synthesiser.  While it does, *)
(* the packets wait in the socket, and are then handled without time       *)
(* passing in between.                                                     *)
(***************************************************************************)
EXTENDS Integers, FiniteSetsExt

CONSTANTS
    Texts,          \* partial texts of the recogniser
    SilenceTime,    \* silence_duration, in units of the clock
    StableBonus,    \* what a stable text takes off it (200 ms)
    MinUtterance,   \* min_utterance_duration
    MaxTurns        \* bound: utterances

VARIABLES
    vad,            \* VadState
    doing,          \* what the handler is at: listening, greeting, thinking or speaking
    greeted,
    turns,          \* utterances begun
    quiet           \* the caller has finished, for good

gtVars == <<vad, doing, greeted, turns, quiet>>

NoText == "none"
StableEnough == 4
Horizon == Max({SilenceTime, MinUtterance})

\* The two instants are kept as the time since, up to Horizon.
Reset == [in_utterance |-> FALSE, speech_start |-> 0, last_speech |-> 0, last_partial |-> NoText,
          stable_count |-> 0]

GtInit ==
    vad = Reset /\ doing = "listening" /\ greeted = FALSE /\ turns = 0 /\ quiet = FALSE

Later(v, d) ==
    [v EXCEPT !.speech_start = IF v.in_utterance THEN Min({@ + d, Horizon}) ELSE 0,
              !.last_speech = Min({@ + d, Horizon})]

\* Mutant: any text counts as a change.
TextChanged_Any(v, text) == text # NoText

TextChanged(v, text) == text # NoText /\ text # v.last_partial

\* The stability of the partial text; the count matters up to StableEnough.
Heard(v, text) ==
    IF TextChanged(v, text) THEN [v EXCEPT !.last_partial = text, !.stable_count = 0]
    ELSE IF text # NoText THEN [v EXCEPT !.stable_count = Min({@ + 1, StableEnough})]
    ELSE v

LongEnough(v) ==
    /\ v.last_speech >= SilenceTime - (IF v.stable_count = StableEnough THEN StableBonus ELSE 0)
    /\ v.speech_start >= MinUtterance

\* VadState::process: <<decision, new state>>.
Process(v, speech, text) ==
    LET w == Heard(v, text) IN
    CASE ~v.in_utterance /\ speech  -> <<"SpeechStart", [Reset EXCEPT !.in_utterance = TRUE]>>
      [] ~v.in_utterance /\ ~speech -> <<"Silence", w>>
      [] v.in_utterance /\ (speech \/ TextChanged(v, text)) ->
             <<"SpeechContinue", [w EXCEPT !.last_speech = 0]>>
      [] OTHER -> IF LongEnough(w) THEN <<"SpeechEnd", [Reset EXCEPT !.last_speech = w.last_speech]>>
                  ELSE <<"SpeechContinue", w>>

-----------------------------------------------------------------------------
\* handle_rtp_receive: the first packet is greeted before its audio is looked at.
SendGreeting ==
    /\ doing = "listening" /\ ~greeted
    /\ greeted' = TRUE /\ doing' = "greeting"
    /\ UNCHANGED <<vad, turns, quiet>>

\* handle_rtp_packet and handle_vad_decision for 200 ms of audio, d units after the last ones.
\* An empty transcript ends the turn at once.
HandleChunk(speech, text, d) ==
    LET r == Process(Later(vad, d), speech, text) IN
    /\ doing = "listening" /\ greeted
    /\ r[1] = "SpeechStart" => turns < MaxTurns
    /\ turns' = IF r[1] = "SpeechStart" THEN turns + 1 ELSE turns
    /\ \/ r[1] # "SpeechEnd" /\ vad' = r[2] /\ UNCHANGED doing
       \/ r[1] = "SpeechEnd" /\ vad' = Reset /\ UNCHANGED doing
       \/ r[1] = "SpeechEnd" /\ vad' = r[2] /\ doing' = "thinking"
    /\ UNCHANGED <<greeted, quiet>>

Packet ==
    \/ \E speech \in BOOLEAN, text \in Texts \cup {NoText}, d \in {0, 1} :
           ~quiet /\ HandleChunk(speech, text, d)
    \/ \E text \in {NoText, CHOOSE t \in Texts : TRUE}, d \in {0, 1} :
           quiet /\ HandleChunk(FALSE, text, d)

\* process_user_turn: chat_complete always returns something to say, an apology if need be.
ChatComplete ==
    doing = "thinking" /\ doing' = "speaking" /\ UNCHANGED <<vad, greeted, turns, quiet>>

\* synthesize_and_queue returns, with audio or without; after a turn recogniser and VAD start
\* over, after the greeting nothing does.
Synthesized ==
    /\ doing \in {"greeting", "speaking"}
    /\ doing' = "listening"
    /\ vad' = IF doing = "speaking" THEN Reset ELSE vad
    /\ UNCHANGED <<greeted, turns, quiet>>

\* The caller says no more; the recogniser comes to one text, or to none.
FallQuiet == ~quiet /\ quiet' = TRUE /\ UNCHANGED <<vad, doing, greeted, turns>>

GtNext == SendGreeting \/ Packet \/ ChatComplete \/ Synthesized \/ FallQuiet

\* The phone of the caller sends audio as time passes, silence too, and the requests to model
\* and synthesiser have timeouts.
InTime == \E text \in {NoText, CHOOSE t \in Texts : TRUE} : quiet /\ HandleChunk(FALSE, text, 1)
GtFairness == WF_gtVars(InTime \/ ChatComplete \/ Synthesized)

GtSpec == GtInit /\ [][GtNext]_gtVars /\ GtFairness

-----------------------------------------------------------------------------
\* A caller who has finished is taken at his word: the utterance ends and its turn is taken,
\* although every change of the partial text puts the end off, and audio that waited in the
\* socket is handled in no time at all.
TurnIsTaken == []<>(quiet => ~vad.in_utterance /\ doing = "listening")
=============================================================================
