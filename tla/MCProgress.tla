----------------------------- MODULE MCProgress -----------------------------
(***************************************************************************)
(* The parts of the stack that have to get somewhere with nobody's help:   *)
(* the checks of ICE end, a send over TCP gets through, and the codec      *)
(* reaches the rate the network allows.  They share no state, so each      *)
(* behaviour follows one of them, focus, and leaves the others at rest.    *)
(***************************************************************************)
EXTENDS MCIceSession, StreamTransport, BitrateControl

VARIABLE focus

progVars == <<focus, iceVars, stVars, bcVars>>

ProgInit ==
    /\ focus \in {"ice", "transport", "bitrate"}
    /\ IceInit /\ StInit /\ BcInit
    /\ focus # "ice" => paths = OneNat
    /\ focus # "transport" => transport = "tcp" /\ role = "server"

OfIce(A) ==
    focus = "ice" /\ A
    /\ UNCHANGED <<focus, stVars, bcVars>>
OfTransport(A) ==
    focus = "transport" /\ A
    /\ UNCHANGED <<focus, iceVars, bcVars>>
OfBitrate(A) ==
    focus = "bitrate" /\ A
    /\ UNCHANGED <<focus, iceVars, stVars>>

ProgNext == OfIce(IceNext) \/ OfTransport(StNext) \/ OfBitrate(BcNext)

\* IceFairness, StFairness and the fairness of BcSpec, each while its component
\* is the one that moves.
ProgFairness ==
    /\ \A s \in Sides :
          WF_progVars(OfIce(BeginCheck(s) \/ CheckAnswered(s) \/ CheckTimeout(s)
                            \/ Fallback(s) \/ EndRun(s)))
    /\ \A c \in Conns : WF_progVars(OfTransport(ReadStep(c)))
    /\ \A t \in Tasks : WF_progVars(OfTransport(Write(t)))
    /\ WF_progVars(OfBitrate(tick(FALSE, TRUE, TRUE)))

ProgSpec == ProgInit /\ [][ProgNext]_progVars /\ ProgFairness
=============================================================================
