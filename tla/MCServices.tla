----------------------------- MODULE MCServices -----------------------------
(***************************************************************************)
(* The parts of the stack that an application drives beside the            *)
(* transactions and the call manager: reliable provisional responses,      *)
(* registration, dialogs, hold, transfer, ICE, the TURN client, the media  *)
(* stream and DTMF.                                                        *)
(* They are objects of their own that share no state, so each behaviour    *)
(* follows one of them, focus, and leaves the others at rest.              *)
(***************************************************************************)
EXTENDS ReliableProvisional, Registration, Dialog, Hold, Transfer, MCIceSession,
        TurnClient, MediaStream, DtmfLink

VARIABLE focus

svcVars == <<focus, rvars, regVars, dlgVars, holdVars, trVars, iceVars, turnVars, msVars, dlVars>>

SvcInit ==
    /\ focus \in {"prack", "registration", "dialog", "hold", "transfer", "ice", "turn",
                  "stream", "dtmf"}
    /\ RelInit /\ RegInit /\ DlgInit /\ HoldInit /\ TrInit /\ IceInit /\ TurnInit /\ MsInit /\ DlInit
    /\ focus # "ice" => paths = OneNat
    /\ focus # "stream" => start.seq = CHOOSE n \in InitSeqs : TRUE

OfPrack(A) ==
    focus = "prack" /\ A
    /\ UNCHANGED <<focus, regVars, dlgVars, holdVars, trVars, iceVars, turnVars, msVars, dlVars>>
OfRegistration(A) ==
    focus = "registration" /\ A
    /\ UNCHANGED <<focus, rvars, dlgVars, holdVars, trVars, iceVars, turnVars, msVars, dlVars>>
OfDialog(A) ==
    focus = "dialog" /\ A
    /\ UNCHANGED <<focus, rvars, regVars, holdVars, trVars, iceVars, turnVars, msVars, dlVars>>
OfHold(A) ==
    focus = "hold" /\ A
    /\ UNCHANGED <<focus, rvars, regVars, dlgVars, trVars, iceVars, turnVars, msVars, dlVars>>
OfTransfer(A) ==
    focus = "transfer" /\ A
    /\ UNCHANGED <<focus, rvars, regVars, dlgVars, holdVars, iceVars, turnVars, msVars, dlVars>>
OfIce(A) ==
    focus = "ice" /\ A
    /\ UNCHANGED <<focus, rvars, regVars, dlgVars, holdVars, trVars, turnVars, msVars, dlVars>>
OfTurn(A) ==
    focus = "turn" /\ A
    /\ UNCHANGED <<focus, rvars, regVars, dlgVars, holdVars, trVars, iceVars, msVars, dlVars>>
OfStream(A) ==
    focus = "stream" /\ A
    /\ UNCHANGED <<focus, rvars, regVars, dlgVars, holdVars, trVars, iceVars, turnVars, dlVars>>
OfDtmf(A) ==
    focus = "dtmf" /\ A
    /\ UNCHANGED <<focus, rvars, regVars, dlgVars, holdVars, trVars, iceVars, turnVars, msVars>>

SvcNext ==
    \/ OfPrack(RelNext)
    \/ OfRegistration(RegNext)
    \/ OfDialog(DlgNext)
    \/ OfHold(HoldNext)
    \/ OfTransfer(TrNext)
    \/ OfIce(IceNext)
    \/ OfTurn(TurnNext)
    \/ OfStream(MsNext)
    \/ OfDtmf(DlNext)

SvcSpec == SvcInit /\ [][SvcNext]_svcVars
=============================================================================
