------------------------------ MODULE MCCalls -------------------------------
(***************************************************************************)
(* What a call is made of: the transactions of its requests, INVITE and    *)
(* others, on both sides, the call manager above them, and the offer and   *)
(* answer in their bodies.  The modules share no state, so each behaviour  *)
(* follows one of them, focus, and leaves the others at rest.              *)
(***************************************************************************)
EXTENDS InviteExchange, NonInviteExchange, CallManager, SdpNegotiation

(* The offers.                                                             *)

\* Codec lists: mapped, unmapped static types, a dynamic type for a static encoding, an
\* encoding we have not configured, and one configured that cannot be played.
Lists ==
    {[formats |-> <<0>>, rtpmaps |-> <<[pt |-> 0, encoding |-> "PCMU"]>>],
     [formats |-> <<8, 0>>, rtpmaps |-> <<>>],
     [formats |-> <<96, 0>>, rtpmaps |-> <<[pt |-> 96, encoding |-> "opus"]>>],
     [formats |-> <<8, 97>>, rtpmaps |-> <<[pt |-> 97, encoding |-> "PCMU"]>>],
     [formats |-> <<98>>, rtpmaps |-> <<[pt |-> 98, encoding |-> "speex"]>>],
     [formats |-> <<99, 0>>, rtpmaps |-> <<[pt |-> 99, encoding |-> "L16"]>>]}

Line(t, p, l, d, i, m, c) ==
    [type |-> t, port |-> p, formats |-> l.formats, rtpmaps |-> l.rtpmaps, direction |-> d,
     ice |-> i, mux |-> m, connection |-> c]

Directions == {"sendrecv", "sendonly", "recvonly", "inactive"}

Lines ==
    {Line("audio", p, l, d, i, m, None) :
        p \in {0, 10}, l \in Lists, d \in Directions, i \in BOOLEAN, m \in BOOLEAN}
SomeLines ==
    {Line("audio", p, l, d, TRUE, m, "relay") :
        p \in {12, 14}, l \in Lists, d \in {"sendrecv", "sendonly"}, m \in BOOLEAN}
    \cup {Line("video", 16, [formats |-> <<100>>, rtpmaps |-> <<[pt |-> 100, encoding |-> "H264"]>>],
               "sendrecv", FALSE, FALSE, None)}

MCCodecs == {"PCMU", "PCMA", "opus", "L16"}
OneLine == {[connection |-> "uac", media |-> <<m>>] : m \in Lines}
TwoLines == {[connection |-> "uac", media |-> <<m, n>>] : m \in SomeLines, n \in SomeLines}
MCOffers == OneLine \cup TwoLines
\* ICE with rtcp-mux, as IceSession offers it.
IceOffers == {o \in OneLine : o.media[1].ice /\ o.media[1].mux /\ o.media[1].port # 0}

-----------------------------------------------------------------------------
VARIABLE focus

callsVars == <<focus, vars, nvars, cmvars, sdpVars>>

CallsInit ==
    /\ focus \in {"invite", "noninvite", "manager", "sdp"}
    /\ ExInit /\ NxInit /\ CmInit /\ SdpInit
    /\ focus # "invite" => ~reliable
    /\ focus # "noninvite" => ~nreliable
    /\ focus # "sdp" => /\ path = CHOOSE p \in Paths : TRUE
                        /\ offer = CHOOSE o \in SdpOffers : TRUE

OfInvite(A) == focus = "invite" /\ A /\ UNCHANGED <<focus, nvars, cmvars, sdpVars>>
OfNonInvite(A) == focus = "noninvite" /\ A /\ UNCHANGED <<focus, vars, cmvars, sdpVars>>
OfManager(A) == focus = "manager" /\ A /\ UNCHANGED <<focus, vars, nvars, sdpVars>>
OfSdp(A) == focus = "sdp" /\ A /\ UNCHANGED <<focus, vars, nvars, cmvars>>

CallsNext ==
    \/ OfInvite(ExNext)
    \/ OfNonInvite(NxNext)
    \/ OfManager(CmNext)
    \/ OfSdp(SdpNext)

CallsSpec == CallsInit /\ [][CallsNext]_callsVars
=============================================================================
