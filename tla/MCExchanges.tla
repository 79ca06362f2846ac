---------------------------- MODULE MCExchanges -----------------------------
(***************************************************************************)
(* The two exchanges of transactions, an INVITE and a non-INVITE request,  *)
(* whose ends depend on their timers alone.  They share no state, so each  *)
(* behaviour follows one of them, focus, and leaves the other at rest.     *)
(***************************************************************************)
EXTENDS InviteExchange, NonInviteExchange

VARIABLE focus

xchVars == <<focus, vars, nvars>>

XchInit ==
    /\ focus \in {"invite", "noninvite"}
    /\ ExInit /\ NxInit
    /\ focus # "invite" => ~reliable
    /\ focus # "noninvite" => ~nreliable

OfInvite(A) == focus = "invite" /\ A /\ UNCHANGED <<focus, nvars>>
OfNonInvite(A) == focus = "noninvite" /\ A /\ UNCHANGED <<focus, vars>>

XchNext == OfInvite(ExNext) \/ OfNonInvite(NxNext)

\* The fairness of ExFairSpec and NxFairSpec, each while its exchange is the one that moves.
XchFairness ==
    /\ WF_xchVars(OfInvite(Tick)) /\ WF_xchVars(OfInvite(TimerFires))
    /\ WF_xchVars(OfNonInvite(NxTick)) /\ WF_xchVars(OfNonInvite(NxTimerFires))
    /\ WF_xchVars(OfNonInvite(NxServerCleanup))

XchSpec == XchInit /\ [][XchNext]_xchVars /\ XchFairness

-----------------------------------------------------------------------------
\* Whatever the network loses, both transactions of an INVITE come to their end, forks or
\* not: the client by Timers B and D, a server that rejected by the ACK and Timer I or by
\* Timer H.  This is what keeps the tables of the transaction manager from filling up.
ExchangeEnds == []<>(focus = "invite" => ExDone)

\* So do both transactions of a non-INVITE request: the client by Timers F and K, an
\* answered server by Timer J and its removal, every time a late copy creates it again.
NxExchangeEnds == []<>(focus = "noninvite" => NxDone)
=============================================================================
