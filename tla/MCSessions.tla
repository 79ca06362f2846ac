----------------------------- MODULE MCSessions -----------------------------
(***************************************************************************)
(* What an endpoint keeps while its calls are up: the transactions of the  *)
(* transaction manager, the session timer of both sides of a call, and the *)
(* voice agent gabby with its server, its call handlers and the turns of   *)
(* one conversation.  They share no state, so each behaviour follows one   *)
(* of them, focus, and leaves the others at rest.                          *)
(***************************************************************************)
EXTENDS TransactionManager, SessionRefresh, GabbyServer, GabbyTurn

VARIABLE focus

sessVars == <<focus, mvars, srvars, gsVars, gtVars>>

\* The timer as one of its initial states has it, when it is not the part that moves.
SessInit ==
    /\ focus \in {"manager", "timer", "gabby", "turn"}
    /\ MgrInit /\ SrInit /\ GsInit /\ GtInit
    /\ focus # "timer" => call["uac"].refresher = "uac" /\ supports = {}

OfManager(A) == focus = "manager" /\ A /\ UNCHANGED <<focus, srvars, gsVars, gtVars>>
OfTimer(A) == focus = "timer" /\ A /\ UNCHANGED <<focus, mvars, gsVars, gtVars>>
OfGabby(A) == focus = "gabby" /\ A /\ UNCHANGED <<focus, mvars, srvars, gtVars>>
OfTurn(A) == focus = "turn" /\ A /\ UNCHANGED <<focus, mvars, srvars, gsVars>>

\* A manager whose handles (MaxHandle) are used up is at rest once its transactions have ended.
SessNext ==
    \/ OfManager(MgrNext)
    \/ OfManager(UNCHANGED mvars)
    \/ OfTimer(SrNext)
    \/ OfGabby(GsNext)
    \/ OfTurn(GtNext)

\* The fairness of MgrFairSpec, SrFairSpec, GsFairness and GtFairness, each while its component
\* is the one that moves.
SessFairness ==
    /\ \A h \in 1 .. MaxHandle :
          WF_sessVars(OfManager(\E t \in EndsWait : handle_timeout(h, t)))
    /\ WF_sessVars(OfManager(cleanup_terminated))
    /\ WF_sessVars(OfTimer(Elapse)) /\ WF_sessVars(OfTimer(Answered))
    /\ \A p \in Party :
          /\ WF_sessVars(OfTimer(Wake(p)))
          /\ WF_sessVars(OfTimer(Complete(p) \/ GiveUp(p)))
          /\ WF_sessVars(OfTimer(Accept(p) \/ Refuse(p) \/ Lose(p)))
          /\ WF_sessVars(OfTimer(ByeArrives(p)))
    /\ WF_sessVars(OfGabby(HandleCallEnd))
    /\ \A h \in 1 .. MaxInvites :
          /\ WF_sessVars(OfGabby(h \in DOMAIN handlers /\ Sure(h)))
          /\ SF_sessVars(OfGabby(h \in DOMAIN handlers /\ Shutdown(h)))
    /\ WF_sessVars(OfTurn(InTime \/ ChatComplete \/ Synthesized))

SessSpec == SessInit /\ [][SessNext]_sessVars /\ SessFairness
=============================================================================
