------------------------- MODULE NonInviteExchange --------------------------
(***************************************************************************)
(* One non-INVITE client transaction and the server transaction its        *)
(* request creates, with their timers.                                     *)
(*                                                                         *)
(* Requests are lost, or arrive once or several times within the tick they *)
(* were sent in (less than T1): on the time scale of the timers that is    *)
(* what lets Timer J absorb them.  Responses are lost, repeated, delayed   *)
(* and reordered without limit.  A terminated server transaction is        *)
(* removed by the manager, after which a request creates another one.      *)
(***************************************************************************)
EXTENDS NonInviteClientTx, NonInviteServerTx

CONSTANTS
    NxCodes,    \* status codes the server's user answers with
    MaxHanded   \* bound: server transactions created in a behaviour

ASSUME NonInviteAssumption ==
    /\ NxCodes \subseteq 100..699
    /\ MaxHanded \in Nat

VARIABLES
    nreliable, \* the transport flag both transactions are created with
    ncl,       \* client transaction
    nsv,       \* server transaction; state Absent when the manager has none
    inflight,  \* a copy of the request can arrive in this tick
    ns2c,      \* status codes of the responses sent so far
    learned,   \* what the client's user was told: final codes, GaveUp
    finals,    \* final codes the server's user was allowed to send
    failed,    \* a send of the server has failed (history)
    handed     \* times the request was handed to the server's user

nvars == <<nreliable, ncl, nsv, inflight, ns2c, learned, finals, failed, handed>>

NoServer == [NSNew EXCEPT !.state = "Absent", !.ev = {}]

GaveUp == 0

\* What the events of a client call tell its user, `code' being the response.
Told(ev, code) ==
    {code : e \in ev \cap {"FinalResponse"}} \cup
    {GaveUp : e \in ev \cap {"Timeout", "TransportError"}}

NxClientStep(next, code) ==
    /\ ncl' = next
    /\ inflight' = (inflight \/ next.out # {})
    /\ learned' = learned \cup Told(next.ev, code)
    /\ UNCHANGED <<nreliable, nsv, ns2c, finals, failed, handed>>

NxServerStep(next) ==
    /\ nsv' = next
    /\ ns2c' = ns2c \cup next.out
    /\ UNCHANGED <<nreliable, ncl, learned>>

NxInit == /\ nreliable \in BOOLEAN
          /\ ncl = NCNew(nreliable)
          /\ nsv = NoServer
          /\ inflight = TRUE
          /\ ns2c = {}
          /\ learned = {}
          /\ finals = {}
          /\ failed = FALSE
          /\ handed = 0

-----------------------------------------------------------------------------
NxClientTimer(t) == /\ ncl.armed[t] = 0
                    /\ NxClientStep(NCHandleTimeout(Consumed(ncl, t), t), 0)

NxClientResponse(code) == /\ code \in ns2c
                          /\ NxClientStep(NCHandleResponse(Polled(ncl), code, nreliable), code)

NxClientTransportError == NxClientStep(NCHandleTransportError(Polled(ncl)), 0)

NxServerTimer(t) == /\ nsv.armed[t] = 0
                    /\ NxServerStep(NSHandleTimeout(Consumed(nsv, t), t))
                    /\ UNCHANGED <<inflight, finals, failed, handed>>

\* A reliable transport delivers a request once.
NxServerRequest ==
    /\ inflight
    /\ inflight' = ~nreliable
    /\ IF nsv.state = "Absent"
       THEN /\ handed < MaxHanded
            /\ handed' = handed + 1
            /\ NxServerStep(NSNew)
       ELSE /\ NxServerStep(NSHandleRequest(Polled(nsv)))
            /\ UNCHANGED handed
    /\ UNCHANGED <<finals, failed>>

NxServerAnswer(code) ==
    /\ nsv.state # "Absent"
    /\ NxServerStep(NSSendResponse(Polled(nsv), code, nreliable))
    /\ finals' = finals \cup (nsv'.out \ 100..199)
    /\ UNCHANGED <<inflight, failed, handed>>

NxServerTransportError ==
    /\ nsv.state # "Absent"
    /\ NxServerStep(NSHandleTransportError(Polled(nsv)))
    /\ failed' = TRUE
    /\ UNCHANGED <<inflight, finals, handed>>

\* cleanup_terminated on the server's side.
NxServerCleanup ==
    /\ nsv.state = "Terminated"
    /\ NxServerStep(NoServer)
    /\ UNCHANGED <<inflight, finals, failed, handed>>

NxTick == /\ Due(ncl.armed) = {} /\ Due(nsv.armed) = {}
          /\ ncl' = [Polled(ncl) EXCEPT !.armed = Elapsed(@)]
          /\ nsv' = [Polled(nsv) EXCEPT !.armed = Elapsed(@)]
          /\ inflight' = FALSE
          /\ UNCHANGED <<nreliable, ns2c, learned, finals, failed, handed>>

NxTimerFires == (\E t \in NCTimer : NxClientTimer(t)) \/ (\E t \in NSTimer : NxServerTimer(t))

NxNext == \/ NxTimerFires
          \/ NxTick
          \/ \E code \in ns2c : NxClientResponse(code)
          \/ NxClientTransportError
          \/ NxServerRequest
          \/ \E code \in NxCodes : NxServerAnswer(code)
          \/ NxServerTransportError
          \/ NxServerCleanup

NxSpec == NxInit /\ [][NxNext]_nvars

\* Clocks advance, due timers are handed in, terminated transactions removed.
NxFairSpec == /\ NxSpec
              /\ WF_nvars(NxTick)
              /\ WF_nvars(NxTimerFires)
              /\ WF_nvars(NxServerCleanup)

-----------------------------------------------------------------------------
(* Properties.                                                             *)

\* A request is handed to the server's user once: every retransmission up to
\* the client's last one, just before Timer F, finds the server transaction or
\* the Completed state that Timer J keeps.  (A failed send ends the server
\* transaction early; the next retransmission is then handed up again.)
HandedOnce == failed \/ handed <= 1

\* A final response the client's user is told is one the server's user gave,
\* and the only one it gave unless a failed send made it answer again.
NxAgreement ==
    \A code \in learned \ {GaveUp} :
       /\ code \in finals
       /\ ~failed => finals = {code}

\* Nothing is left of the exchange: the client's user was told and its transaction has
\* ended, and no answered server transaction waits for Timer J or for its removal.
NxDone == /\ learned # {} /\ ncl.state = "Terminated"
          /\ nsv.state \notin {"Completed", "Terminated"}
=============================================================================
