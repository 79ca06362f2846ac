--------------------------- MODULE InviteExchange ---------------------------
(***************************************************************************)
(* One INVITE client transaction and the INVITE server transaction its     *)
(* request creates, with their timers, over a network that loses, delays,  *)
(* reorders and duplicates messages.                                       *)
(*                                                                         *)
(* c2s and s2c hold every message ever sent in that direction: delivering  *)
(* one leaves it there, so it can come again at any later time, and a      *)
(* message that is never delivered is lost.  Time passes in ticks and a    *)
(* due timer fires before the next tick.  With Forks, responses of other   *)
(* branches of a forking proxy arrive at the client at any time.           *)
(***************************************************************************)
EXTENDS InviteClientTx, InviteServerTx

CONSTANTS
    Codes,      \* status codes the server's user answers with
    Forks       \* other branches answer too

ASSUME ExchangeAssumption ==
    /\ Codes \subseteq 100..699
    /\ Forks \in BOOLEAN

VARIABLES
    reliable,  \* the transport flag both transactions are created with
    cl,        \* client transaction
    sv,        \* server transaction, Absent before the INVITE arrives
    c2s,       \* requests sent by the client: subset of {"INVITE", "ACK"}
    s2c,       \* responses sent by the server
    told       \* outcomes the client's user has been told (history)

vars == <<reliable, cl, sv, c2s, s2c, told>>

Absent == [ISNew EXCEPT !.state = "Absent", !.ev = {}]

Outcomes == {"Success", "Failure", "Timeout", "TransportError"}

\* The actions of a call are executed before the next input is handed in.
ClientStep(next) == /\ cl' = next
                    /\ c2s' = c2s \cup next.out
                    /\ told' = told \cup (next.ev \cap Outcomes)
                    /\ UNCHANGED reliable

ServerStep(next) == /\ sv' = next
                    /\ s2c' = s2c \cup next.out
                    /\ UNCHANGED reliable

ExInit == /\ reliable \in BOOLEAN
          /\ cl = ICNew(reliable)
          /\ sv = Absent
          /\ c2s = cl.out
          /\ s2c = {}
          /\ told = {}

-----------------------------------------------------------------------------
ClientTimer(t) ==
    /\ cl.armed[t] = 0
    /\ ClientStep(ICHandleTimeout(Consumed(cl, t), t))
    /\ UNCHANGED <<sv, s2c>>

\* A timer cancelled while its expiry was already on its way to the machine.
ClientStaleTimer(t) ==
    /\ cl.state # "Calling"
    /\ cl.armed[t] = Off
    /\ ClientStep(ICHandleTimeout(Polled(cl), t))
    /\ UNCHANGED <<sv, s2c>>

ClientResponse(m) ==
    /\ m \in s2c
    /\ ClientStep(ICHandleResponse(Polled(cl), m.code, reliable))
    /\ UNCHANGED <<sv, s2c>>

ForkedResponse(code) ==
    /\ Forks
    /\ ClientStep(ICHandleResponse(Polled(cl), code, reliable))
    /\ UNCHANGED <<sv, s2c>>

ClientTransportError ==
    /\ ClientStep(ICHandleTransportError(Polled(cl)))
    /\ UNCHANGED <<sv, s2c>>

ServerTimer(t) ==
    /\ sv.armed[t] = 0
    /\ ServerStep(ISHandleTimeout(Consumed(sv, t), t))
    /\ UNCHANGED <<cl, c2s, told>>

ServerStaleTimer(t) ==
    /\ sv.state \in {"Confirmed", "Terminated"}
    /\ sv.armed[t] = Off
    /\ ServerStep(ISHandleTimeout(Polled(sv), t))
    /\ UNCHANGED <<cl, c2s, told>>

\* An INVITE that finds no transaction creates one; an ACK that finds none is
\* left to the dialog layer.
ServerRequest(m) ==
    /\ m \in c2s
    /\ CASE sv.state # "Absent" -> ServerStep(ISHandleRequest(Polled(sv), m, reliable))
         [] sv.state = "Absent" /\ m = "INVITE" -> ServerStep(ISNew)
         [] OTHER -> UNCHANGED <<reliable, sv, s2c>>
    /\ UNCHANGED <<cl, c2s, told>>

ServerAnswer(code) ==
    /\ sv.state # "Absent"
    /\ ServerStep(ISSendResponse(Polled(sv), code, reliable))
    /\ UNCHANGED <<cl, c2s, told>>

ServerTransportError ==
    /\ sv.state # "Absent"
    /\ ServerStep(ISHandleTransportError(Polled(sv)))
    /\ UNCHANGED <<cl, c2s, told>>

Tick == /\ Due(cl.armed) = {} /\ Due(sv.armed) = {}
        /\ cl' = [Polled(cl) EXCEPT !.armed = Elapsed(@)]
        /\ sv' = [Polled(sv) EXCEPT !.armed = Elapsed(@)]
        /\ UNCHANGED <<reliable, c2s, s2c, told>>

TimerFires == (\E t \in ICTimer : ClientTimer(t)) \/ (\E t \in ISTimer : ServerTimer(t))

ExNext == \/ TimerFires
          \/ Tick
          \/ \E t \in {"A", "B"} : ClientStaleTimer(t)
          \/ \E t \in {"G", "H"} : ServerStaleTimer(t)
          \/ \E m \in s2c : ClientResponse(m)
          \/ \E code \in Codes : ForkedResponse(code)
          \/ ClientTransportError
          \/ \E m \in c2s : ServerRequest(m)
          \/ \E code \in Codes : ServerAnswer(code)
          \/ ServerTransportError

ExSpec == ExInit /\ [][ExNext]_vars

\* Clocks advance and the owner hands in due timers; nothing is assumed of the
\* network or of the users.
ExFairSpec == ExSpec /\ WF_vars(Tick) /\ WF_vars(TimerFires)

-----------------------------------------------------------------------------
(* Properties.                                                             *)

Wire == {Resp(code, 0) : code \in Codes}

\* The user of this exchange sends no reliable provisional: rel stays empty.
SvTx == [ state    : ISState \cup {"Absent"},
          interval : Nat,
          last     : Wire \cup {NoResp},
          nextRseq : {1},
          rel      : {<< >>},
          final    : FinalSent,
          armed    : [ISTimer -> Nat \cup {Off}],
          out      : SUBSET Wire,
          ev       : SUBSET ISEvent ]

\* The values every variable takes.
ExTypeOK ==
    /\ reliable \in BOOLEAN
    /\ cl \in ICTx
    /\ sv \in SvTx
    /\ c2s \subseteq {"INVITE", "ACK"}
    /\ s2c \subseteq Wire
    /\ told \subseteq Outcomes

ClientSupervised(tx) ==
    /\ tx.state \in {"Calling", "Proceeding"} => tx.armed["B"] # Off
    /\ tx.state = "Calling" /\ ~reliable => tx.armed["A"] # Off
    /\ tx.state = "Completed" => tx.armed["D"] # Off

ServerSupervised(tx) ==
    /\ tx.state = "Completed" => tx.armed["H"] # Off
    /\ tx.state = "Completed" /\ ~reliable => tx.armed["G"] # Off
    /\ tx.state = "Confirmed" => tx.armed["I"] # Off

\* No state of either transaction waits without a timer that ends the wait:
\* Timer B (and A on an unreliable transport) until the client has a final
\* response, D while it absorbs retransmissions, H (and G) until the server
\* has the ACK, I after it.  A transition that cancels one timer and forgets
\* to start the next leaves a transaction in the manager's tables for ever.
Supervised == ClientSupervised(cl) /\ ServerSupervised(sv)

\* Without forking the two users agree: the client's user hears success only
\* of an INVITE the server's user accepted and failure only of one it
\* rejected, whatever was lost, repeated or overtaken on the way.
Agreement ==
    ~Forks => /\ "Success" \in told => sv.final = "TwoXx"
              /\ "Failure" \in told => sv.final = "NonTwoXx"

ClientKnows ==
    /\ cl.state \in {"Calling", "Proceeding"} => told = {}
    /\ cl.state = "Completed" => "Failure" \in told
    /\ "ACK" \in c2s => "Failure" \in told

ServerKnows ==
    /\ sv.state = "Absent" => \A t \in ISTimer : sv.armed[t] = Off
    /\ sv.state \in {"Absent", "Proceeding"} => sv.final = "None"
    /\ sv.state \in {"Completed", "Confirmed"} => sv.final = "NonTwoXx"
    /\ sv.state = "Confirmed" => "ACK" \in c2s
    /\ sv.last # NoResp => sv.last \in s2c
    /\ \A m \in s2c :
           /\ Success(m.code) => sv.final = "TwoXx"
           /\ Failure(m.code) => sv.final = "NonTwoXx"

\* What each side may conclude from its state.  The client's user is told
\* nothing before a final state, and an ACK is on the network only when it was
\* told of the failure.  A final response is on the network only when the
\* server's user decided so, the response kept for retransmission was sent
\* before, and Confirmed is reached by an ACK only.
Knowledge == ClientKnows /\ ServerKnows

\* An ACK stops the server's retransmissions only when the client's user
\* already knows of the rejection the ACK is for.
AckMeansTold ==
    sv.state = "Confirmed" => "Failure" \in told

\* The inductive invariant behind the theorems of InviteExchangeProofs.
ExInv == ExTypeOK /\ Supervised /\ Knowledge /\ Agreement

\* The first outcome the client's user is told stands.  The one thing that may
\* follow is a 2xx: of another fork, or of an INVITE already given up.
OutcomeStands ==
    [][told # {} => told' \subseteq told \cup {"Success"}]_vars

\* A terminated transaction sends nothing more and tells its user nothing but
\* a late 2xx, although handle_transport_error leaves its timers running and a
\* cancelled timer may still be handed in.
TerminatedIsFinal ==
    /\ [][cl.state = "Terminated" => /\ cl'.state = "Terminated"
                                     /\ cl'.out = {}
                                     /\ cl'.ev \subseteq {"Success"}]_cl
    /\ [][sv.state = "Terminated" => /\ sv'.state = "Terminated"
                                     /\ sv'.out = {}
                                     /\ sv'.ev = {}]_sv

\* Every response that leaves the server agrees with the decision it took: no
\* provisional once the final response is out, never two final responses.
OneFinalResponse ==
    [][sv.final # "None" => s2c' = s2c]_vars

\* The pair keeps the promise of RequestOutcome, the 2xx rule included.
Outcome == INSTANCE RequestOutcome WITH
    decision <- CASE sv.final = "TwoXx"    -> "accepted"
                  [] sv.final = "NonTwoXx" -> "rejected"
                  [] OTHER                 -> "undecided",
    learned  <- CASE "Success" \in told -> "accepted"
                  [] "Failure" \in told -> "rejected"
                  [] told = {}          -> "pending"
                  [] OTHER              -> "gaveUp"

ImplementsOutcome == Outcome!OutcomeSpec

\* Nothing is left of the exchange: the client's user was told an outcome and its
\* transaction has ended; an INVITE its server's user answered has ended there too.
ExDone == /\ told # {} /\ cl.state = "Terminated"
          /\ sv.final # "None" => sv.state = "Terminated"
=============================================================================
