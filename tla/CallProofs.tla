---------------------------- MODULE CallProofs ------------------------------
(***************************************************************************)
(* Proofs about what a call is made of.                                    *)
(*                                                                         *)
(* InviteExchange: the INVITE exchange is correct for all timer values,    *)
(* all status codes, both kinds of transport, with and without forking.    *)
(* Each call into a state machine is shown to keep a contract (ClientCall, *)
(* ServerCall); the invariant and the action properties follow from the    *)
(* contracts alone.                                                        *)
(*                                                                         *)
(* CallManager: for any number of calls, any port range and any session    *)
(* intervals.  CmInv strengthens the invariants of the runs: it ties the   *)
(* direction of a call to the INVITE transaction below it and its dialog   *)
(* to its identifier.                                                      *)
(***************************************************************************)
EXTENDS InviteExchange, CallManager, TLAPS

\* The doubled interval of next_retransmit is an interval again.
LEMMA NextRetransmitType ==
    ASSUME NEW i \in Nat
    PROVE  next_retransmit(i) \in Nat
BY TimerAssumption DEF next_retransmit

\* The durations of TimerValues are whole ticks; Timers D and I are zero on a
\* reliable transport and positive otherwise.
LEMMA TimerValues ==
    /\ timer_a \in Nat /\ timer_b \in Nat /\ timer_g \in Nat /\ timer_h \in Nat
    /\ \A r \in BOOLEAN : timer_d(r) \in Nat /\ timer_i(r) \in Nat
    /\ timer_d(TRUE) = 0 /\ timer_i(TRUE) = 0
    /\ timer_d(FALSE) > 0 /\ timer_i(FALSE) > 0
BY TimerAssumption DEF timer_a, timer_b, timer_g, timer_h, timer_d, timer_i

\* The operators of the client machine keep a client transaction one.
LEMMA ClientType ==
    ASSUME NEW tx \in ICTx
    PROVE  /\ Polled(tx) \in ICTx
           /\ \A t \in ICTimer : Consumed(tx, t) \in ICTx
           /\ \A t \in ICTimer : ICHandleTimeout(tx, t) \in ICTx
           /\ \A code \in Nat, r \in BOOLEAN : ICHandleResponse(tx, code, r) \in ICTx
           /\ ICHandleTransportError(tx) \in ICTx
<1> USE DEF ICTx, ICTimer, ICState, ICEvent, Off
<1>1. Polled(tx) \in ICTx
  BY DEF Polled
<1>2. \A t \in ICTimer : Consumed(tx, t) \in ICTx
  BY <1>1 DEF Consumed, Polled
<1>3. \A t \in ICTimer : ICHandleTimeout(tx, t) \in ICTx
  BY NextRetransmitType DEF ICHandleTimeout, ICTimeout
<1>4. \A code \in Nat, r \in BOOLEAN : ICHandleResponse(tx, code, r) \in ICTx
  <2> SUFFICES ASSUME NEW code \in Nat, NEW r \in BOOLEAN
               PROVE  ICHandleResponse(tx, code, r) \in ICTx
    OBVIOUS
  <2>1. ICFail(tx, r) \in ICTx
    <3> DEFINE armed == [[[tx.armed EXCEPT !["A"] = IF tx.state = "Calling" THEN Off ELSE @]
                              EXCEPT !["B"] = Off]
                              EXCEPT !["D"] = IF timer_d(r) = 0 THEN @ ELSE timer_d(r)]
    <3>1. armed \in [ICTimer -> Nat \cup {Off}]
      BY TimerValues
    <3> QED BY <3>1 DEF ICFail
  <2>2. CASE tx.state = "Calling"
    BY <2>1, <2>2 DEF ICHandleResponse
  <2>3. CASE tx.state # "Calling"
    BY <2>1, <2>3 DEF ICHandleResponse
  <2> QED BY <2>2, <2>3
<1>5. ICHandleTransportError(tx) \in ICTx
  BY DEF ICHandleTransportError
<1> QED BY <1>1, <1>2, <1>3, <1>4, <1>5

\* Without reliable provisionals the drain and Timer N change nothing.
LEMMA NothingBuffered == ASSUME NEW tx \in SvTx
                         PROVE  Drained(tx) = tx /\ FireTimerN(tx) = tx
BY DEF SvTx, Drained, FireTimerN

\* The operators of the server machine keep a server transaction one.
LEMMA ServerType ==
    ASSUME NEW tx \in SvTx
    PROVE  /\ Polled(tx) \in SvTx
           /\ \A t \in ISTimer : Consumed(tx, t) \in SvTx
           /\ \A t \in ISTimer : ISHandleTimeout(tx, t) \in SvTx
           /\ \A m \in {"INVITE", "ACK"}, r \in BOOLEAN : ISHandleRequest(tx, m, r) \in SvTx
           /\ \A code \in Codes, r \in BOOLEAN : ISSendResponse(tx, code, r) \in SvTx
           /\ ISHandleTransportError(tx) \in SvTx
<1> USE DEF SvTx, ISTimer, ISState, ISEvent, FinalSent, Off
<1>1. Polled(tx) \in SvTx
  BY DEF Polled
<1>2. \A t \in ISTimer : Consumed(tx, t) \in SvTx
  BY <1>1 DEF Consumed, Polled
<1>3. \A t \in ISTimer : ISHandleTimeout(tx, t) \in SvTx
  BY ZenonT(40), NextRetransmitType, NothingBuffered DEF ISHandleTimeout, Resend
<1>4. \A m \in {"INVITE", "ACK"}, r \in BOOLEAN : ISHandleRequest(tx, m, r) \in SvTx
  <2> SUFFICES ASSUME NEW m \in {"INVITE", "ACK"}, NEW r \in BOOLEAN
               PROVE  ISHandleRequest(tx, m, r) \in SvTx
    OBVIOUS
  <2> DEFINE armed == [[[tx.armed EXCEPT !["G"] = IF r THEN @ ELSE Off]
                            EXCEPT !["H"] = Off]
                            EXCEPT !["I"] = IF timer_i(r) = 0 THEN @ ELSE timer_i(r)]
  <2>1. armed \in [ISTimer -> Nat \cup {Off}]
    BY TimerValues
  <2>2. CASE m = "INVITE"
    BY <2>2 DEF ISHandleRequest, Resend
  <2>3. CASE m = "ACK"
    BY <2>1, <2>3 DEF ISHandleRequest
  <2> QED BY <2>2, <2>3
<1>5. \A code \in Codes, r \in BOOLEAN : ISSendResponse(tx, code, r) \in SvTx
  <2> SUFFICES ASSUME NEW code \in Codes, NEW r \in BOOLEAN
               PROVE  ISSendResponse(tx, code, r) \in SvTx
    OBVIOUS
  <2> DEFINE armed == [[tx.armed EXCEPT !["G"] = IF r THEN @ ELSE tx.interval]
                           EXCEPT !["H"] = timer_h]
  <2>1. armed \in [ISTimer -> Nat \cup {Off}]
    BY TimerValues
  <2>2. Resp(code, 0) \in Wire
    BY DEF Wire
  <2>3. Drained(tx) = tx
    BY NothingBuffered
  <2> QED BY ZenonT(40), <2>1, <2>2, <2>3 DEF ISSendResponse
<1>6. ISHandleTransportError(tx) \in SvTx
  BY DEF ISHandleTransportError
<1> QED BY <1>1, <1>2, <1>3, <1>4, <1>5, <1>6

\* A client that just sent its INVITE, with no server yet, satisfies ExInv.
LEMMA InitExInv == ExInit => ExInv
<1> SUFFICES ASSUME ExInit PROVE ExInv
  OBVIOUS
<1> USE TimerValues, ExchangeAssumption DEF ExInit, Off
<1>1. cl \in ICTx
  BY DEF ICNew, ICTx, ICTimer, ICState
<1>2. sv \in SvTx
  <2>1. ISNew.armed \in [ISTimer -> Nat \cup {Off}]
    BY DEF ISNew
  <2>2. timer_g \in Nat /\ {} \in SUBSET Wire /\ {} \in SUBSET ISEvent
    OBVIOUS
  <2>3. sv = [state |-> "Absent", interval |-> timer_g, last |-> NoResp, nextRseq |-> 1,
              rel |-> << >>, final |-> "None", armed |-> ISNew.armed, out |-> {}, ev |-> {}]
    BY SMTT(30), ZenonT(40) DEF Absent, ISNew
  <2> HIDE DEF Off, ExInit
  <2> QED BY <2>1, <2>2, <2>3 DEF SvTx, ISState, FinalSent
<1>3. ExTypeOK
  BY <1>1, <1>2 DEF ExTypeOK, ICNew
<1>4. Supervised
  BY DEF Supervised, ClientSupervised, ServerSupervised, ICNew, ICTimer, Absent, ISNew
<1>5. Knowledge /\ Agreement
  BY DEF Knowledge, ClientKnows, ServerKnows, Agreement, ICNew, Absent, ISNew
<1> QED BY <1>3, <1>4, <1>5 DEF ExInv

-----------------------------------------------------------------------------
(* What a call of the client machine may do, whatever its input: `tx' is   *)
(* the transaction handed in, `n' the one that comes back.                 *)

ClientCall(tx, n) ==
    /\ n \in ICTx
    /\ ClientSupervised(tx) => ClientSupervised(n)
    /\ n.state \in {"Calling", "Proceeding"} =>
           tx.state \in {"Calling", "Proceeding"} /\ n.ev \subseteq {"Provisional"}
    /\ n.state = "Completed" => tx.state = "Completed" \/ "Failure" \in n.ev
    /\ "ACK" \in n.out => tx.state = "Completed" \/ "Failure" \in n.ev
    /\ tx.state \in {"Completed", "Terminated"} => n.ev \subseteq {"Success"}
    /\ tx.state = "Terminated" => n.state = "Terminated" /\ n.out = {}

\* handle_response of the client keeps the contract, for a response the server
\* sent or, with forking, for any other.
LEMMA ClientResponseCall ==
    ASSUME NEW tx \in ICTx, tx.out = {}, tx.ev = {}, NEW code \in Nat,
           reliable \in BOOLEAN
    PROVE  LET n == ICHandleResponse(tx, code, reliable)
           IN  /\ ClientCall(tx, n)
               /\ "Success" \in n.ev => Success(code)
               /\ "Failure" \in n.ev => Failure(code)
<1> DEFINE n == ICHandleResponse(tx, code, reliable)
<1> USE ExchangeAssumption
<1>1. n \in ICTx
  BY ClientType
<1>2. CASE tx.state \in {"Calling", "Proceeding"} /\ Failure(code)
  <2>1. n = ICFail(tx, reliable)
    BY <1>2 DEF ICHandleResponse, Provisional, Success, Failure
  <2>2. n.ev = {"Failure"} /\ n.out = {"ACK"} /\ n.state \in {"Completed", "Terminated"}
    BY <2>1 DEF ICFail, ICTx
  <2>3. n.state = "Completed" => n.armed["D"] # Off
    BY <2>1, TimerValues DEF ICFail, ICTx, ICTimer, Off
  <2> QED BY <1>1, <1>2, <2>2, <2>3 DEF ClientCall, ClientSupervised
<1>3. CASE tx.state = "Calling" /\ Provisional(code)
  BY <1>1, <1>3 DEF ClientCall, ClientSupervised, ICHandleResponse, ICTx, ICTimer, Provisional, Success, Failure, Off
<1>4. CASE tx.state = "Proceeding" /\ Provisional(code)
  BY <1>1, <1>4 DEF ClientCall, ClientSupervised, ICHandleResponse, ICTx, ICTimer, Provisional, Success, Failure, Off
<1>5. CASE tx.state \in {"Calling", "Proceeding"} /\ Success(code)
  <2>1. n.state = "Terminated" /\ n.ev = {"Success"} /\ n.out = {}
    BY <1>5 DEF ICHandleResponse, ICTx, Provisional, Success, Failure
  <2> QED BY <1>1, <1>5, <2>1 DEF ClientCall, ClientSupervised
<1>6. CASE tx.state = "Completed" 
  BY <1>1, <1>6 DEF ClientCall, ClientSupervised, ICHandleResponse, ICTx, ICTimer, Provisional, Success, Failure, Off
<1>7. CASE tx.state = "Terminated" 
  BY <1>1, <1>7 DEF ClientCall, ClientSupervised, ICHandleResponse, ICTx, ICTimer, Provisional, Success, Failure, Off
<1>8. CASE tx.state \in {"Calling", "Proceeding"} /\ ~Provisional(code) /\ ~Success(code) /\ ~Failure(code)
  BY <1>1, <1>8 DEF ClientCall, ClientSupervised, ICHandleResponse, ICTx
<1> QED BY <1>2, <1>3, <1>4, <1>5, <1>6, <1>7, <1>8 DEF ICTx, ICState

\* handle_timeout of the client keeps the contract for a timer that was due.
LEMMA ClientTimeoutCall ==
    ASSUME NEW tx \in ICTx, tx.out = {}, tx.ev = {}, NEW t \in ICTimer
    PROVE  LET n == ICHandleTimeout([tx EXCEPT !.armed[t] = Off], t)
           IN  /\ ClientCall(tx, n)
               /\ n.ev \cap {"Success", "Failure"} = {}
<1> DEFINE c == [tx EXCEPT !.armed[t] = Off]
           n == ICHandleTimeout(c, t)
<1> SUFFICES ClientCall(tx, n) /\ n.ev \cap {"Success", "Failure"} = {}
  OBVIOUS
<1>1. c \in ICTx /\ c.state = tx.state /\ c.out = {} /\ c.ev = {}
      /\ \A u \in ICTimer \ {t} : c.armed[u] = tx.armed[u]
  BY DEF ICTx, Off
<1>2. n \in ICTx
  BY <1>1, ClientType
<1> HIDE DEF c
<1>3. CASE tx.state = "Calling" /\ t = "A"
  <2> DEFINE next == next_retransmit(c.interval)
  <2>1. next \in Nat
    BY <1>1, NextRetransmitType DEF ICTx
  <2>2. n.state = "Calling" /\ n.ev = {} /\ n.out = {"INVITE"}
    BY <1>1, <1>3 DEF ICHandleTimeout, ICTx
  <2>3. n.armed["A"] = next /\ n.armed["B"] = tx.armed["B"]
    BY <1>1, <1>3 DEF ICHandleTimeout, ICTx, ICTimer
  <2> QED BY <1>2, <1>3, <2>1, <2>2, <2>3 DEF ClientCall, ClientSupervised, Off
<1>4. CASE tx.state \in {"Calling", "Proceeding"} /\ t = "B"
  <2>1. n.state = "Terminated" /\ n.ev = {"Timeout"} /\ n.out = {}
    BY <1>1, <1>4 DEF ICHandleTimeout, ICTimeout, ICTx
  <2> QED BY <1>2, <1>4, <2>1 DEF ClientCall, ClientSupervised
<1>5. CASE tx.state = "Completed" /\ t = "D"
  <2>1. n.state = "Terminated" /\ n.ev = {} /\ n.out = {}
    BY <1>1, <1>5 DEF ICHandleTimeout, ICTx
  <2> QED BY <1>2, <1>5, <2>1 DEF ClientCall, ClientSupervised
<1>6. CASE /\ ~(tx.state = "Calling" /\ t = "A")
           /\ ~(tx.state \in {"Calling", "Proceeding"} /\ t = "B")
           /\ ~(tx.state = "Completed" /\ t = "D")
  <2>1. n = c
    BY <1>1, <1>6 DEF ICHandleTimeout
  <2>2. ClientSupervised(tx) => ClientSupervised(c)
    BY <1>1, <1>6 DEF ClientSupervised, ICTimer
  <2> QED BY <1>1, <1>2, <2>1, <2>2 DEF ClientCall
<1> QED BY <1>3, <1>4, <1>5, <1>6

\* handle_timeout of the client keeps the contract for Timer A or B handed in
\* after it was cancelled.
LEMMA ClientStaleCall ==
    ASSUME NEW tx \in ICTx, tx.out = {}, tx.ev = {}, tx.state # "Calling",
           ClientSupervised(tx), NEW t \in {"A", "B"}, tx.armed[t] = Off
    PROVE  ICHandleTimeout(tx, t) = tx /\ ClientCall(tx, tx)
<1>1. ICHandleTimeout(tx, t) = tx
  BY DEF ICHandleTimeout, ClientSupervised
<1>2. ClientCall(tx, tx)
  BY DEF ClientCall
<1> QED BY <1>1, <1>2

\* handle_transport_error of the client keeps the contract.
LEMMA ClientErrorCall ==
    ASSUME NEW tx \in ICTx, tx.out = {}, tx.ev = {}
    PROVE  LET n == ICHandleTransportError(tx)
           IN  /\ ClientCall(tx, n)
               /\ n.ev \cap {"Success", "Failure"} = {}
<1> DEFINE n == ICHandleTransportError(tx)
<1>1. n \in ICTx
  BY ClientType
<1>2. CASE tx.state \in {"Calling", "Proceeding"}
  <2>1. n.state = "Terminated" /\ n.ev = {"TransportError"} /\ n.out = {}
    BY <1>2 DEF ICHandleTransportError, ICTx
  <2> QED BY <1>1, <1>2, <2>1 DEF ClientCall, ClientSupervised
<1>3. CASE tx.state \notin {"Calling", "Proceeding"}
  BY <1>1, <1>3 DEF ICHandleTransportError, ClientCall
<1> QED BY <1>2, <1>3

\* A call that keeps the contract, with the network and the user as they were,
\* keeps the invariant.
LEMMA ClientStepInv ==
    ASSUME ExInv, NEW n, ClientStep(n), UNCHANGED <<sv, s2c>>,
           ClientCall(Polled(cl), n),
           ~Forks => /\ "Success" \in n.ev => sv.final = "TwoXx"
                     /\ "Failure" \in n.ev => sv.final = "NonTwoXx"
    PROVE  ExInv'
<1>1. Polled(cl).state = cl.state /\ Polled(cl).armed = cl.armed
  BY DEF Polled, ExInv, ExTypeOK, ICTx
<1>2. n \in ICTx /\ n.out \subseteq {"INVITE", "ACK"} /\ cl' = n
  BY DEF ClientCall, ICTx, ClientStep
<1>3. ExTypeOK'
  BY <1>2 DEF ExInv, ExTypeOK, ClientStep, Outcomes
<1>4. Supervised'
  BY <1>1, <1>2 DEF ExInv, Supervised, ClientSupervised, ServerSupervised, ClientCall, ClientStep
<1>5. ClientKnows'
  <2>1. cl'.state \in {"Calling", "Proceeding"} => told' = {}
    BY <1>1, <1>2 DEF ExInv, Knowledge, ClientKnows, ClientCall, ClientStep, Outcomes
  <2>2. cl'.state = "Completed" => "Failure" \in told'
    BY <1>1, <1>2 DEF ExInv, Knowledge, ClientKnows, ClientCall, ClientStep, Outcomes
  <2>3. "ACK" \in c2s' => "Failure" \in told'
    BY <1>1, <1>2 DEF ExInv, Knowledge, ClientKnows, ClientCall, ClientStep, Outcomes
  <2> QED BY <2>1, <2>2, <2>3 DEF ClientKnows
<1>6. ServerKnows'
  BY DEF ExInv, Knowledge, ServerKnows, ClientStep
<1>7. Agreement'
  BY DEF ExInv, Agreement, ClientStep, Outcomes
<1> QED BY <1>3, <1>4, <1>5, <1>6, <1>7 DEF ExInv, Knowledge

-----------------------------------------------------------------------------
(* The same for the server machine.                                        *)

ServerCall(tx, n) ==
    /\ n \in SvTx
    /\ ServerSupervised(tx) => ServerSupervised(n)
    /\ n.state # "Absent"
    /\ n.state = "Proceeding" => tx.state \in {"Absent", "Proceeding"} /\ n.final = tx.final
    /\ n.state = "Completed" =>
           n.final = "NonTwoXx" \/ (tx.state = "Completed" /\ n.final = tx.final)
    /\ n.state = "Confirmed" => tx.state \in {"Completed", "Confirmed"} /\ n.final = tx.final
    /\ n.final # tx.final => tx.state = "Proceeding"
    /\ n.final = tx.final => \A m \in n.out : m = tx.last \/ Provisional(m.code)
    /\ n.final # tx.final => \A m \in n.out :
           /\ Success(m.code) => n.final = "TwoXx"
           /\ Failure(m.code) => n.final = "NonTwoXx"
    /\ n.last \in {NoResp, tx.last} \cup n.out
    /\ tx.state # "Proceeding" => n.out \subseteq {tx.last} \ {NoResp}
    /\ tx.state = "Terminated" => n.state = "Terminated" /\ n.out = {} /\ n.ev = {}

\* handle_timeout of the server keeps the contract for a timer that was due.
LEMMA ServerTimeoutCall ==
    ASSUME NEW tx \in SvTx, tx.out = {}, tx.ev = {}, tx.state # "Absent", NEW t \in ISTimer
    PROVE  LET n == ISHandleTimeout([tx EXCEPT !.armed[t] = Off], t)
           IN  ServerCall(tx, n) /\ n.state \in {tx.state, "Terminated"}
<1> DEFINE c == [tx EXCEPT !.armed[t] = Off]
           n == ISHandleTimeout(c, t)
<1> SUFFICES ServerCall(tx, n) /\ n.state \in {tx.state, "Terminated"}
  OBVIOUS
<1>1. /\ c \in SvTx /\ c.state = tx.state /\ c.out = {} /\ c.ev = {}
      /\ c.last = tx.last /\ c.final = tx.final
      /\ \A u \in ISTimer \ {t} : c.armed[u] = tx.armed[u]
  BY DEF SvTx, Off
<1>2. n \in SvTx
  BY <1>1, ServerType
<1>3. FireTimerN(c) = c
  BY <1>1, NothingBuffered
<1> HIDE DEF c
<1>4. CASE tx.state = "Completed" /\ t = "G"
  <2> DEFINE next == next_retransmit(c.interval)
  <2>1. next \in Nat
    BY <1>1, NextRetransmitType DEF SvTx
  <2>2. n.state = "Completed" /\ n.out = Resend(c) /\ n.last = tx.last /\ n.final = tx.final
    BY <1>1, <1>4 DEF ISHandleTimeout, SvTx
  <2>3. n.armed["G"] = next /\ n.armed["H"] = tx.armed["H"]
    BY <1>1, <1>4 DEF ISHandleTimeout, SvTx, ISTimer
  <2>4. Resend(c) \subseteq {tx.last} \ {NoResp}
    BY <1>1 DEF Resend
  <2> QED BY <1>2, <1>4, <2>1, <2>2, <2>3, <2>4 DEF ServerCall, ServerSupervised, Off
<1>5. CASE (tx.state = "Completed" /\ t = "H") \/ (tx.state = "Confirmed" /\ t = "I")
  <2>1. n.state = "Terminated" /\ n.out = {} /\ n.last = tx.last /\ n.final = tx.final
    BY <1>1, <1>5 DEF ISHandleTimeout, SvTx
  <2> QED BY <1>2, <1>5, <2>1 DEF ServerCall, ServerSupervised
<1>6. CASE /\ ~(tx.state = "Completed" /\ t \in {"G", "H"})
           /\ ~(tx.state = "Confirmed" /\ t = "I")
  <2>1. n = c
    BY <1>1, <1>3, <1>6 DEF ISHandleTimeout
  <2>2. ServerSupervised(tx) => ServerSupervised(c)
    BY <1>1, <1>6 DEF ServerSupervised, ISTimer
  <2> QED BY <1>1, <1>2, <2>1, <2>2 DEF ServerCall
<1> QED BY <1>4, <1>5, <1>6

\* handle_timeout of the server keeps the contract for Timer G or H handed in
\* after it was cancelled.
LEMMA ServerStaleCall ==
    ASSUME NEW tx \in SvTx, tx.out = {}, tx.ev = {}, tx.state \in {"Confirmed", "Terminated"},
           NEW t \in {"G", "H"}
    PROVE  ISHandleTimeout(tx, t) = tx /\ ServerCall(tx, tx)
<1>1. ISHandleTimeout(tx, t) = tx
  BY DEF ISHandleTimeout
<1>2. ServerCall(tx, tx)
  BY DEF ServerCall
<1> QED BY <1>1, <1>2

\* handle_request of the server keeps the contract: an INVITE again, or the ACK.
LEMMA ServerRequestCall ==
    ASSUME NEW tx \in SvTx, tx.out = {}, tx.ev = {}, tx.state # "Absent",
           NEW m \in {"INVITE", "ACK"}, reliable \in BOOLEAN
    PROVE  LET n == ISHandleRequest(tx, m, reliable)
           IN  /\ ServerCall(tx, n)
               /\ n.state = "Confirmed" => tx.state = "Confirmed" \/ m = "ACK"
<1> DEFINE n == ISHandleRequest(tx, m, reliable)
<1> SUFFICES /\ ServerCall(tx, n)
             /\ n.state = "Confirmed" => tx.state = "Confirmed" \/ m = "ACK"
  OBVIOUS
<1>1. n \in SvTx
  BY ServerType, ExchangeAssumption
<1>2. CASE tx.state \in {"Proceeding", "Completed"} /\ m = "INVITE"
  <2>1. n = [tx EXCEPT !.out = Resend(tx)]
    BY <1>2 DEF ISHandleRequest
  <2>2. n.state = tx.state /\ n.out = Resend(tx) /\ n.last = tx.last /\ n.final = tx.final
        /\ n.armed = tx.armed
    BY <2>1 DEF SvTx
  <2>3. Resend(tx) \subseteq {tx.last} \ {NoResp}
    BY DEF Resend
  <2> QED BY <1>1, <1>2, <2>2, <2>3 DEF ServerCall, ServerSupervised
<1>3. CASE tx.state = "Completed" /\ m = "ACK"
  <2>1. n.state \in {"Confirmed", "Terminated"} /\ n.out = {} /\ n.last = tx.last
        /\ n.final = tx.final
    BY <1>3 DEF ISHandleRequest, SvTx
  <2>2. n.state = "Confirmed" => n.armed["I"] # Off
    <3>1. n.armed = [[[tx.armed EXCEPT !["G"] = IF reliable THEN @ ELSE Off]
                          EXCEPT !["H"] = Off]
                          EXCEPT !["I"] = IF timer_i(reliable) = 0 THEN @ ELSE timer_i(reliable)]
      BY ZenonT(40), <1>3 DEF ISHandleRequest, SvTx
    <3>2. n.state = "Confirmed" => timer_i(reliable) \in Nat \ {0}
      BY <1>3, TimerValues, ExchangeAssumption DEF ISHandleRequest, SvTx
    <3> QED BY <3>1, <3>2 DEF SvTx, ISTimer, Off
  <2> QED BY <1>1, <1>3, <2>1, <2>2 DEF ServerCall, ServerSupervised
<1>4. CASE ~(tx.state \in {"Proceeding", "Completed"} /\ m = "INVITE")
           /\ ~(tx.state = "Completed" /\ m = "ACK")
  <2>1. n = tx
    BY <1>4 DEF ISHandleRequest
  <2> QED BY <2>1 DEF ServerCall
<1> QED BY <1>2, <1>3, <1>4

\* send_response of the server keeps the contract for every status code.
LEMMA ServerAnswerCall ==
    ASSUME NEW tx \in SvTx, tx.out = {}, tx.ev = {}, tx.state # "Absent",
           tx.state = "Proceeding" => tx.final = "None",
           NEW code \in Codes, reliable \in BOOLEAN
    PROVE  LET n == ISSendResponse(tx, code, reliable)
           IN  ServerCall(tx, n) /\ (n.state # "Confirmed" \/ n = tx)
<1> DEFINE n == ISSendResponse(tx, code, reliable)
<1> SUFFICES ServerCall(tx, n) /\ (n.state # "Confirmed" \/ n = tx)
  OBVIOUS
<1>1. n \in SvTx /\ Drained(tx) = tx /\ Resp(code, 0).code = code
  BY ServerType, ExchangeAssumption, NothingBuffered DEF Resp
<1>a. /\ Provisional(code) \/ Success(code) \/ Failure(code)
      /\ Provisional(code) => ~Success(code) /\ ~Failure(code)
      /\ Success(code) => ~Failure(code)
  BY ExchangeAssumption DEF Provisional, Success, Failure
<1> HIDE DEF n
<1>2. CASE tx.state = "Proceeding" /\ Provisional(code)
  <2>1. n.state = "Proceeding" /\ n.out = {Resp(code, 0)} /\ n.last = Resp(code, 0)
        /\ n.final = tx.final
    BY <1>1, <1>a, <1>2 DEF n, ISSendResponse, SvTx
  <2> QED BY <1>1, <1>a, <1>2, <2>1 DEF ServerCall, ServerSupervised
<1>3. CASE tx.state = "Proceeding" /\ Success(code)
  <2>1. n.state = "Terminated" /\ n.out = {Resp(code, 0)} /\ n.last = tx.last
        /\ n.final = "TwoXx"
    BY <1>1, <1>a, <1>3 DEF n, ISSendResponse, SvTx
  <2> QED BY <1>1, <1>a, <1>3, <2>1 DEF ServerCall, ServerSupervised
<1>4. CASE tx.state = "Proceeding" /\ Failure(code)
  <2>1. n.state = "Completed" /\ n.out = {Resp(code, 0)} /\ n.last = Resp(code, 0)
        /\ n.final = "NonTwoXx"
    BY <1>1, <1>a, <1>4 DEF n, ISSendResponse, SvTx
  <2>2. n.armed["H"] # Off /\ (~reliable => n.armed["G"] # Off)
    <3>1. n.armed = [[tx.armed EXCEPT !["G"] = IF reliable THEN @ ELSE tx.interval]
                          EXCEPT !["H"] = timer_h]
      BY <1>1, <1>a, <1>4 DEF n, ISSendResponse, SvTx
    <3> QED BY <3>1, TimerValues DEF SvTx, ISTimer, Off
  <2> QED BY <1>1, <1>a, <1>4, <2>1, <2>2 DEF ServerCall, ServerSupervised
<1>5. CASE tx.state # "Proceeding"
  <2>1. n = tx
    BY <1>5 DEF n, ISSendResponse
  <2> QED BY <2>1, <1>5 DEF ServerCall
<1> QED BY <1>a, <1>2, <1>3, <1>4, <1>5

\* handle_transport_error of the server keeps the contract.
LEMMA ServerErrorCall ==
    ASSUME NEW tx \in SvTx, tx.out = {}, tx.ev = {}, tx.state # "Absent"
    PROVE  LET n == ISHandleTransportError(tx)
           IN  ServerCall(tx, n) /\ (n.state # "Confirmed" \/ n = tx)
<1> DEFINE n == ISHandleTransportError(tx)
<1> SUFFICES ServerCall(tx, n) /\ (n.state # "Confirmed" \/ n = tx)
  OBVIOUS
<1>1. n \in SvTx
  BY ServerType
<1>2. CASE tx.state \in {"Proceeding", "Completed"}
  <2>1. n.state = "Terminated" /\ n.out = {} /\ n.last = tx.last /\ n.final = tx.final
    BY <1>2 DEF ISHandleTransportError, SvTx
  <2> QED BY <1>1, <1>2, <2>1 DEF ServerCall, ServerSupervised
<1>3. CASE tx.state \notin {"Proceeding", "Completed"}
  <2>1. n = tx
    BY <1>3 DEF ISHandleTransportError
  <2> QED BY <2>1 DEF ServerCall
<1> QED BY <1>2, <1>3

\* A server call that keeps the contract keeps the invariant.
LEMMA ServerStepInv ==
    ASSUME ExInv, NEW n, ServerStep(n), UNCHANGED <<cl, c2s, told>>,
           ServerCall(Polled(sv), n),
           n.state = "Confirmed" => sv.state = "Confirmed" \/ "ACK" \in c2s
    PROVE  ExInv'
<1>1. /\ Polled(sv).state = sv.state /\ Polled(sv).armed = sv.armed
      /\ Polled(sv).final = sv.final /\ Polled(sv).last = sv.last
  BY DEF Polled, ExInv, ExTypeOK, SvTx
<1>2. n \in SvTx /\ n.out \subseteq Wire /\ sv' = n
  BY DEF ServerCall, SvTx, ServerStep
<1>3. ExTypeOK'
  BY <1>2 DEF ExInv, ExTypeOK, ServerStep
<1>4. Supervised'
  BY <1>1, <1>2 DEF ExInv, Supervised, ClientSupervised, ServerSupervised, ServerCall, ServerStep
<1>5. ClientKnows'
  BY DEF ExInv, Knowledge, ClientKnows
<1>6. ServerKnows'
  <2>1. sv'.state \in {"Absent", "Proceeding"} => sv'.final = "None"
    BY <1>1, <1>2 DEF ExInv, Knowledge, ServerKnows, ServerCall
  <2>2. sv'.state \in {"Completed", "Confirmed"} => sv'.final = "NonTwoXx"
    BY <1>1, <1>2 DEF ExInv, Knowledge, ServerKnows, ServerCall
  <2>3. sv'.state = "Confirmed" => "ACK" \in c2s'
    BY <1>1, <1>2 DEF ExInv, Knowledge, ServerKnows
  <2>4. sv'.last # NoResp => sv'.last \in s2c'
    BY <1>1, <1>2 DEF ExInv, Knowledge, ServerKnows, ServerCall, ServerStep
  <2>5. ASSUME NEW m \in s2c'
        PROVE  /\ Success(m.code) => sv'.final = "TwoXx"
               /\ Failure(m.code) => sv'.final = "NonTwoXx"
    <3>1. m \in s2c \/ m \in n.out
      BY DEF ServerStep
    <3>2. Provisional(m.code) => ~Success(m.code) /\ ~Failure(m.code)
      <4>1. m.code \in Nat
        BY <1>3, <2>5, ExchangeAssumption DEF ExTypeOK, Wire, Resp
      <4> QED BY <4>1 DEF Provisional, Success, Failure
    <3>3. NoResp.code = 0 /\ ~Success(0) /\ ~Failure(0)
      BY DEF NoResp, Resp, Success, Failure
    <3>4. CASE sv'.final = sv.final
      BY <1>1, <1>2, <3>1, <3>2, <3>3, <3>4 DEF ExInv, Knowledge, ServerKnows, ServerCall
    <3>5. CASE sv'.final # sv.final
      <4>1. sv.final = "None"
        BY <1>1, <1>2, <3>5 DEF ExInv, Knowledge, ServerKnows, ServerCall
      <4>2. CASE m \in s2c
        BY <4>1, <4>2 DEF ExInv, Knowledge, ServerKnows
      <4>3. CASE m \in n.out
        <5>1. n.final # Polled(sv).final
          BY <1>1, <1>2, <3>5
        <5>2. /\ Success(m.code) => n.final = "TwoXx"
              /\ Failure(m.code) => n.final = "NonTwoXx"
          BY <4>3, <5>1 DEF ServerCall, Success, Failure
        <5> QED BY <1>2, <5>2
      <4> QED BY <3>1, <4>2, <4>3
    <3> QED BY <3>4, <3>5
  <2>6. sv'.state # "Absent"
    BY <1>2 DEF ServerCall
  <2> QED BY <2>1, <2>2, <2>3, <2>4, <2>5, <2>6 DEF ServerKnows
<1>7. Agreement'
  BY <1>1, <1>2 DEF ExInv, Knowledge, ServerKnows, Agreement, ServerCall
<1> QED BY <1>3, <1>4, <1>5, <1>6, <1>7 DEF ExInv, Knowledge

-----------------------------------------------------------------------------
\* A client timer that fires is a call that keeps the contract.
LEMMA ClientTimerContract ==
    ASSUME ExInv, NEW t \in ICTimer, ClientTimer(t)
    PROVE  ClientCall(Polled(cl), cl') /\ cl'.ev \cap {"Success", "Failure"} = {}
<1>1. Polled(cl) \in ICTx /\ Polled(cl).out = {} /\ Polled(cl).ev = {}
  BY ClientType DEF Polled, ExInv, ExTypeOK, ICTx
<1> QED BY <1>1, ClientTimeoutCall DEF ClientTimer, ClientStep, Consumed

\* A server timer that fires is a call that keeps the contract.
LEMMA ServerTimerContract ==
    ASSUME ExInv, NEW t \in ISTimer, ServerTimer(t)
    PROVE  /\ sv.state # "Absent"
           /\ ServerCall(Polled(sv), sv') /\ sv'.state \in {sv.state, "Terminated"}
<1>1. Polled(sv) \in SvTx /\ Polled(sv).out = {} /\ Polled(sv).ev = {}
      /\ Polled(sv).state = sv.state
  BY ServerType DEF Polled, ExInv, ExTypeOK, SvTx
<1>2. sv.state # "Absent"
  BY DEF ExInv, Knowledge, ServerKnows, ServerTimer, Off
<1> QED BY <1>1, <1>2, ServerTimeoutCall DEF ServerTimer, ServerStep, Consumed

\* Time passing disturbs nothing: no due timer is skipped.
LEMMA TickInv == ASSUME ExInv, Tick PROVE ExInv'
<1>1. cl \in ICTx /\ sv \in SvTx
  BY DEF ExInv, ExTypeOK
<1>2. /\ cl' \in ICTx /\ cl'.state = cl.state
      /\ \A t \in ICTimer : cl.armed[t] # Off => cl'.armed[t] # Off
  <2>1. cl' = [Polled(cl) EXCEPT !.armed = Elapsed(@)]
    BY DEF Tick
  <2>2. Elapsed(cl.armed) \in [ICTimer -> Nat \cup {Off}]
    BY <1>1 DEF Elapsed, ICTx, Off
  <2>3. \A t \in ICTimer : cl.armed[t] # Off => Elapsed(cl.armed)[t] # Off
    BY <1>1 DEF Elapsed, ICTx, Off
  <2> QED BY <1>1, <2>1, <2>2, <2>3 DEF Polled, ICTx
<1>3. /\ sv' \in SvTx /\ sv'.state = sv.state /\ sv'.final = sv.final /\ sv'.last = sv.last
      /\ \A t \in ISTimer : sv.armed[t] # Off => sv'.armed[t] # Off
  <2>1. sv' = [Polled(sv) EXCEPT !.armed = Elapsed(@)]
    BY DEF Tick
  <2>2. Elapsed(sv.armed) \in [ISTimer -> Nat \cup {Off}]
    BY <1>1 DEF Elapsed, SvTx, Off
  <2>3. \A t \in ISTimer : sv.armed[t] # Off => Elapsed(sv.armed)[t] # Off
    BY <1>1 DEF Elapsed, SvTx, Off
  <2> QED BY <1>1, <2>1, <2>2, <2>3 DEF Polled, SvTx
<1>4. \A t \in ISTimer : sv.armed[t] = Off => sv'.armed[t] = Off
  BY <1>1 DEF Tick, Polled, Elapsed, SvTx, Off
<1>5. ExTypeOK' /\ Supervised' /\ Agreement' /\ ClientKnows'
  BY <1>2, <1>3 DEF Tick, ExInv, ExTypeOK, Supervised, ClientSupervised, ServerSupervised,
                    Agreement, Knowledge, ClientKnows, ICTimer, ISTimer
<1>6. ServerKnows'
  BY <1>3, <1>4 DEF Tick, ExInv, Knowledge, ServerKnows
<1> QED BY <1>5, <1>6 DEF ExInv, Knowledge

\* Every step of the client keeps the contract of its machine, and what it
\* tells its user agrees with the server's decision unless other forks answer.
ClientMove == /\ ClientStep(cl')
              /\ ClientCall(Polled(cl), cl')
              /\ UNCHANGED <<sv, s2c>>
              /\ ~Forks => /\ "Success" \in cl'.ev => sv.final = "TwoXx"
                           /\ "Failure" \in cl'.ev => sv.final = "NonTwoXx"

ServerMove == /\ ServerStep(sv')
              /\ ServerCall(Polled(sv), sv')
              /\ UNCHANGED <<cl, c2s, told>>
              /\ sv'.state = "Confirmed" => sv.state = "Confirmed" \/ "ACK" \in c2s

\* Every step is a client call, a server call (or the arrival of the first
\* INVITE), a tick or a stutter.
LEMMA StepKinds ==
    ASSUME ExInv, ExNext
    PROVE  ClientMove \/ ServerMove \/ Tick \/ UNCHANGED vars
<1> USE ExchangeAssumption
<1>0. reliable \in BOOLEAN
  BY DEF ExInv, ExTypeOK
<1>1. Polled(cl) \in ICTx /\ Polled(cl).out = {} /\ Polled(cl).ev = {}
      /\ Polled(cl).state = cl.state /\ Polled(cl).armed = cl.armed
  <2>1. cl \in ICTx
    BY DEF ExInv, ExTypeOK
  <2>2. Polled(cl) \in ICTx
    BY <2>1, ClientType
  <2> QED BY <2>1, <2>2 DEF Polled, ICTx
<1>2. Polled(sv) \in SvTx /\ Polled(sv).out = {} /\ Polled(sv).ev = {}
      /\ Polled(sv).state = sv.state /\ Polled(sv).final = sv.final
      /\ Polled(sv).last = sv.last
  <2>1. sv \in SvTx
    BY DEF ExInv, ExTypeOK
  <2>2. Polled(sv) \in SvTx
    BY <2>1, ServerType
  <2> QED BY <2>1, <2>2 DEF Polled, SvTx
<1>3. ASSUME NEW t \in ICTimer, ClientTimer(t) PROVE ClientMove
  <2>1. ClientCall(Polled(cl), cl') /\ cl'.ev \cap {"Success", "Failure"} = {}
    BY <1>3, ClientTimerContract
  <2> QED BY <1>3, <2>1 DEF ClientMove, ClientTimer, ClientStep
<1>4. ASSUME NEW t \in {"A", "B"}, ClientStaleTimer(t) PROVE ClientMove
  <2>1. ClientSupervised(Polled(cl))
    BY <1>1 DEF ExInv, Supervised, ClientSupervised
  <2>2. cl' = Polled(cl) /\ ClientCall(Polled(cl), Polled(cl))
    BY <1>1, <1>4, <2>1, ClientStaleCall DEF ClientStaleTimer, ClientStep
  <2> QED BY <1>1, <1>4, <2>2 DEF ClientMove, ClientStaleTimer, ClientStep
<1>5. ASSUME NEW m \in s2c, ClientResponse(m) PROVE ClientMove
  <2>1. m.code \in Nat
    BY DEF ExInv, ExTypeOK, Wire, Resp
  <2>2. /\ ClientCall(Polled(cl), cl')
        /\ "Success" \in cl'.ev => Success(m.code)
        /\ "Failure" \in cl'.ev => Failure(m.code)
    BY <1>0, <1>1, <1>5, <2>1, ClientResponseCall DEF ClientResponse, ClientStep
  <2>3. /\ "Success" \in cl'.ev => sv.final = "TwoXx"
        /\ "Failure" \in cl'.ev => sv.final = "NonTwoXx"
    BY <2>2 DEF ExInv, Knowledge, ServerKnows
  <2> QED BY <1>5, <2>2, <2>3 DEF ClientMove, ClientResponse, ClientStep
<1>6. ASSUME NEW code \in Codes, ForkedResponse(code) PROVE ClientMove
  <2>1. ClientCall(Polled(cl), cl')
    BY <1>0, <1>1, <1>6, ClientResponseCall DEF ForkedResponse, ClientStep
  <2> QED BY <1>6, <2>1 DEF ClientMove, ForkedResponse, ClientStep
<1>7. ASSUME ClientTransportError PROVE ClientMove
  <2>1. ClientCall(Polled(cl), cl') /\ cl'.ev \cap {"Success", "Failure"} = {}
    BY <1>1, <1>7, ClientErrorCall DEF ClientTransportError, ClientStep
  <2> QED BY <1>7, <2>1 DEF ClientMove, ClientTransportError, ClientStep
<1>8. ASSUME NEW t \in ISTimer, ServerTimer(t) PROVE ServerMove
  <2>1. ServerCall(Polled(sv), sv') /\ sv'.state \in {sv.state, "Terminated"}
    BY <1>8, ServerTimerContract
  <2> QED BY <1>8, <2>1 DEF ServerMove, ServerTimer, ServerStep
<1>9. ASSUME NEW t \in {"G", "H"}, ServerStaleTimer(t) PROVE ServerMove
  <2>1. sv' = Polled(sv) /\ ServerCall(Polled(sv), Polled(sv))
    BY <1>2, <1>9, ServerStaleCall DEF ServerStaleTimer, ServerStep
  <2> QED BY <1>2, <1>9, <2>1 DEF ServerMove, ServerStaleTimer, ServerStep
<1>10. ASSUME NEW m \in c2s, ServerRequest(m) PROVE ServerMove \/ UNCHANGED vars
  <2>1. m \in {"INVITE", "ACK"}
    BY DEF ExInv, ExTypeOK
  <2>2. CASE sv.state # "Absent"
    <3>1. sv' = ISHandleRequest(Polled(sv), m, reliable)
      BY <1>10, <2>2 DEF ServerRequest, ServerStep
    <3>2. ServerCall(Polled(sv), sv') /\ (sv'.state = "Confirmed" => sv.state = "Confirmed" \/ m = "ACK")
      BY <1>0, <1>2, <2>1, <2>2, <3>1, ServerRequestCall
    <3> QED BY <1>10, <2>2, <3>2 DEF ServerMove, ServerRequest, ServerStep
  <2>3. CASE sv.state = "Absent" /\ m = "INVITE"
    <3>1. sv' = ISNew /\ s2c' = s2c \cup ISNew.out
      BY <1>10, <2>3 DEF ServerRequest, ServerStep
    <3>2. ServerCall(Polled(sv), ISNew)
      <4>1. ISNew.armed \in [ISTimer -> Nat \cup {Off}]
        BY DEF ISNew
      <4>2. ISNew \in SvTx
        BY <4>1, TimerValues DEF ISNew, SvTx, ISState, ISEvent, FinalSent
      <4>3. ISNew.state = "Proceeding" /\ ISNew.final = "None" /\ ISNew.out = {} /\ ISNew.last = NoResp
        BY DEF ISNew
      <4> QED BY <1>2, <2>3, <4>2, <4>3
              DEF ServerCall, ServerSupervised, ExInv, Knowledge, ServerKnows
    <3> QED BY <1>10, <3>1, <3>2 DEF ServerMove, ServerRequest, ServerStep, ISNew
  <2>4. CASE sv.state = "Absent" /\ m = "ACK"
    BY <1>10, <2>4 DEF ServerRequest, vars
  <2> QED BY <2>1, <2>2, <2>3, <2>4
<1>11. ASSUME NEW code \in Codes, ServerAnswer(code) PROVE ServerMove
  <2>1. ServerCall(Polled(sv), sv') /\ (sv'.state # "Confirmed" \/ sv' = Polled(sv))
    BY <1>0, <1>2, <1>11, ServerAnswerCall
    DEF ServerAnswer, ServerStep, ExInv, Knowledge, ServerKnows
  <2> QED BY <1>2, <1>11, <2>1 DEF ServerMove, ServerAnswer, ServerStep
<1>12. ASSUME ServerTransportError PROVE ServerMove
  <2>1. ServerCall(Polled(sv), sv') /\ (sv'.state # "Confirmed" \/ sv' = Polled(sv))
    BY <1>2, <1>12, ServerErrorCall DEF ServerTransportError, ServerStep
  <2> QED BY <1>2, <1>12, <2>1 DEF ServerMove, ServerTransportError, ServerStep
<1> QED BY <1>3, <1>4, <1>5, <1>6, <1>7, <1>8, <1>9, <1>10, <1>11, <1>12
        DEF ExNext, TimerFires

\* The inductive invariant: the two transactions, their timers and the messages
\* on the network stay consistent for all timer values and status codes.
THEOREM InvariantHolds == ExSpec => []ExInv
<1>1. ExInit => ExInv
  BY InitExInv
<1>2. ExInv /\ [ExNext]_vars => ExInv'
  <2> SUFFICES ASSUME ExInv, [ExNext]_vars PROVE ExInv'
    OBVIOUS
  <2>1. CASE ClientMove
    BY <2>1, ClientStepInv DEF ClientMove
  <2>2. CASE ServerMove
    BY <2>2, ServerStepInv DEF ServerMove
  <2>3. CASE Tick
    BY <2>3, TickInv
  <2>4. CASE UNCHANGED vars
    BY <2>4 DEF vars, ExInv, ExTypeOK, Supervised, ClientSupervised, ServerSupervised,
                Knowledge, ClientKnows, ServerKnows, Agreement
  <2> QED BY <2>1, <2>2, <2>3, <2>4, StepKinds
<1> QED BY <1>1, <1>2, PTL DEF ExSpec

\* ExTypeOK for every value of the constants.
THEOREM TypeCorrect == ExSpec => []ExTypeOK
BY InvariantHolds, PTL DEF ExInv

\* No transaction of the exchange is ever left without the timer that ends it,
\* on either kind of transport and whatever the timer values are.
THEOREM NeverUnsupervised == ExSpec => []Supervised
BY InvariantHolds, PTL DEF ExInv

\* Without forking the client's user and the server's user agree.
THEOREM UsersAgree == ExSpec => []Agreement
BY InvariantHolds, PTL DEF ExInv

\* The server's Confirmed state implies that the client's user was told.
THEOREM AckIsAnswered == ExSpec => []AckMeansTold
<1>1. ExInv => AckMeansTold
  BY DEF ExInv, Knowledge, ClientKnows, ServerKnows, AckMeansTold
<1> QED BY <1>1, InvariantHolds, PTL

\* The first outcome told to the client's user stands, but for a 2xx.
THEOREM FirstOutcomeStands == ExSpec => OutcomeStands
<1>1. ExInv /\ [ExNext]_vars => [told # {} => told' \subseteq told \cup {"Success"}]_vars
  <2> SUFFICES ASSUME ExInv, ExNext, told # {} PROVE told' \subseteq told \cup {"Success"}
    BY DEF vars
  <2>1. CASE ClientMove
    <3>1. Polled(cl).state = cl.state /\ cl.state \in {"Completed", "Terminated"}
      BY DEF ExInv, ExTypeOK, Knowledge, ClientKnows, ICTx, ICState, Polled
    <3>2. cl'.ev \subseteq {"Success"}
      BY <2>1, <3>1 DEF ClientMove, ClientCall
    <3> QED BY <2>1, <3>2 DEF ClientMove, ClientStep
  <2>2. CASE ServerMove \/ Tick \/ UNCHANGED vars
    BY <2>2 DEF ServerMove, Tick, vars
  <2> QED BY <2>1, <2>2, StepKinds
<1> QED BY <1>1, InvariantHolds, PTL DEF ExSpec, OutcomeStands

\* Once the server has sent its final response nothing new leaves it.
THEOREM OnlyOneFinalResponse == ExSpec => OneFinalResponse
<1>1. ExInv /\ [ExNext]_vars => [sv.final # "None" => s2c' = s2c]_vars
  <2> SUFFICES ASSUME ExInv, ExNext, sv.final # "None" PROVE s2c' = s2c
    BY DEF vars
  <2>1. CASE ServerMove
    <3>1. Polled(sv).state = sv.state /\ Polled(sv).last = sv.last /\ sv.state # "Proceeding"
      BY DEF ExInv, ExTypeOK, Knowledge, ServerKnows, SvTx, Polled
    <3>2. sv'.out \subseteq {sv.last} \ {NoResp}
      BY <2>1, <3>1 DEF ServerMove, ServerCall
    <3> QED BY <2>1, <3>2 DEF ServerMove, ServerStep, ExInv, Knowledge, ServerKnows
  <2>2. CASE ClientMove \/ Tick \/ UNCHANGED vars
    BY <2>2 DEF ClientMove, Tick, vars
  <2> QED BY <2>1, <2>2, StepKinds
<1> QED BY <1>1, InvariantHolds, PTL DEF ExSpec, OneFinalResponse

\* A terminated transaction stays silent, but for a late 2xx, although
\* handle_transport_error leaves its timers running.
THEOREM TerminatedSilent == ExSpec => TerminatedIsFinal
<1> DEFINE ClientSilent == cl.state = "Terminated" => /\ cl'.state = "Terminated"
                                                      /\ cl'.out = {}
                                                      /\ cl'.ev \subseteq {"Success"}
           ServerSilent == sv.state = "Terminated" => /\ sv'.state = "Terminated"
                                                      /\ sv'.out = {}
                                                      /\ sv'.ev = {}
<1>1. ExInv /\ [ExNext]_vars => [ClientSilent]_cl /\ [ServerSilent]_sv
  <2> SUFFICES ASSUME ExInv, ExNext PROVE [ClientSilent]_cl /\ [ServerSilent]_sv
    BY DEF vars
  <2>1. cl \in ICTx /\ sv \in SvTx
    BY DEF ExInv, ExTypeOK
  <2>2. Polled(cl).state = cl.state /\ Polled(sv).state = sv.state
    BY <2>1 DEF Polled, ICTx, SvTx
  <2>3. CASE ClientMove
    BY <2>2, <2>3 DEF ClientMove, ClientCall
  <2>4. CASE ServerMove
    BY <2>2, <2>4 DEF ServerMove, ServerCall
  <2>5. CASE Tick
    BY <2>1, <2>5 DEF Tick, Polled, ICTx, SvTx
  <2>6. CASE UNCHANGED vars
    BY <2>6 DEF vars
  <2> QED BY <2>3, <2>4, <2>5, <2>6, StepKinds
<1> QED BY <1>1, InvariantHolds, PTL DEF ExSpec, TerminatedIsFinal

\* Without forking the exchange implements the abstract specification: the
\* server's user decides once and the client's user learns that decision, or
\* gives up, or gives up and then learns of a 2xx.
THEOREM ExchangeImplementsOutcome ==
    ASSUME ~Forks
    PROVE  ExSpec => ImplementsOutcome
<1> DEFINE D == CASE sv.final = "TwoXx"    -> "accepted"
                  [] sv.final = "NonTwoXx" -> "rejected"
                  [] OTHER                 -> "undecided"
           L == CASE "Success" \in told -> "accepted"
                  [] "Failure" \in told -> "rejected"
                  [] told = {}          -> "pending"
                  [] OTHER              -> "gaveUp"
<1>1. ExInit => Outcome!OutcomeInit
  BY DEF ExInit, Outcome!OutcomeInit, Absent, ISNew
<1>2. ExInv /\ ExInv' /\ [ExNext]_vars => [Outcome!OutcomeNext]_<<D, L>>
  <2> SUFFICES ASSUME ExInv, ExInv', ExNext PROVE [Outcome!OutcomeNext]_<<D, L>>
    BY DEF vars
  <2>1. Agreement /\ Agreement'
    BY DEF ExInv
  <2>2. CASE ClientMove
    <3>1. sv' = sv /\ told' = told \cup (cl'.ev \cap Outcomes)
      BY <2>2 DEF ClientMove, ClientStep
    <3>2. CASE told' = told
      BY <3>1, <3>2
    <3>3. CASE told = {} /\ told' # told
      BY <2>1, <3>1, <3>3
      DEF Agreement, Outcome!OutcomeNext, Outcome!Learn, Outcome!GiveUp
    <3>4. CASE told # {} /\ told' # told
      <4>1. told' = told \cup {"Success"} /\ "Success" \notin told
        <5>1. Polled(cl).state = cl.state /\ cl.state \in {"Completed", "Terminated"}
          BY <3>4 DEF ExInv, ExTypeOK, Knowledge, ClientKnows, ICTx, ICState, Polled
        <5>2. cl'.ev \subseteq {"Success"}
          BY <2>2, <5>1 DEF ClientMove, ClientCall
        <5> QED BY <3>1, <3>4, <5>2
      <4>2. "Failure" \notin told /\ sv.final = "TwoXx"
        BY <2>1, <3>1, <4>1 DEF Agreement
      <4> QED BY <3>1, <3>4, <4>1, <4>2 DEF Outcome!OutcomeNext, Outcome!LearnLate
    <3> QED BY <3>2, <3>3, <3>4
  <2>3. CASE ServerMove
    <3>1. told' = told
      BY <2>3 DEF ServerMove
    <3>2. sv'.final = sv.final \/ sv.final = "None"
      <4>1. Polled(sv).state = sv.state /\ Polled(sv).final = sv.final
        BY DEF ExInv, ExTypeOK, SvTx, Polled
      <4> QED BY <2>3, <4>1 DEF ServerMove, ServerCall, ExInv, Knowledge, ServerKnows
    <3>3. sv'.final \in FinalSent
      BY DEF ExInv, ExTypeOK, SvTx
    <3> QED BY <3>1, <3>2, <3>3
            DEF FinalSent, Outcome!OutcomeNext, Outcome!Decide, Outcome!Decisions
  <2>4. CASE Tick
    <3>1. sv'.final = sv.final /\ told' = told
      BY <2>4 DEF Tick, Polled, ExInv, ExTypeOK, SvTx
    <3> QED BY <3>1
  <2>5. CASE UNCHANGED vars
    BY <2>5 DEF vars
  <2> QED BY <2>2, <2>3, <2>4, <2>5, StepKinds
<1> QED BY <1>1, <1>2, InvariantHolds, PTL
        DEF ExSpec, ImplementsOutcome, Outcome!OutcomeSpec

-----------------------------------------------------------------------------
(* CallManager.                                                            *)

\* Our role in the INVITE of a call.
We(k) == IF k.direction = "Outbound" THEN "uac" ELSE "uas"

\* A call, as CmTypeOK has it.
Calls == CallRec(DialogIds, Ports)

\* How the fields of one call hang together.  Half of an interval of 1 would
\* be no time at all; intervals are even.
CallOK(c, k) ==
    /\ k.dialog \in {NoDialog, DialogId(c)}
    /\ k.direction = "Outbound" => k.pending = "none"
    /\ k.pending # "none" => k.media = "none"
    /\ k.session_expires # 1
    /\ k.refresh_at # Unset => k.refresher = We(k) /\ k.session_expires # Unset
    /\ k.expiry_at # Unset => k.refresher \in Refresher \ {We(k)} /\ k.session_expires # Unset

\* What the INVITE of a call can be at.
Invites == {NoInvite, Calling, Failed} \cup UNION {Accepted(c) : c \in CallIds}

CmTables ==
    /\ made \in 0 .. MaxCalls
    /\ DOMAIN calls \subseteq 1 .. made
    /\ DOMAIN dialog_to_call \subseteq DialogIds
    /\ next_rtp_port \in PortLo .. PortHi
    /\ invite \in [CallIds -> Invites]
    /\ \A c \in CallIds : c > made => invite[c] = NoInvite

CmCalls ==
    \A c \in DOMAIN calls :
        /\ calls[c] \in Calls
        /\ CallOK(c, calls[c])
        /\ calls[c].direction = "Inbound" => invite[c] = NoInvite

CmRoutes ==
    /\ \A d \in DOMAIN dialog_to_call :
          /\ dialog_to_call[d] \in DOMAIN calls
          /\ calls[dialog_to_call[d]].dialog = d
    /\ \A c \in DOMAIN calls :
          calls[c].state = "Established" \/ calls[c].direction = "Inbound" =>
             /\ calls[c].dialog \in DOMAIN dialog_to_call
             /\ dialog_to_call[calls[c].dialog] = c

CmInv == CmTables /\ CmCalls /\ CmRoutes

-----------------------------------------------------------------------------
(* The operations on one call keep it a call with CallOK.                  *)

\* `n' is call k after an operation that leaves its direction alone, replaces
\* no dialog by another and brings up no call that is not routed.
Kept(c, k, n) ==
    /\ n \in Calls /\ CallOK(c, n)
    /\ n.direction = k.direction
    /\ k.dialog # NoDialog => n.dialog = k.dialog
    /\ n.state = "Established" => k.state = "Established" \/ k.direction = "Inbound"

\* A deadline that has been set falls due after the time given.
LEMMA DeadlineValues ==
    /\ \A d \in Nat \cup {Unset} : /\ Left(d) \in Nat \cup {Unset}
                                   /\ Left(d) = Unset => d = Unset
                                   /\ d = Unset => Left(d) = Unset
    /\ \A se \in Nat : se \div 2 \in Nat /\ (se \notin {0, 1} => se \div 2 # 0)
  BY DEF Left, Unset

\* slide_deadlines
LEMMA SlideOK ==
    ASSUME NEW c, NEW k \in Calls, CallOK(c, k)
    PROVE  Kept(c, k, slide_deadlines(k))
<1>1. CASE k.session_expires = Unset
  BY <1>1 DEF Kept, slide_deadlines
<1>2. CASE k.session_expires # Unset
  <2> DEFINE r == IF k.refresh_at = Unset THEN Unset ELSE k.session_expires \div 2
             e == IF k.expiry_at = Unset THEN Unset ELSE k.session_expires
             n == slide_deadlines(k)
  <2>1. n = [k EXCEPT !.refresh_at = r, !.expiry_at = e]
    BY <1>2 DEF slide_deadlines
  <2>2. /\ r \in Nat \cup {Unset} /\ (r # Unset => k.refresh_at # Unset)
        /\ e \in Nat \cup {Unset} /\ (e # Unset => k.expiry_at # Unset)
    BY <1>2, DeadlineValues DEF Calls, CallRec
  <2> HIDE DEF r, e, n
  <2>3. n \in Calls
    BY <2>1, <2>2 DEF Calls, CallRec
  <2>4. CallOK(c, n)
    BY <2>1, <2>2 DEF CallOK, Calls, CallRec, We
  <2> QED BY <2>1, <2>3, <2>4 DEF Kept, Calls, CallRec, n
<1> QED BY <1>1, <1>2

\* handle_inbound_update, accepted or refused.
LEMMA UpdateOK ==
    ASSUME NEW c, NEW k \in Calls, CallOK(c, k),
           NEW se \in (Nat \ {1}) \cup {Unset}, NEW min_se
    PROVE  Kept(c, k, CallHandleUpdate(k, se, min_se))
<1>1. CASE se = Unset
  BY <1>1, SlideOK DEF CallHandleUpdate
<1>2. CASE se # Unset /\ se < min_se
  BY <1>2 DEF CallHandleUpdate, Kept
<1>3. CASE se # Unset /\ ~(se < min_se)
  <2> DEFINE n == [k EXCEPT !.session_expires = se]
  <2>1. n \in Calls
    BY DEF Calls, CallRec
  <2>2. CallOK(c, n) /\ Kept(c, k, n)
    BY <1>3, <2>1 DEF CallOK, Calls, CallRec, We, Kept, Unset
  <2>3. Kept(c, n, slide_deadlines(n))
    BY <2>1, <2>2, SlideOK
  <2> QED BY <1>3, <2>2, <2>3 DEF CallHandleUpdate, Kept
<1> QED BY <1>1, <1>2, <1>3

\* handle_ended
LEMMA EndedOK ==
    ASSUME NEW c, NEW k \in Calls, CallOK(c, k)
    PROVE  Kept(c, k, handle_ended(k)) /\ handle_ended(k).state = "Terminated"
<1> DEFINE m == IF k.media = "none" THEN "none" ELSE "stopped"
           n == [k EXCEPT !.state = "Terminated", !.media = m]
<1>1. m \in {"none", "stopped"} /\ (k.media = "none" => m = "none")
  OBVIOUS
<1> HIDE DEF m
<1>2. n \in Calls
  BY <1>1 DEF Calls, CallRec, CallState
<1>3. CallOK(c, n)
  BY <1>1 DEF CallOK, Calls, CallRec, We
<1> QED BY <1>2, <1>3 DEF Kept, handle_ended, Calls, CallRec, m

\* tick on one call
LEMMA TickOK ==
    ASSUME NEW c, NEW k \in Calls, CallOK(c, k)
    PROVE  Kept(c, k, CallTick(k))
<1> DEFINE r == maybe_fire_refresh(k)
           n == maybe_fire_expiry_bye(r)
<1>1. Kept(c, k, r) /\ r.dialog = k.dialog
  <2>1. CASE ~RefreshDue(k)
    BY <2>1 DEF Kept, maybe_fire_refresh
  <2>2. CASE RefreshDue(k)
    <3> DEFINE half == k.session_expires \div 2
    <3>1. half \in Nat /\ k.refresh_at # Unset
      BY <2>2, DeadlineValues DEF RefreshDue, Calls, CallRec, Unset
    <3>2. r = [k EXCEPT !.local_cseq = k.local_cseq + 1, !.refresh_at = half]
      BY <2>2 DEF maybe_fire_refresh
    <3>3. k.local_cseq + 1 \in Nat
      BY DEF Calls, CallRec
    <3> HIDE DEF half, r
    <3>4. r \in Calls
      BY <3>1, <3>2, <3>3 DEF Calls, CallRec
    <3>5. CallOK(c, r)
      BY <3>1, <3>2 DEF CallOK, Calls, CallRec, We
    <3> QED BY <3>2, <3>4, <3>5 DEF Kept, Calls, CallRec
  <2> QED BY <2>1, <2>2
<1> HIDE DEF r
<1>2. r \in Calls /\ CallOK(c, r)
  BY <1>1 DEF Kept
<1>3. Kept(c, r, n)
  <2>1. CASE ~ExpiryDue(r)
    BY <1>2, <2>1 DEF Kept, maybe_fire_expiry_bye
  <2>2. CASE ExpiryDue(r)
    <3>1. n = [r EXCEPT !.local_cseq = r.local_cseq + 1, !.expiry_at = Unset,
                        !.state = "Terminating"]
      BY <2>2 DEF maybe_fire_expiry_bye
    <3>2. r.local_cseq + 1 \in Nat
      BY <1>2 DEF Calls, CallRec
    <3> HIDE DEF n
    <3>3. n \in Calls
      BY <1>2, <3>1, <3>2 DEF Calls, CallRec, CallState
    <3>4. CallOK(c, n)
      BY <1>2, <3>1 DEF CallOK, Calls, CallRec, We
    <3> QED BY <1>2, <3>1, <3>3, <3>4 DEF Kept, Calls, CallRec
  <2> QED BY <2>1, <2>2
<1> QED BY <1>1, <1>3 DEF Kept, CallTick, r

\* The passing of time
LEMMA ElapseOK ==
    ASSUME NEW c, NEW k \in Calls, CallOK(c, k)
    PROVE  Kept(c, k, CallElapse(k))
<1> DEFINE r == Left(k.refresh_at)
           e == Left(k.expiry_at)
           n == CallElapse(k)
<1>1. n = [k EXCEPT !.refresh_at = r, !.expiry_at = e]
  BY DEF CallElapse
<1>2. /\ r \in Nat \cup {Unset} /\ (r # Unset => k.refresh_at # Unset)
      /\ e \in Nat \cup {Unset} /\ (e # Unset => k.expiry_at # Unset)
  BY DeadlineValues DEF Calls, CallRec
<1> HIDE DEF r, e, n
<1>3. n \in Calls
  BY <1>1, <1>2 DEF Calls, CallRec
<1>4. CallOK(c, n)
  BY <1>1, <1>2 DEF CallOK, Calls, CallRec, We
<1> QED BY <1>1, <1>3, <1>4 DEF Kept, Calls, CallRec, n

\* Operations that change one field
LEMMA FieldOK ==
    ASSUME NEW c, NEW k \in Calls, CallOK(c, k)
    PROVE  /\ Kept(c, k, take_pending_answer(k))
           /\ take_pending_answer(k).pending = "none"
           /\ \A b \in BOOLEAN : Kept(c, k, [k EXCEPT !.uac_in_flight = b])
           /\ Kept(c, k, [k EXCEPT !.update_unsupported = TRUE])
           /\ Kept(c, k, [k EXCEPT !.state = "Terminating"])
           /\ Kept(c, k, [k EXCEPT !.local_cseq = k.local_cseq + 1])
           /\ \A has_sdp \in BOOLEAN : Kept(c, k, CallHandleProvisional(k, has_sdp))
<1> USE DEF Kept, CallOK, We, Calls, CallRec
<1>1. Kept(c, k, take_pending_answer(k)) /\ take_pending_answer(k).pending = "none"
  BY DEF take_pending_answer
<1>2. \A b \in BOOLEAN : Kept(c, k, [k EXCEPT !.uac_in_flight = b])
  OBVIOUS
<1>3. Kept(c, k, [k EXCEPT !.update_unsupported = TRUE])
  OBVIOUS
<1>4. Kept(c, k, [k EXCEPT !.state = "Terminating"])
  BY DEF CallState
<1>5. Kept(c, k, [k EXCEPT !.local_cseq = k.local_cseq + 1])
  <2>1. k.local_cseq + 1 \in Nat
    OBVIOUS
  <2> QED BY <2>1
<1>6. \A has_sdp \in BOOLEAN : Kept(c, k, CallHandleProvisional(k, has_sdp))
  BY DEF CallHandleProvisional, CallState
<1> QED BY <1>1, <1>2, <1>3, <1>4, <1>5, <1>6

\* set_negotiated_media, when no answer is pending
LEMMA MediaOK ==
    ASSUME NEW c, NEW k \in Calls, CallOK(c, k),
           k.pending = "none", NEW port \in Ports
    PROVE  /\ Kept(c, k, set_negotiated_media(k, port))
           /\ set_negotiated_media(k, port).dialog = k.dialog
<1> DEFINE n == set_negotiated_media(k, port)
<1>1. n = [k EXCEPT !.media = "active", !.port = port]
  BY DEF set_negotiated_media
<1> HIDE DEF n
<1>2. n \in Calls
  BY <1>1 DEF Calls, CallRec
<1>3. CallOK(c, n)
  BY <1>1 DEF CallOK, Calls, CallRec, We
<1> QED BY <1>1, <1>2, <1>3 DEF Kept, Calls, CallRec, n

\* populate_uac_from_response and populate_uas_from_invite
LEMMA PopulateOK ==
    ASSUME NEW c, NEW k \in Calls, CallOK(c, k),
           NEW role
    PROVE  /\ Kept(c, k, populate(k, role)) /\ populate(k, role).dialog = k.dialog
           /\ populate(k, role).pending = k.pending
<1> DEFINE n == [k EXCEPT !.routed = TRUE]
<1>1. n \in Calls /\ n.dialog = k.dialog /\ n.pending = k.pending
  BY DEF Calls, CallRec
<1>2. CallOK(c, n)
  BY DEF CallOK, Calls, CallRec, We
<1>3. Kept(c, k, n) /\ Kept(c, k, k)
  BY <1>1, <1>2 DEF Kept, Calls, CallRec
<1> QED BY <1>1, <1>3 DEF populate

\* set_dialog with the dialog of the call
LEMMA DialogOK ==
    ASSUME NEW c, NEW k \in Calls, CallOK(c, k),
           NEW cseq \in Nat, DialogId(c) \in DialogIds
    PROVE  /\ Kept(c, k, set_dialog(k, DialogId(c), cseq))
           /\ set_dialog(k, DialogId(c), cseq).dialog = DialogId(c)
           /\ set_dialog(k, DialogId(c), cseq).pending = k.pending
<1> DEFINE d == DialogId(c)
           n == set_dialog(k, d, cseq)
<1>1. n = [k EXCEPT !.dialog = d, !.local_cseq = cseq, !.routed = FALSE]
  BY DEF set_dialog
<1>2. d \in DialogIds /\ k.dialog \in {NoDialog, d}
  BY DEF CallOK
<1>3. \A m : m.dialog = d => m.dialog \in {NoDialog, DialogId(c)}
  OBVIOUS
<1> HIDE DEF n, d
<1>4. n \in Calls
  BY <1>1, <1>2 DEF Calls, CallRec
<1>5. n.dialog = d
  BY <1>1 DEF Calls, CallRec
<1>6. CallOK(c, n)
  BY <1>1, <1>3, <1>5 DEF CallOK, Calls, CallRec, We
<1> QED BY <1>1, <1>2, <1>4, <1>5, <1>6 DEF Kept, Calls, CallRec, n, d

\* A negotiated session timer, for either role
LEMMA TimerOK ==
    ASSUME NEW c, NEW k \in Calls, CallOK(c, k),
           NEW se \in Nat \ {1}, NEW refresher \in Refresher, NEW we, we = We(k)
    PROVE  /\ Kept(c, k, set_session_timer(k, se, refresher, we))
           /\ set_session_timer(k, se, refresher, we).dialog = k.dialog
<1> DEFINE r == IF refresher = we THEN se \div 2 ELSE Unset
           e == IF refresher = we THEN Unset ELSE se
           n == set_session_timer(k, se, refresher, we)
<1>1. n = [k EXCEPT !.session_expires = se, !.refresher = refresher,
                    !.refresh_at = r, !.expiry_at = e]
  BY DEF set_session_timer
<1>2. /\ r \in Nat \cup {Unset} /\ (r # Unset => refresher = we)
      /\ e \in Nat \cup {Unset} /\ (e # Unset => refresher # we)
      /\ se \in Nat /\ se # 1 /\ se # Unset
  BY DeadlineValues DEF Unset
<1> HIDE DEF r, e, n
<1>3. n \in Calls
  BY <1>1, <1>2 DEF Calls, CallRec
<1>4. We(n) = we /\ n.dialog = k.dialog
  BY <1>1 DEF We, Calls, CallRec
<1>5. CallOK(c, n)
  BY <1>1, <1>2, <1>4 DEF CallOK, Calls, CallRec
<1> QED BY <1>1, <1>3, <1>4, <1>5 DEF Kept, Calls, CallRec, n

\* handle_answer
LEMMA AnswerOK ==
    ASSUME NEW c, NEW k \in Calls, CallOK(c, k)
    PROVE  /\ handle_answer(k) \in Calls /\ CallOK(c, handle_answer(k))
           /\ handle_answer(k).direction = k.direction
           /\ handle_answer(k).dialog = k.dialog
  BY DEF handle_answer, CallOK, We, Calls, CallRec, CallState

\* The three kinds of new calls.
LEMMA NewOK ==
    ASSUME NEW c, DialogId(c) \in DialogIds
    PROVE  /\ new_outbound \in Calls /\ CallOK(c, new_outbound)
           /\ new_outbound.state # "Established" /\ new_outbound.direction = "Outbound"
           /\ \A sdp \in {"none", "good", "badcodec"} :
                 LET k == NewCall("Ringing", "Inbound", DialogId(c), 0, sdp)
                 IN  /\ k \in Calls /\ CallOK(c, k) /\ k.direction = "Inbound"
                     /\ k.dialog = DialogId(c) /\ k.pending = sdp
<1>1. 0 \in Ports
  BY DEF Ports
<1>2. /\ new_outbound \in Calls
      /\ new_outbound.state # "Established" /\ new_outbound.direction = "Outbound"
  BY <1>1 DEF new_outbound, NewCall, Calls, CallRec, CallState, Unset
<1>3. CallOK(c, new_outbound)
  BY DEF CallOK, new_outbound, NewCall, Unset
<1>4. ASSUME NEW sdp \in {"none", "good", "badcodec"}
      PROVE  LET k == NewCall("Ringing", "Inbound", DialogId(c), 0, sdp)
             IN  /\ k \in Calls /\ CallOK(c, k) /\ k.direction = "Inbound"
                 /\ k.dialog = DialogId(c) /\ k.pending = sdp
  <2> DEFINE d == DialogId(c)
             k == NewCall("Ringing", "Inbound", d, 0, sdp)
  <2>1. d \in DialogIds
    OBVIOUS
  <2>2. k.dialog = d /\ d \in {NoDialog, DialogId(c)}
    BY DEF NewCall
  <2> HIDE DEF d
  <2>3. k \in Calls
    BY <1>1, <2>1 DEF NewCall, Calls, CallRec, CallState, Unset
  <2>4. k.direction = "Inbound" /\ k.pending = sdp
    BY DEF NewCall
  <2>5. CallOK(c, k)
    BY <2>2 DEF NewCall, CallOK, Unset
  <2> QED BY <2>2, <2>3, <2>4, <2>5 DEF d
<1> QED BY <1>2, <1>3, <1>4

-----------------------------------------------------------------------------
(* The tables.                                                             *)

\* Identifiers and dialogs correspond one to one; no dialog is NoDialog.
LEMMA DialogNames ==
    /\ \A c \in CallIds : DialogId(c) \in DialogIds /\ DialogId(c) # NoDialog
    /\ \A d \in DialogIds : d # NoDialog
    /\ \A c, x \in CallIds : DialogId(c) = DialogId(x) => c = x
  BY DEF DialogId, DialogIds, NoDialog

\* allocate_rtp_port stays in the range.
LEMMA PortInRange ==
    ASSUME next_rtp_port \in PortLo .. PortHi, allocate_rtp_port
    PROVE  next_rtp_port' \in PortLo .. PortHi
  BY CallManagerAssumption DEF allocate_rtp_port

\* Progress of the INVITEs: `n' is what a step leaves of them.
InviteKept ==
    /\ invite' \in [CallIds -> Invites]
    /\ \A c \in CallIds : invite[c] = NoInvite => invite'[c] = NoInvite

\* An operation that keeps every call, the routes and the number of calls.
LEMMA KeptInv ==
    ASSUME CmInv, DOMAIN calls' = DOMAIN calls,
           \A c \in DOMAIN calls : Kept(c, calls[c], calls'[c]),
           dialog_to_call' = dialog_to_call, made' = made,
           next_rtp_port' \in PortLo .. PortHi, InviteKept
    PROVE  CmInv'
<1> USE DEF CmInv
<1>0. DOMAIN calls \subseteq CallIds
  BY CallManagerAssumption DEF CmTables, CallIds
<1>1. CmTables'
  BY DEF CmTables, InviteKept
<1>2. CmCalls'
  BY <1>0 DEF CmCalls, Kept, InviteKept
<1>3. CmRoutes'
  <2>1. \A d \in DOMAIN dialog_to_call : calls'[dialog_to_call[d]].dialog = d
    BY DialogNames DEF CmRoutes, CmTables, Kept
  <2>2. ASSUME NEW c \in DOMAIN calls,
               calls'[c].state = "Established" \/ calls'[c].direction = "Inbound"
        PROVE  calls'[c].dialog \in DOMAIN dialog_to_call
               /\ dialog_to_call[calls'[c].dialog] = c
    <3>1. calls[c].state = "Established" \/ calls[c].direction = "Inbound"
      BY <2>2 DEF Kept
    <3>2. calls[c].dialog \in DOMAIN dialog_to_call /\ dialog_to_call[calls[c].dialog] = c
      BY <3>1 DEF CmRoutes
    <3>3. calls'[c].dialog = calls[c].dialog
      BY <3>2, DialogNames DEF Kept, CmTables
    <3> QED BY <3>2, <3>3
  <2> QED BY <2>1, <2>2 DEF CmRoutes
<1> QED BY <1>1, <1>2, <1>3

\* The same, for an operation on one call.
LEMMA OneKeptInv ==
    ASSUME CmInv, NEW c \in DOMAIN calls, NEW n, Changed(c, n), Kept(c, calls[c], n),
           dialog_to_call' = dialog_to_call, made' = made,
           next_rtp_port' \in PortLo .. PortHi, InviteKept
    PROVE  CmInv'
<1>1. DOMAIN calls' = DOMAIN calls
  BY DEF Changed, Put
<1>2. \A x \in DOMAIN calls : Kept(x, calls[x], calls'[x])
  BY DEF Changed, Put, CmInv, CmCalls, Kept
<1> QED BY <1>1, <1>2, KeptInv

\* A step that leaves the calls, the routes and the INVITEs alone.
LEMMA SameInv ==
    ASSUME CmInv, UNCHANGED <<calls, dialog_to_call, made>>,
           next_rtp_port' \in PortLo .. PortHi, InviteKept
    PROVE  CmInv'
<1>1. \A x \in DOMAIN calls : Kept(x, calls[x], calls'[x])
  BY DEF CmInv, CmCalls, Kept
<1> QED BY <1>1, KeptInv

\* Unchanged INVITEs and ports are fine.
LEMMA QuietEnv ==
    ASSUME CmInv
    PROVE  /\ invite' = invite => InviteKept
           /\ next_rtp_port' = next_rtp_port => next_rtp_port' \in PortLo .. PortHi
           /\ allocate_rtp_port => next_rtp_port' \in PortLo .. PortHi
           /\ DOMAIN calls \subseteq CallIds
           /\ \A c \in DOMAIN calls : calls[c] \in Calls /\ CallOK(c, calls[c])
           /\ \A c \in DOMAIN calls : invite[c] # NoInvite => calls[c].direction = "Outbound"
  BY PortInRange, CallManagerAssumption
     DEF CmInv, CmTables, CmCalls, InviteKept, CallIds, Calls, CallRec

-----------------------------------------------------------------------------
(* One lemma per operation, or group of operations of the same shape.      *)

\* create_call
LEMMA CreateInv == ASSUME CmInv, create_call PROVE CmInv'
<1> DEFINE c == made + 1
<1>1. c \in CallIds /\ c \notin DOMAIN calls /\ made' = c /\ DialogId(c) \in DialogIds
  BY CallManagerAssumption, DialogNames DEF create_call, CmInv, CmTables, CallIds
<1>2. /\ DOMAIN calls' = DOMAIN calls \cup {c} /\ calls'[c] = new_outbound
      /\ \A x \in DOMAIN calls : calls'[x] = calls[x]
  BY <1>1 DEF create_call, Changed, Put
<1>3. /\ invite' \in [CallIds -> Invites]
      /\ \A x \in CallIds : x # c => invite'[x] = invite[x]
  BY <1>1 DEF create_call, CmInv, CmTables, Invites
<1>4. dialog_to_call' = dialog_to_call /\ next_rtp_port' = next_rtp_port
  BY DEF create_call
<1> HIDE DEF c
<1>5. CmTables'
  <2>1. made + 1 = c /\ made \in Nat /\ MaxCalls \in Nat /\ c \in 1 .. MaxCalls
    BY <1>1, CallManagerAssumption DEF c, CmInv, CmTables, CallIds
  <2>2. CmTables
    BY DEF CmInv
  <2>3. made' \in 0 .. MaxCalls /\ \A x \in CallIds : x > made' => invite'[x] = NoInvite
    BY <1>1, <1>2, <1>3, <2>1, <2>2 DEF CmTables
  <2>4. DOMAIN calls' \subseteq 1 .. made'
    BY <1>1, <1>2, <2>1, <2>2 DEF CmTables
  <2> QED BY <1>1, <1>2, <1>3, <1>4, <2>2, <2>3, <2>4 DEF CmTables
<1>6. CmCalls'
  <2>1. \A x \in DOMAIN calls : x \in CallIds /\ x # c
    BY <1>1, QuietEnv
  <2> QED BY <1>1, <1>2, <1>3, <2>1, NewOK DEF CmInv, CmCalls
<1>7. CmRoutes'
  BY <1>1, <1>2, <1>4, NewOK DEF CmInv, CmRoutes
<1> QED BY <1>5, <1>6, <1>7 DEF CmInv

\* A call that is new on its own dialog, and registered.
LEMMA IncomingInv ==
    ASSUME CmInv, NEW k \in Calls, CallOK(made + 1, k), k.direction = "Inbound",
           k.dialog = DialogId(made + 1), Incoming(k), next_rtp_port' \in PortLo .. PortHi
    PROVE  CmInv'
<1> DEFINE c == made + 1
           n == populate(k, "uas")
<1>1. c \in CallIds /\ c \notin DOMAIN calls /\ made' = c /\ DialogId(c) \in DialogIds
  BY CallManagerAssumption, DialogNames DEF Incoming, CmInv, CmTables, CallIds
<1>2. Kept(c, k, n) /\ n.dialog = DialogId(c)
  BY PopulateOK
<1>3. /\ n \in Calls /\ CallOK(c, n) /\ n.direction = "Inbound"
  BY <1>2 DEF Kept
<1> HIDE DEF n
<1>4. /\ DOMAIN calls' = DOMAIN calls \cup {c} /\ calls'[c] = n
      /\ \A x \in DOMAIN calls : calls'[x] = calls[x]
  BY <1>1 DEF Incoming, Changed, Put, n
<1>5. dialog_to_call' = Put(dialog_to_call, DialogId(c), c) /\ invite' = invite
  BY <1>2, <1>4 DEF Incoming, Registered
<1>6. invite[c] = NoInvite
  BY <1>1, CallManagerAssumption DEF CmInv, CmTables
<1> HIDE DEF c
<1>7. CmTables'
  <2>1. made + 1 = c /\ made \in Nat /\ MaxCalls \in Nat /\ c \in 1 .. MaxCalls
    BY <1>1, CallManagerAssumption DEF c, CmInv, CmTables, CallIds
  <2>2. DOMAIN dialog_to_call' \subseteq DialogIds
    BY <1>1, <1>5 DEF Put, CmInv, CmTables
  <2>3. CmTables
    BY DEF CmInv
  <2>4. made' \in 0 .. MaxCalls /\ \A x \in CallIds : x > made' => invite'[x] = NoInvite
    BY <1>1, <1>5, <2>1, <2>3 DEF CmTables
  <2>5. DOMAIN calls' \subseteq 1 .. made'
    BY <1>1, <1>4, <2>1, <2>3 DEF CmTables
  <2> QED BY <1>5, <2>2, <2>3, <2>4, <2>5 DEF CmTables
<1>8. CmCalls'
  BY <1>1, <1>3, <1>4, <1>5, <1>6 DEF CmInv, CmCalls
<1>9. CmRoutes'
  <2>1. DialogId(c) \notin DOMAIN dialog_to_call
    <3> SUFFICES ASSUME DialogId(c) \in DOMAIN dialog_to_call PROVE FALSE
      OBVIOUS
    <3> DEFINE x == dialog_to_call[DialogId(c)]
    <3>1. x \in DOMAIN calls /\ calls[x].dialog = DialogId(c)
      BY DEF CmInv, CmRoutes
    <3>2. DialogId(x) = DialogId(c) /\ x \in CallIds
      BY <1>1, <3>1, QuietEnv, DialogNames DEF CallOK
    <3> QED BY <1>1, <3>1, <3>2, DialogNames
  <2>2. /\ DOMAIN dialog_to_call' = DOMAIN dialog_to_call \cup {DialogId(c)}
        /\ dialog_to_call'[DialogId(c)] = c
        /\ \A d \in DOMAIN dialog_to_call : dialog_to_call'[d] = dialog_to_call[d]
    BY <1>5, <2>1 DEF Put
  <2>3. \A d \in DOMAIN dialog_to_call :
           dialog_to_call[d] \in DOMAIN calls /\ calls[dialog_to_call[d]].dialog = d
    BY DEF CmInv, CmRoutes
  <2>4. \A d \in DOMAIN dialog_to_call' :
           dialog_to_call'[d] \in DOMAIN calls' /\ calls'[dialog_to_call'[d]].dialog = d
    BY <1>2, <1>4, <2>2, <2>3 DEF n
  <2>5. ASSUME NEW x \in DOMAIN calls,
               calls[x].state = "Established" \/ calls[x].direction = "Inbound"
        PROVE  calls[x].dialog \in DOMAIN dialog_to_call' /\ dialog_to_call'[calls[x].dialog] = x
    BY <2>2, <2>5 DEF CmInv, CmRoutes
  <2>6. ASSUME NEW x \in DOMAIN calls',
               calls'[x].state = "Established" \/ calls'[x].direction = "Inbound"
        PROVE  calls'[x].dialog \in DOMAIN dialog_to_call' /\ dialog_to_call'[calls'[x].dialog] = x
    BY <1>2, <1>4, <2>2, <2>5, <2>6 DEF n
  <2> QED BY <2>4, <2>6 DEF CmRoutes
<1> QED BY <1>7, <1>8, <1>9 DEF CmInv

\* handle_incoming_invite and accept_inbound_invite
LEMMA InboundInv ==
    ASSUME CmInv, NEW sdp \in Sdp,
           handle_incoming_invite(sdp) \/ accept_inbound_invite(sdp)
    PROVE  CmInv'
<1> DEFINE d == DialogId(made + 1)
<1>1. made < MaxCalls => d \in DialogIds
  BY CallManagerAssumption, DialogNames DEF CmInv, CmTables, CallIds
<1>2. next_rtp_port \in Ports
  BY DEF CmInv, CmTables, Ports
<1>3. CASE handle_incoming_invite(sdp) /\ sdp = "good"
  <2> DEFINE k == new_inbound(d, 0)
             n == set_negotiated_media(k, next_rtp_port)
  <2>1. Incoming(n) /\ made < MaxCalls
    BY <1>3 DEF handle_incoming_invite, Incoming
  <2>2. k \in Calls /\ CallOK(made + 1, k) /\ k.direction = "Inbound"
        /\ k.dialog = d /\ k.pending = "none"
    BY <1>1, <2>1, NewOK DEF new_inbound
  <2> HIDE DEF k
  <2>3. Kept(made + 1, k, n) /\ n.dialog = d
    BY <1>2, <2>2, MediaOK
  <2>4. next_rtp_port' \in PortLo .. PortHi
    BY <1>3, QuietEnv DEF handle_incoming_invite
  <2> HIDE DEF n
  <2> QED BY <2>1, <2>2, <2>3, <2>4, IncomingInv DEF Kept
<1>4. CASE handle_incoming_invite(sdp) /\ sdp # "good"
  BY <1>4, QuietEnv, SameInv DEF handle_incoming_invite, env
<1>5. CASE accept_inbound_invite(sdp)
  <2> DEFINE k == new_inbound_pending(d, 0, sdp)
  <2>1. Incoming(k) /\ made < MaxCalls /\ sdp \in {"none", "good", "badcodec"}
        /\ next_rtp_port' = next_rtp_port
    BY <1>5 DEF accept_inbound_invite, Incoming, Sdp
  <2>2. k \in Calls /\ CallOK(made + 1, k) /\ k.direction = "Inbound" /\ k.dialog = d
    BY <1>1, <2>1, NewOK DEF new_inbound_pending
  <2> HIDE DEF k
  <2> QED BY <2>1, <2>2, QuietEnv, IncomingInv
<1> QED BY <1>3, <1>4, <1>5

\* attach_dialog
LEMMA AttachInv == ASSUME CmInv, NEW c \in CallIds, attach_dialog(c) PROVE CmInv'
<1>1. c \in DOMAIN calls /\ Changed(c, set_dialog(calls[c], DialogId(c), InviteCSeq))
  BY DEF attach_dialog, Has
<1>2. Kept(c, calls[c], set_dialog(calls[c], DialogId(c), InviteCSeq))
  BY <1>1, QuietEnv, DialogNames, DialogOK DEF InviteCSeq
<1> QED BY <1>1, <1>2, QuietEnv, OneKeptInv DEF attach_dialog, env

\* handle_provisional_response
LEMMA ProvisionalInv ==
    ASSUME CmInv, NEW c \in CallIds, NEW sdp \in Sdp \cup {"none"}, NEW r \in Provisionals,
           handle_provisional_response(c, sdp, r)
    PROVE  CmInv'
<1>1. /\ dialog_to_call' = dialog_to_call /\ made' = made /\ invite' = invite
      /\ next_rtp_port' \in PortLo .. PortHi /\ InviteKept
      /\ invite[c] = Calling
  BY QuietEnv DEF handle_provisional_response, env
<1>2. CASE ~Has(c)
  BY <1>1, <1>2, SameInv DEF handle_provisional_response
<1>3. CASE Has(c)
  <2> DEFINE routed == IF r = "untagged" THEN calls[c] ELSE populate(calls[c], "uac")
             media  == IF sdp = "good" THEN set_negotiated_media(routed, next_rtp_port)
                                       ELSE routed
             rung   == CallHandleProvisional(media, sdp # "none")
             prack  == r = "reliable" /\ rung.dialog # NoDialog
             n      == IF prack THEN [rung EXCEPT !.local_cseq = rung.local_cseq + 1] ELSE rung
  <2>1. Changed(c, n) /\ c \in DOMAIN calls
    BY <1>3 DEF handle_provisional_response, Has
  <2>2. calls[c] \in Calls /\ CallOK(c, calls[c]) /\ calls[c].direction = "Outbound"
    BY <1>1, <2>1, QuietEnv DEF Calling, NoInvite
  <2>3. calls[c].pending = "none" /\ next_rtp_port \in Ports
    BY <2>2 DEF CallOK, CmInv, CmTables, Ports
  <2>4. Kept(c, calls[c], routed) /\ routed.pending = "none"
    <3>1. Kept(c, calls[c], calls[c])
      BY <2>2 DEF Kept
    <3> QED BY <2>2, <2>3, <3>1, PopulateOK
  <2> HIDE DEF routed
  <2>5. routed \in Calls /\ CallOK(c, routed)
    BY <2>4 DEF Kept
  <2>6. Kept(c, routed, media)
    <3>1. Kept(c, routed, routed)
      BY <2>5 DEF Kept
    <3> QED BY <2>3, <2>4, <2>5, <3>1, MediaOK
  <2> HIDE DEF media
  <2>7. media \in Calls /\ CallOK(c, media)
    BY <2>6 DEF Kept
  <2>8. Kept(c, media, rung)
    BY <2>7, FieldOK
  <2> HIDE DEF rung
  <2>9. rung \in Calls /\ CallOK(c, rung)
    BY <2>8 DEF Kept
  <2>10. Kept(c, rung, n)
    <3>1. Kept(c, rung, rung)
      BY <2>9 DEF Kept
    <3> QED BY <2>9, <3>1, FieldOK
  <2> HIDE DEF n
  <2>11. Kept(c, calls[c], n)
    BY <2>4, <2>6, <2>8, <2>10 DEF Kept
  <2> QED BY <1>1, <2>1, <2>11, OneKeptInv
<1> QED BY <1>2, <1>3

\* The intervals peers ask for.
LEMMA OfferValues ==
    ASSUME NEW c, NEW se \in Offers(c)
    PROVE  se \in (Nat \ {1}) \cup {Unset}
  BY CallManagerAssumption DEF Offers

\* handle_invite_success: a call that comes up is registered.
LEMMA SuccessInv ==
    ASSUME CmInv, NEW c \in CallIds, NEW ok \in Accepted(c), handle_invite_success(c, ok)
    PROVE  CmInv'
<1>1. /\ made' = made /\ invite' = [invite EXCEPT ![c] = ok] /\ invite[c] \in {Calling, ok}
      /\ next_rtp_port' \in PortLo .. PortHi
  BY QuietEnv DEF handle_invite_success
<1>2. ok \in Invites /\ ok.is \in Sdp /\ ok.se \in (Nat \ {1}) \cup {Unset}
      /\ ok.refresher \in Refresher \cup {"none"}
  <2>1. /\ ok.is \in Sdp /\ ok.se \in Offers(c) /\ ok.refresher \in Refresher \cup {"none"}
    BY DEF Accepted
  <2>2. ok.se \in (Nat \ {1}) \cup {Unset}
    BY <2>1, OfferValues
  <2>3. ok \in UNION {Accepted(x) : x \in CallIds}
    OBVIOUS
  <2> QED BY <2>1, <2>2, <2>3 DEF Invites
<1>3. invite[c] # NoInvite
  BY <1>1, <1>2 DEF NoInvite, Calling, Sdp
<1>4. InviteKept
  BY <1>1, <1>2, <1>3 DEF InviteKept, CmInv, CmTables
<1>5. CASE ok.is \notin {"good", "badcodec"} \/ ~Has(c)
  BY <1>1, <1>4, <1>5, SameInv DEF handle_invite_success
<1>6. ASSUME Has(c)
      PROVE  /\ c \in DOMAIN calls /\ Kept(c, calls[c], Confirmed(c))
             /\ Confirmed(c).dialog = DialogId(c) /\ Confirmed(c).pending = "none"
             /\ Confirmed(c).direction = "Outbound"
             /\ Confirmed(c) \in Calls /\ CallOK(c, Confirmed(c))
  <2> DEFINE k == set_dialog(calls[c], DialogId(c), InviteCSeq)
  <2>1. /\ c \in DOMAIN calls /\ calls[c] \in Calls /\ CallOK(c, calls[c])
        /\ calls[c].direction = "Outbound"
    BY <1>3, <1>6, QuietEnv DEF Has
  <2>2. Kept(c, calls[c], k) /\ k.dialog = DialogId(c) /\ k.pending = calls[c].pending
    BY <2>1, DialogNames, DialogOK DEF InviteCSeq
  <2> HIDE DEF k
  <2>3. /\ Kept(c, k, populate(k, "uac")) /\ populate(k, "uac").dialog = k.dialog
        /\ populate(k, "uac").pending = k.pending
    BY <2>2, PopulateOK DEF Kept
  <2>4. Confirmed(c) = populate(k, "uac") /\ calls[c].pending = "none"
    BY <2>1 DEF Confirmed, k, CallOK
  <2> QED BY <2>1, <2>2, <2>3, <2>4 DEF Kept
<1>7. CASE ok.is = "badcodec" /\ Has(c)
  <2>1. Changed(c, Confirmed(c)) /\ dialog_to_call' = dialog_to_call
    BY <1>7 DEF handle_invite_success
  <2> QED BY <1>1, <1>4, <1>6, <1>7, <2>1, OneKeptInv
<1>8. CASE ok.is = "good" /\ Has(c)
  <2> DEFINE m == set_negotiated_media(Confirmed(c), next_rtp_port)
             a == handle_answer(m)
             n == apply_invite_2xx_session_timer(a, ok.se, ok.refresher)
  <2>1. Changed(c, n) /\ Registered(c)
    BY <1>8 DEF handle_invite_success
  <2>2. Kept(c, Confirmed(c), m) /\ m.dialog = DialogId(c)
    <3>1. next_rtp_port \in Ports
      BY DEF CmInv, CmTables, Ports
    <3> QED BY <1>6, <1>8, <3>1, MediaOK
  <2>3. m \in Calls /\ CallOK(c, m) /\ m.direction = "Outbound"
    BY <1>6, <1>8, <2>2 DEF Kept
  <2> HIDE DEF m
  <2>4. a \in Calls /\ CallOK(c, a) /\ a.direction = "Outbound" /\ a.dialog = DialogId(c)
    BY <2>2, <2>3, AnswerOK
  <2> HIDE DEF a
  <2>5. n \in Calls /\ CallOK(c, n) /\ n.direction = "Outbound" /\ n.dialog = DialogId(c)
    <3>1. CASE ok.se = Unset
      BY <2>4, <3>1 DEF apply_invite_2xx_session_timer
    <3>2. CASE ok.se # Unset
      <4> DEFINE who == IF ok.refresher = "none" THEN "uac" ELSE ok.refresher
      <4>1. who \in Refresher /\ We(a) = "uac"
        BY <1>2, <2>4 DEF Refresher, We
      <4>2. n = set_session_timer(a, ok.se, who, "uac")
        BY <3>2 DEF apply_invite_2xx_session_timer
      <4> HIDE DEF who, n
      <4>3. Kept(c, a, n) /\ n.dialog = a.dialog
        BY <1>2, <2>4, <3>2, <4>1, <4>2, TimerOK
      <4> QED BY <2>4, <4>3 DEF Kept
    <3> QED BY <3>1, <3>2
  <2> HIDE DEF n
  <2>6. /\ DOMAIN calls' = DOMAIN calls /\ calls'[c] = n /\ c \in DOMAIN calls
        /\ \A x \in DOMAIN calls : x # c => calls'[x] = calls[x]
    BY <1>6, <1>8, <2>1 DEF Changed, Put
  <2>7. /\ DOMAIN dialog_to_call' = DOMAIN dialog_to_call \cup {DialogId(c)}
        /\ dialog_to_call'[DialogId(c)] = c
        /\ \A d \in DOMAIN dialog_to_call : d # DialogId(c) => dialog_to_call'[d] = dialog_to_call[d]
    BY <2>1, <2>5, <2>6 DEF Registered, Put
  <2>8. CmTables'
    BY <1>1, <1>4, <2>6, <2>7, DialogNames DEF CmInv, CmTables, InviteKept
  <2>9. CmCalls'
    <3>1. \A x \in DOMAIN calls : x \in CallIds
      BY QuietEnv
    <3> QED BY <1>4, <2>5, <2>6, <3>1 DEF CmInv, CmCalls, InviteKept
  <2>10. CmRoutes'
    <3>1. \A x \in DOMAIN calls : x # c => calls[x].dialog # DialogId(c)
      BY QuietEnv, DialogNames DEF CallOK
    <3>2. ASSUME NEW d \in DOMAIN dialog_to_call'
          PROVE  dialog_to_call'[d] \in DOMAIN calls' /\ calls'[dialog_to_call'[d]].dialog = d
      <4>1. CASE d = DialogId(c)
        BY <2>5, <2>6, <2>7, <4>1
      <4>2. CASE d # DialogId(c)
        <5> DEFINE x == dialog_to_call[d]
        <5>1. /\ d \in DialogIds /\ dialog_to_call'[d] = x
              /\ x \in DOMAIN calls /\ calls[x].dialog = d
          BY <2>7, <4>2 DEF CmInv, CmTables, CmRoutes
        <5> HIDE DEF x
        <5>2. x # c
          BY <4>2, <5>1, QuietEnv, DialogNames DEF CallOK
        <5> QED BY <2>6, <5>1, <5>2
      <4> QED BY <4>1, <4>2
    <3>3. ASSUME NEW x \in DOMAIN calls',
                 calls'[x].state = "Established" \/ calls'[x].direction = "Inbound"
          PROVE  calls'[x].dialog \in DOMAIN dialog_to_call'
                 /\ dialog_to_call'[calls'[x].dialog] = x
      <4>1. CASE x = c
        BY <2>5, <2>6, <2>7, <4>1
      <4>2. CASE x # c
        <5>1. /\ calls'[x] = calls[x] /\ calls[x].dialog \in DOMAIN dialog_to_call
              /\ dialog_to_call[calls[x].dialog] = x
          BY <2>6, <3>3, <4>2 DEF CmInv, CmRoutes
        <5> QED BY <2>6, <2>7, <3>1, <4>2, <5>1
      <4> QED BY <4>1, <4>2
    <3> QED BY <3>2, <3>3 DEF CmRoutes
  <2> QED BY <2>8, <2>9, <2>10 DEF CmInv
<1> QED BY <1>2, <1>5, <1>7, <1>8 DEF Sdp

\* handle_invite_failure
LEMMA FailureInv == ASSUME CmInv, NEW c \in CallIds, handle_invite_failure(c) PROVE CmInv'
<1>1. /\ dialog_to_call' = dialog_to_call /\ made' = made
      /\ next_rtp_port' = next_rtp_port
      /\ invite' = [invite EXCEPT ![c] = Failed] /\ invite[c] = Calling
  BY DEF handle_invite_failure
<1>2. InviteKept
  BY <1>1 DEF InviteKept, CmInv, CmTables, Invites, Calling, NoInvite
<1>3. CASE Has(c)
  <2>1. Changed(c, handle_ended(calls[c])) /\ c \in DOMAIN calls
    BY <1>3 DEF handle_invite_failure, Has
  <2>2. Kept(c, calls[c], handle_ended(calls[c]))
    BY <2>1, QuietEnv, EndedOK
  <2> QED BY <1>1, <1>2, <2>1, <2>2, QuietEnv, OneKeptInv
<1>4. CASE ~Has(c)
  BY <1>1, <1>2, <1>4, QuietEnv, SameInv DEF handle_invite_failure
<1> QED BY <1>3, <1>4

\* build_answer_for and reject_inbound_invite take the deferred answer.
LEMMA PendingInv ==
    ASSUME CmInv, NEW c \in CallIds, build_answer_for(c) \/ reject_inbound_invite(c)
    PROVE  CmInv'
<1>1. /\ dialog_to_call' = dialog_to_call /\ made' = made /\ invite' = invite
      /\ next_rtp_port' = next_rtp_port /\ c \in DOMAIN calls
  BY DEF build_answer_for, reject_inbound_invite, env, Has
<1> DEFINE taken == take_pending_answer(calls[c])
<1>2. Kept(c, calls[c], taken) /\ taken.pending = "none"
  BY <1>1, QuietEnv, FieldOK
<1>3. taken \in Calls /\ CallOK(c, taken)
  BY <1>2 DEF Kept
<1>4. CASE build_answer_for(c)
  <2> DEFINE n == IF calls[c].pending = "good" THEN set_negotiated_media(taken, 0) ELSE taken
  <2>1. Changed(c, n)
    BY <1>4 DEF build_answer_for
  <2> HIDE DEF taken
  <2>2. Kept(c, taken, n)
    <3>1. Kept(c, taken, taken) /\ 0 \in Ports
      BY <1>3 DEF Kept, Ports
    <3> QED BY <1>2, <1>3, <3>1, MediaOK
  <2> HIDE DEF n
  <2>3. Kept(c, calls[c], n)
    BY <1>2, <2>2 DEF Kept
  <2> QED BY <1>1, <2>1, <2>3, QuietEnv, OneKeptInv
<1>5. CASE reject_inbound_invite(c)
  <2>1. Changed(c, handle_ended(taken))
    BY <1>5 DEF reject_inbound_invite
  <2> HIDE DEF taken
  <2>2. Kept(c, calls[c], handle_ended(taken))
    BY <1>2, <1>3, EndedOK DEF Kept
  <2> QED BY <1>1, <2>1, <2>2, QuietEnv, OneKeptInv
<1> QED BY <1>4, <1>5

\* answer_call, with accept_session_timer
LEMMA AnswerInv ==
    ASSUME CmInv, NEW c \in CallIds, NEW se \in Offers(c), NEW t \in BOOLEAN,
           answer_call(c, se, t)
    PROVE  CmInv'
<1> DEFINE v == evaluate_inbound_invite_session_timer(se, MinSE, t)
           a == handle_answer(calls[c])
           n == IF v.verdict = "Accept"
                THEN CallAcceptSessionTimer(a, v.session_expires, v.refresher) ELSE a
<1>1. /\ dialog_to_call' = dialog_to_call /\ made' = made /\ invite' = invite
      /\ next_rtp_port' = next_rtp_port /\ c \in DOMAIN calls
      /\ calls[c].direction = "Inbound" /\ Changed(c, n)
  BY DEF answer_call, env, Has
<1>2. se \in (Nat \ {1}) \cup {Unset}
  BY OfferValues
<1>3. v.verdict = "Accept" => v.session_expires \in Nat \ {1} /\ v.refresher \in Refresher
  <2>1. CASE se = Unset
    BY <2>1 DEF evaluate_inbound_invite_session_timer
  <2>2. CASE se # Unset /\ se < MinSE
    BY <2>2 DEF evaluate_inbound_invite_session_timer
  <2>3. CASE se # Unset /\ ~(se < MinSE)
    BY <1>2, <2>3 DEF evaluate_inbound_invite_session_timer, Refresher
  <2> QED BY <2>1, <2>2, <2>3
<1>4. a \in Calls /\ CallOK(c, a) /\ a.direction = "Inbound" /\ a.dialog = calls[c].dialog
  BY <1>1, QuietEnv, AnswerOK
<1> HIDE DEF v, a
<1>5. Kept(c, a, n)
  <2>1. Kept(c, a, a) /\ We(a) = "uas"
    BY <1>4 DEF Kept, We
  <2> QED BY <1>3, <1>4, <2>1, TimerOK DEF CallAcceptSessionTimer
<1> HIDE DEF n
<1>6. Kept(c, calls[c], n)
  BY <1>1, <1>4, <1>5 DEF Kept
<1> QED BY <1>1, <1>6, QuietEnv, OneKeptInv

\* The operations of the application on one call.
LEMMA CallInv ==
    ASSUME CmInv, NEW c \in CallIds,
           \/ reject_call(c) \/ note_update_unsupported(c) \/ terminate_call(c)
           \/ mark_in_dialog_2xx(c)
           \/ \E b \in BOOLEAN : set_uac_in_flight(c, b)
    PROVE  CmInv'
<1>1. /\ dialog_to_call' = dialog_to_call /\ made' = made /\ invite' = invite
      /\ next_rtp_port' = next_rtp_port /\ c \in DOMAIN calls
  BY DEF reject_call, note_update_unsupported, terminate_call, set_uac_in_flight,
         mark_in_dialog_2xx, env, Has
<1>2. calls[c] \in Calls /\ CallOK(c, calls[c])
  BY <1>1, QuietEnv
<1>3. \E n : Changed(c, n) /\ Kept(c, calls[c], n)
  <2>1. CASE reject_call(c)
    BY <1>2, <2>1, EndedOK DEF reject_call
  <2>2. CASE note_update_unsupported(c)
    BY <1>2, <2>2, FieldOK DEF note_update_unsupported
  <2>3. CASE terminate_call(c)
    BY <1>2, <2>3, FieldOK DEF terminate_call
  <2>4. ASSUME NEW b \in BOOLEAN, set_uac_in_flight(c, b)
        PROVE  \E n : Changed(c, n) /\ Kept(c, calls[c], n)
    <3>1. Changed(c, [calls[c] EXCEPT !.uac_in_flight = b])
      BY <2>4 DEF set_uac_in_flight
    <3> QED BY <1>2, <3>1, FieldOK
  <2>5. CASE mark_in_dialog_2xx(c)
    BY <1>2, <2>5, SlideOK DEF mark_in_dialog_2xx
  <2> QED BY <2>1, <2>2, <2>3, <2>4, <2>5
<1> QED BY <1>1, <1>3, QuietEnv, OneKeptInv

\* The requests of the peer in the dialog.
LEMMA InDialogInv ==
    ASSUME CmInv, NEW d \in DialogIds,
           \/ \E se \in Offers(d[1]) : handle_inbound_update(d, se)
           \/ slide_deadlines_for_dialog(d) \/ handle_bye(d)
    PROVE  CmInv'
<1> DEFINE c == dialog_to_call[d]
<1>1. /\ dialog_to_call' = dialog_to_call /\ made' = made /\ invite' = invite
      /\ next_rtp_port' = next_rtp_port /\ c \in DOMAIN calls
  BY DEF handle_inbound_update, slide_deadlines_for_dialog, handle_bye, Routed, env, Has
<1>2. calls[c] \in Calls /\ CallOK(c, calls[c])
  BY <1>1, QuietEnv
<1>3. \E n : Changed(c, n) /\ Kept(c, calls[c], n)
  <2>1. ASSUME NEW se \in Offers(d[1]), handle_inbound_update(d, se)
        PROVE  \E n : Changed(c, n) /\ Kept(c, calls[c], n)
    <3>1. Changed(c, CallHandleUpdate(calls[c], se, MinSE))
      BY <2>1 DEF handle_inbound_update
    <3>2. se \in (Nat \ {1}) \cup {Unset}
      BY OfferValues
    <3> HIDE DEF c
    <3> QED BY <1>2, <3>1, <3>2, UpdateOK
  <2>2. CASE slide_deadlines_for_dialog(d)
    BY <1>2, <2>2, SlideOK DEF slide_deadlines_for_dialog
  <2>3. CASE handle_bye(d)
    BY <1>2, <2>3, EndedOK DEF handle_bye
  <2> QED BY <2>1, <2>2, <2>3
<1> HIDE DEF c
<1> QED BY <1>1, <1>3, QuietEnv, OneKeptInv

\* tick and the passing of time
LEMMA TimeInv == ASSUME CmInv, tick \/ Pass PROVE CmInv'
<1>1. /\ dialog_to_call' = dialog_to_call /\ made' = made /\ invite' = invite
      /\ next_rtp_port' = next_rtp_port /\ DOMAIN calls' = DOMAIN calls
  BY DEF tick, Pass, env
<1>2. \A c \in DOMAIN calls : Kept(c, calls[c], calls'[c])
  BY QuietEnv, TickOK, ElapseOK DEF tick, Pass
<1> QED BY <1>1, <1>2, QuietEnv, KeptInv

\* remove_call
LEMMA RemoveInv == ASSUME CmInv, NEW c \in CallIds, remove_call(c) PROVE CmInv'
<1>1. /\ made' = made /\ invite' = invite /\ next_rtp_port' = next_rtp_port
      /\ DOMAIN calls' = DOMAIN calls \ {c} /\ c \in DOMAIN calls
      /\ \A x \in DOMAIN calls' : calls'[x] = calls[x]
  BY DEF remove_call, Drop, env, Has
<1>2. /\ DOMAIN dialog_to_call' = DOMAIN dialog_to_call \ {calls[c].dialog}
      /\ \A d \in DOMAIN dialog_to_call' : dialog_to_call'[d] = dialog_to_call[d]
  BY DEF remove_call, Drop
<1>3. CmTables' /\ CmCalls'
  BY <1>1, <1>2 DEF CmInv, CmTables, CmCalls
<1>4. CmRoutes'
  <2>1. ASSUME NEW d \in DOMAIN dialog_to_call'
        PROVE  dialog_to_call'[d] \in DOMAIN calls' /\ calls'[dialog_to_call'[d]].dialog = d
    BY <1>1, <1>2 DEF CmInv, CmRoutes
  <2>2. ASSUME NEW x \in DOMAIN calls',
               calls'[x].state = "Established" \/ calls'[x].direction = "Inbound"
        PROVE  calls'[x].dialog \in DOMAIN dialog_to_call'
               /\ dialog_to_call'[calls'[x].dialog] = x
    <3>1. /\ calls'[x] = calls[x] /\ calls[x].dialog \in DOMAIN dialog_to_call
          /\ dialog_to_call[calls[x].dialog] = x /\ x # c
      BY <1>1, <2>2 DEF CmInv, CmRoutes
    <3>2. calls[x].dialog # calls[c].dialog
      <4>1. calls[x].dialog = DialogId(x) /\ x \in CallIds
        BY <1>1, <3>1, QuietEnv, DialogNames DEF CallOK, CmInv, CmTables
      <4> QED BY <1>1, <3>1, <4>1, QuietEnv, DialogNames DEF CallOK
    <3> QED BY <1>2, <3>1, <3>2
  <2> QED BY <2>1, <2>2 DEF CmRoutes
<1> QED BY <1>3, <1>4 DEF CmInv

-----------------------------------------------------------------------------
(* Routed requests and reported changes.                                   *)

\* A call whose dialog has its route set: every one that is up, and every
\* inbound one from the start.
Up(k) == k.state = "Established" \/ k.direction = "Inbound"
UpIsRouted == \A c \in DOMAIN calls : Up(calls[c]) => calls[c].routed

\* A change of state the application did not ask for is in the events.
Told ==
    \A c \in DOMAIN calls \cap DOMAIN calls' :
        calls'[c].state # calls[c].state =>
           c \in events' \/ terminate_call(c) \/ reject_call(c)

\* What one step has to keep.
StepOK == UpIsRouted' /\ RequestsAreRouted' /\ Told

\* The operation touches neither state, routing nor direction.
Still(k, n) == n.state = k.state /\ n.routed = k.routed /\ n.direction = k.direction

LEMMA StillOps ==
    ASSUME NEW k \in Calls
    PROVE  /\ Still(k, slide_deadlines(k))
           /\ \A se, min_se : Still(k, CallHandleUpdate(k, se, min_se))
           /\ Still(k, CallElapse(k))
           /\ Still(k, take_pending_answer(k))
           /\ \A port : Still(k, set_negotiated_media(k, port))
           /\ \A b : Still(k, [k EXCEPT !.uac_in_flight = b])
           /\ Still(k, [k EXCEPT !.update_unsupported = TRUE])
           /\ \A se, r, we : Still(k, set_session_timer(k, se, r, we))
<1> USE DEF Still, Calls, CallRec
<1>1. Still(k, slide_deadlines(k))
  BY DEF slide_deadlines
<1>2. ASSUME NEW se, NEW min_se PROVE Still(k, CallHandleUpdate(k, se, min_se))
  <2> DEFINE m == [k EXCEPT !.session_expires = se]
  <2>1. m.state = k.state /\ m.routed = k.routed /\ m.direction = k.direction
    OBVIOUS
  <2>2. Still(m, slide_deadlines(m))
    BY DEF slide_deadlines
  <2>3. CASE se = Unset
    BY <1>1, <2>3 DEF CallHandleUpdate
  <2>4. CASE se # Unset /\ se < min_se
    BY <2>4 DEF CallHandleUpdate
  <2>5. CASE se # Unset /\ ~(se < min_se)
    <3>1. CallHandleUpdate(k, se, min_se) = slide_deadlines(m)
      BY <2>5 DEF CallHandleUpdate
    <3> QED BY <2>1, <2>2, <3>1
  <2> QED BY <2>3, <2>4, <2>5
<1>3. Still(k, CallElapse(k))
  BY DEF CallElapse
<1>4. Still(k, take_pending_answer(k)) /\ \A port : Still(k, set_negotiated_media(k, port))
  BY DEF take_pending_answer, set_negotiated_media
<1>5. /\ \A b : Still(k, [k EXCEPT !.uac_in_flight = b])
      /\ Still(k, [k EXCEPT !.update_unsupported = TRUE])
  OBVIOUS
<1>6. \A se, r, we : Still(k, set_session_timer(k, se, r, we))
  BY DEF set_session_timer
<1> QED BY <1>1, <1>2, <1>3, <1>4, <1>5, <1>6

\* handle_ended and handle_answer change the state alone.
LEMMA EndOps ==
    ASSUME NEW k \in Calls
    PROVE  /\ handle_ended(k).state = "Terminated" /\ handle_ended(k).routed = k.routed
           /\ handle_ended(k).direction = k.direction
           /\ handle_answer(k).routed = k.routed /\ handle_answer(k).direction = k.direction
  BY DEF handle_ended, handle_answer, Calls, CallRec

\* populate fills in the routing of the dialog of its own role.
LEMMA PopulateRoutes ==
    ASSUME NEW k \in Calls, k.dialog # NoDialog, NEW role \in Refresher, role = We(k)
    PROVE  populate(k, role).routed /\ populate(k, role).direction = k.direction
           /\ populate(k, role).state = k.state
<1>1. (k.direction = "Outbound") <=> (role = "uac")
  BY DEF We
<1>2. [k EXCEPT !.routed = TRUE].routed
  BY DEF Calls, CallRec
<1>3. /\ [k EXCEPT !.routed = TRUE].direction = k.direction
      /\ [k EXCEPT !.routed = TRUE].state = k.state
  BY DEF Calls, CallRec
<1>4. populate(k, role) = [k EXCEPT !.routed = TRUE]
  BY <1>1 DEF populate
<1> QED BY <1>2, <1>3, <1>4

\* tick ends a call only when its expiry is due.
LEMMA TickOps ==
    ASSUME NEW k \in Calls
    PROVE  /\ CallTick(k).routed = k.routed /\ CallTick(k).direction = k.direction
           /\ CallTick(k).state = "Established" => k.state = "Established"
           /\ CallTick(k).state # k.state => ExpiryDue(k)
           /\ \A r \in TickRequests(k) : r.routed = k.routed /\ k.state = "Established"
<1> DEFINE r == maybe_fire_refresh(k)
           n == maybe_fire_expiry_bye(r)
<1>1. r.routed = k.routed /\ r.direction = k.direction /\ r.state = k.state
      /\ r.expiry_at = k.expiry_at /\ r.dialog = k.dialog /\ DOMAIN r = DOMAIN k
  BY DEF maybe_fire_refresh, Calls, CallRec
<1>2. ExpiryDue(r) <=> ExpiryDue(k)
  BY <1>1 DEF ExpiryDue
<1>3. /\ "state" \in DOMAIN k /\ "local_cseq" \in DOMAIN k /\ "expiry_at" \in DOMAIN k
      /\ "routed" \in DOMAIN k /\ "direction" \in DOMAIN k
  BY DEF Calls, CallRec
<1> HIDE DEF r
<1>4. CASE ~ExpiryDue(r)
  <2>1. n = r
    BY <1>4 DEF maybe_fire_expiry_bye
  <2>2. CallTick(k) = r
    BY <2>1 DEF CallTick, r
  <2>3. \A q \in TickRequests(k) : q.routed = k.routed /\ k.state = "Established"
    BY DEF TickRequests, RefreshDue, ExpiryDue
  <2> QED BY <1>1, <2>2, <2>3
<1>5. CASE ExpiryDue(r)
  <2>1. n = [r EXCEPT !.local_cseq = @ + 1, !.expiry_at = Unset, !.state = "Terminating"]
    BY <1>5 DEF maybe_fire_expiry_bye
  <2>2. n.routed = r.routed /\ n.direction = r.direction /\ n.state = "Terminating"
    BY <1>1, <1>3, <2>1
  <2>3. CallTick(k) = n
    BY DEF CallTick, r
  <2>4. \A q \in TickRequests(k) : q.routed = k.routed /\ k.state = "Established"
    BY DEF TickRequests, RefreshDue, ExpiryDue
  <2> HIDE DEF n
  <2> QED BY <1>1, <1>2, <1>5, <2>2, <2>3, <2>4
<1> QED BY <1>4, <1>5

\* An operation on one call that queues nothing.
LEMMA OneCallOK ==
    ASSUME CmInv, UpIsRouted, NEW c, NEW n, Changed(c, n), Up(n) => n.routed, NoRequest,
           c \in DOMAIN calls /\ n.state # calls[c].state
              => c \in events' \/ terminate_call(c) \/ reject_call(c)
    PROVE  StepOK
<1>1. /\ DOMAIN calls' = DOMAIN calls \cup {c} /\ calls'[c] = n
      /\ \A x \in DOMAIN calls : x # c => calls'[x] = calls[x]
  BY DEF Changed, Put
<1>2. UpIsRouted'
  BY <1>1 DEF UpIsRouted
<1>3. RequestsAreRouted'
  BY DEF NoRequest, RequestsAreRouted
<1>4. Told
  <2> SUFFICES ASSUME NEW x \in DOMAIN calls \cap DOMAIN calls', calls'[x].state # calls[x].state
               PROVE  x \in events' \/ terminate_call(x) \/ reject_call(x)
    BY DEF Told
  <2>1. x = c
    BY <1>1
  <2> QED BY <1>1, <2>1
<1> QED BY <1>2, <1>3, <1>4 DEF StepOK

LEMMA StillOK ==
    ASSUME CmInv, UpIsRouted, NEW c \in DOMAIN calls, NEW n, Changed(c, n), Still(calls[c], n),
           NoRequest
    PROVE  StepOK
<1>1. Up(n) => n.routed
  BY DEF Still, Up, UpIsRouted
<1> QED BY <1>1, OneCallOK DEF Still

LEMMA SameOK ==
    ASSUME UpIsRouted, calls' = calls, NoRequest
    PROVE  StepOK
  BY DEF StepOK, UpIsRouted, NoRequest, RequestsAreRouted, Told

\* create_call and attach_dialog: the call is not up yet.
LEMMA CreateOK == ASSUME CmInv, UpIsRouted, create_call PROVE StepOK
<1>1. Changed(made + 1, new_outbound) /\ NoRequest
  BY DEF create_call, NoRequest
<1>2. made + 1 \notin DOMAIN calls
  BY CallManagerAssumption DEF CmInv, CmTables
<1>3. ~Up(new_outbound)
  BY DEF Up, new_outbound, NewCall
<1> QED BY <1>1, <1>2, <1>3, OneCallOK

LEMMA AttachOK ==
    ASSUME CmInv, UpIsRouted, NEW c \in CallIds, attach_dialog(c)
    PROVE  StepOK
<1> DEFINE k == calls[c]
           n == set_dialog(k, DialogId(c), InviteCSeq)
<1>1. c \in DOMAIN calls /\ Changed(c, n) /\ NoRequest /\ k.dialog = NoDialog /\ invite[c] = Calling
  BY DEF attach_dialog, Has
<1>2. k \in Calls /\ k.direction = "Outbound"
  BY <1>1, QuietEnv DEF Calling, NoInvite
<1>3. k.state # "Established"
  BY <1>1, DialogNames DEF CmInv, CmRoutes, CmTables
<1>4. n.state = k.state /\ n.direction = k.direction
  BY <1>2 DEF set_dialog, Calls, CallRec
<1>5. ~Up(n)
  BY <1>2, <1>3, <1>4 DEF Up
<1> HIDE DEF n
<1> QED BY <1>1, <1>4, <1>5, OneCallOK

\* A PRACK goes out only from a dialog that the same response has routed.
LEMMA ProvisionalOK ==
    ASSUME CmInv, UpIsRouted, NEW c \in CallIds, NEW sdp \in Sdp \cup {"none"},
           NEW r \in Provisionals, handle_provisional_response(c, sdp, r)
    PROVE  StepOK
<1>1. CASE ~Has(c)
  <2>1. calls' = calls /\ NoRequest
    BY <1>1 DEF handle_provisional_response
  <2> QED BY <2>1, SameOK
<1>2. CASE Has(c)
  <2> DEFINE routed == IF r = "untagged" THEN calls[c] ELSE populate(calls[c], "uac")
             media  == IF sdp = "good" THEN set_negotiated_media(routed, next_rtp_port)
                                       ELSE routed
             rung   == CallHandleProvisional(media, sdp # "none")
             prack  == r = "reliable" /\ rung.dialog # NoDialog
             n      == IF prack THEN [rung EXCEPT !.local_cseq = rung.local_cseq + 1] ELSE rung
             req    == [kind |-> "Prack", cseq |-> rung.local_cseq + 1, routed |-> rung.routed]
  <2>1. /\ Changed(c, n) /\ c \in DOMAIN calls /\ events' = {c} /\ invite[c] = Calling
        /\ Queue(c, {req : x \in {y \in {1} : prack}})
    BY <1>2 DEF handle_provisional_response, Has, Report
  <2>2. /\ calls[c] \in Calls /\ CallOK(c, calls[c]) /\ calls[c].direction = "Outbound"
    BY <2>1, QuietEnv DEF Calling, NoInvite
  <2>3. /\ routed \in Calls /\ routed.direction = "Outbound"
        /\ r = "reliable" /\ routed.dialog # NoDialog => routed.routed
    <3>1. CASE r = "untagged"
      BY <2>2, <3>1
    <3>2. CASE r # "untagged"
      <4>1. routed = populate(calls[c], "uac")
        BY <3>2
      <4>2. Kept(c, calls[c], populate(calls[c], "uac")) /\ populate(calls[c], "uac").dialog = calls[c].dialog
        BY <2>2, PopulateOK
      <4>3. calls[c].dialog # NoDialog => populate(calls[c], "uac").routed
        BY <2>2, PopulateRoutes DEF Refresher, We
      <4> QED BY <2>2, <4>1, <4>2, <4>3 DEF Kept
    <3> QED BY <3>1, <3>2
  <2> HIDE DEF routed
  <2>4. /\ media.direction = "Outbound" /\ media.dialog = routed.dialog /\ media.routed = routed.routed
        /\ DOMAIN media = DOMAIN routed
    BY <2>3 DEF set_negotiated_media, Calls, CallRec
  <2>5. "state" \in DOMAIN routed /\ "local_cseq" \in DOMAIN routed
    BY <2>3 DEF Calls, CallRec
  <2> HIDE DEF media
  <2>6. /\ rung.direction = "Outbound" /\ rung.dialog = routed.dialog /\ rung.routed = routed.routed
        /\ rung.state # "Established" /\ DOMAIN rung = DOMAIN routed
    BY <2>4, <2>5 DEF CallHandleProvisional
  <2> HIDE DEF rung
  <2>7. n.direction = "Outbound" /\ n.state # "Established"
    BY <2>5, <2>6
  <2>8. prack => rung.routed
    BY <2>3, <2>6
  <2> HIDE DEF n, prack
  <2>9. /\ DOMAIN calls' = DOMAIN calls /\ calls'[c] = n
        /\ \A x \in DOMAIN calls : x # c => calls'[x] = calls[x]
    BY <2>1 DEF Changed, Put
  <2>10. UpIsRouted'
    BY <2>7, <2>9 DEF UpIsRouted, Up
  <2>11. Told
    BY <2>1, <2>9 DEF Told
  <2>12. req.routed = rung.routed
    OBVIOUS
  <2> HIDE DEF req
  <2>13. RequestsAreRouted'
    <3> SUFFICES ASSUME NEW m \in out' PROVE m.req.routed
      BY DEF RequestsAreRouted
    <3>1. m.req = req /\ prack
      BY <2>1 DEF Queue
    <3> QED BY <2>8, <2>12, <3>1
  <2> QED BY <2>10, <2>11, <2>13 DEF StepOK
<1> QED BY <1>1, <1>2

\* The dialog of a 2xx is routed before the call is up.
LEMMA SuccessOK ==
    ASSUME CmInv, UpIsRouted, NEW c \in CallIds, NEW ok \in Accepted(c),
           handle_invite_success(c, ok)
    PROVE  StepOK
<1>1. ok.is \in Sdp /\ NoRequest /\ invite[c] \in {Calling, ok}
  BY DEF Accepted, handle_invite_success
<1>2. CASE ok.is \notin {"good", "badcodec"} \/ ~Has(c)
  <2>1. calls' = calls
    BY <1>2 DEF handle_invite_success
  <2> QED BY <1>1, <2>1, SameOK
<1>3. ASSUME Has(c)
      PROVE  /\ c \in DOMAIN calls /\ Confirmed(c) \in Calls /\ Confirmed(c).routed
             /\ Confirmed(c).direction = "Outbound" /\ Confirmed(c).state = calls[c].state
             /\ CallOK(c, Confirmed(c)) /\ Confirmed(c).pending = "none"
  <2> DEFINE k == set_dialog(calls[c], DialogId(c), InviteCSeq)
  <2>1. invite[c] # NoInvite
    BY <1>1 DEF NoInvite, Calling, Sdp
  <2>2. /\ c \in DOMAIN calls /\ calls[c] \in Calls /\ CallOK(c, calls[c])
        /\ calls[c].direction = "Outbound"
    BY <1>3, <2>1, QuietEnv DEF Has
  <2>3. Kept(c, calls[c], k) /\ k.dialog = DialogId(c) /\ k.pending = calls[c].pending
    BY <2>2, DialogNames, DialogOK DEF InviteCSeq
  <2>4. k.state = calls[c].state
    BY <2>2 DEF set_dialog, Calls, CallRec
  <2>5. Confirmed(c) = populate(k, "uac") /\ calls[c].pending = "none"
    BY <2>2 DEF Confirmed, CallOK
  <2> HIDE DEF k
  <2>6. k \in Calls /\ CallOK(c, k) /\ k.direction = "Outbound" /\ k.dialog # NoDialog
    BY <2>2, <2>3, DialogNames DEF Kept
  <2>7. /\ populate(k, "uac").routed /\ populate(k, "uac").direction = k.direction
        /\ populate(k, "uac").state = k.state
    BY <2>6, PopulateRoutes DEF We, Refresher
  <2>8. Kept(c, k, populate(k, "uac")) /\ populate(k, "uac").pending = k.pending
    BY <2>6, PopulateOK
  <2> QED BY <2>2, <2>3, <2>4, <2>5, <2>6, <2>7, <2>8 DEF Kept
<1>4. CASE ok.is = "badcodec" /\ Has(c)
  <2>1. Changed(c, Confirmed(c))
    BY <1>4 DEF handle_invite_success
  <2>2. c \in DOMAIN calls /\ Confirmed(c).routed /\ Confirmed(c).state = calls[c].state
    BY <1>3, <1>4
  <2> QED BY <1>1, <2>1, <2>2, OneCallOK
<1>5. CASE ok.is = "good" /\ Has(c)
  <2> DEFINE m == set_negotiated_media(Confirmed(c), next_rtp_port)
             a == handle_answer(m)
             n == apply_invite_2xx_session_timer(a, ok.se, ok.refresher)
  <2>1. Changed(c, n) /\ events' = {c}
    BY <1>5 DEF handle_invite_success, Report
  <2>2. m \in Calls /\ CallOK(c, m)
    <3>1. next_rtp_port \in Ports
      BY DEF CmInv, CmTables, Ports
    <3>2. Kept(c, Confirmed(c), m)
      BY <1>3, <1>5, <3>1, MediaOK
    <3> QED BY <3>2 DEF Kept
  <2>3. m.routed = Confirmed(c).routed
    BY <1>3, <1>5, StillOps DEF Still
  <2> HIDE DEF m
  <2>4. a \in Calls /\ a.routed = m.routed
    BY <2>2, EndOps, AnswerOK
  <2> HIDE DEF a
  <2>5. n.routed = a.routed
    BY <2>4, StillOps DEF apply_invite_2xx_session_timer, Still
  <2>6. n.routed
    BY <1>3, <1>5, <2>3, <2>4, <2>5
  <2> HIDE DEF n
  <2> QED BY <1>1, <2>1, <2>6, OneCallOK
<1> QED BY <1>1, <1>2, <1>4, <1>5 DEF Sdp

LEMMA FailureOK ==
    ASSUME CmInv, UpIsRouted, NEW c \in CallIds, handle_invite_failure(c)
    PROVE  StepOK
<1>1. NoRequest /\ invite[c] = Calling
  BY DEF handle_invite_failure
<1>2. CASE Has(c)
  <2>1. Changed(c, handle_ended(calls[c])) /\ c \in DOMAIN calls /\ events' = {c}
    BY <1>2 DEF handle_invite_failure, Has, Report
  <2>2. calls[c] \in Calls /\ calls[c].direction = "Outbound"
    BY <1>1, <2>1, QuietEnv DEF Calling, NoInvite
  <2>3. ~Up(handle_ended(calls[c]))
    BY <2>2, EndOps DEF Up
  <2> QED BY <1>1, <2>1, <2>3, OneCallOK
<1>3. CASE ~Has(c)
  <2>1. calls' = calls
    BY <1>3 DEF handle_invite_failure
  <2> QED BY <1>1, <2>1, SameOK
<1> QED BY <1>2, <1>3

\* An inbound call is routed from the start.
LEMMA IncomingOK ==
    ASSUME CmInv, UpIsRouted, NEW k \in Calls, k.direction = "Inbound", k.dialog # NoDialog,
           Incoming(k)
    PROVE  StepOK
<1>1. Changed(made + 1, populate(k, "uas")) /\ NoRequest
  BY DEF Incoming
<1>2. made + 1 \notin DOMAIN calls
  BY CallManagerAssumption DEF CmInv, CmTables
<1>3. populate(k, "uas").routed
  BY PopulateRoutes DEF We, Refresher
<1> QED BY <1>1, <1>2, <1>3, OneCallOK

LEMMA InboundOK ==
    ASSUME CmInv, UpIsRouted, NEW sdp \in Sdp,
           handle_incoming_invite(sdp) \/ accept_inbound_invite(sdp)
    PROVE  StepOK
<1> DEFINE d == DialogId(made + 1)
<1>1. made < MaxCalls => d \in DialogIds /\ d # NoDialog
  BY CallManagerAssumption, DialogNames DEF CmInv, CmTables, CallIds
<1>2. CASE handle_incoming_invite(sdp) /\ sdp = "good"
  <2> DEFINE k == new_inbound(d, 0)
             n == set_negotiated_media(k, next_rtp_port)
  <2>1. Incoming(n) /\ made < MaxCalls
    BY <1>2 DEF handle_incoming_invite, Incoming
  <2>2. k \in Calls /\ CallOK(made + 1, k) /\ k.direction = "Inbound"
        /\ k.dialog = d /\ k.pending = "none"
    BY <1>1, <2>1, NewOK DEF new_inbound
  <2> HIDE DEF k
  <2>3. Kept(made + 1, k, n) /\ n.dialog = d
    <3>1. next_rtp_port \in Ports
      BY DEF CmInv, CmTables, Ports
    <3> QED BY <2>2, <3>1, MediaOK
  <2> HIDE DEF n
  <2> QED BY <1>1, <2>1, <2>2, <2>3, IncomingOK DEF Kept
<1>3. CASE handle_incoming_invite(sdp) /\ sdp # "good"
  <2>1. calls' = calls /\ NoRequest
    BY <1>3 DEF handle_incoming_invite
  <2> QED BY <2>1, SameOK
<1>4. CASE accept_inbound_invite(sdp)
  <2> DEFINE k == new_inbound_pending(d, 0, sdp)
  <2>1. Incoming(k) /\ made < MaxCalls /\ sdp \in {"none", "good", "badcodec"}
    BY <1>4 DEF accept_inbound_invite, Incoming, Sdp
  <2>2. k \in Calls /\ k.direction = "Inbound" /\ k.dialog = d
    BY <1>1, <2>1, NewOK DEF new_inbound_pending
  <2> HIDE DEF k
  <2> QED BY <1>1, <2>1, <2>2, IncomingOK
<1> QED BY <1>2, <1>3, <1>4

\* The deferred answer, and answer_call.
LEMMA AnswersOK ==
    ASSUME CmInv, UpIsRouted, NEW c \in CallIds,
           \/ build_answer_for(c) \/ reject_inbound_invite(c)
           \/ \E se \in Offers(c), t \in BOOLEAN : answer_call(c, se, t)
    PROVE  StepOK
<1>1. c \in DOMAIN calls /\ NoRequest
  BY DEF build_answer_for, reject_inbound_invite, answer_call, Has
<1>2. calls[c] \in Calls /\ CallOK(c, calls[c]) /\ (Up(calls[c]) => calls[c].routed)
  BY <1>1, QuietEnv DEF UpIsRouted
<1> DEFINE taken == take_pending_answer(calls[c])
<1>3. taken \in Calls /\ Still(calls[c], taken)
  <2>1. Kept(c, calls[c], taken)
    BY <1>2, FieldOK
  <2> QED BY <1>2, <2>1, StillOps DEF Kept
<1>4. CASE build_answer_for(c)
  <2> DEFINE n == IF calls[c].pending = "good" THEN set_negotiated_media(taken, 0) ELSE taken
  <2>1. Changed(c, n)
    BY <1>4 DEF build_answer_for
  <2> HIDE DEF taken
  <2>2. Still(taken, n)
    BY <1>3, StillOps DEF Still
  <2> HIDE DEF n
  <2>3. Still(calls[c], n)
    BY <1>3, <2>2 DEF Still
  <2> QED BY <1>1, <2>1, <2>3, StillOK
<1>5. CASE reject_inbound_invite(c)
  <2>1. Changed(c, handle_ended(taken)) /\ events' = {c}
    BY <1>5 DEF reject_inbound_invite, Report
  <2> HIDE DEF taken
  <2>2. /\ handle_ended(taken).state = "Terminated" /\ handle_ended(taken).routed = calls[c].routed
        /\ handle_ended(taken).direction = calls[c].direction
    BY <1>3, EndOps DEF Still
  <2>3. Up(handle_ended(taken)) => handle_ended(taken).routed
    BY <1>2, <2>2 DEF Up
  <2> QED BY <1>1, <2>1, <2>3, OneCallOK
<1>6. ASSUME NEW se \in Offers(c), NEW t \in BOOLEAN, answer_call(c, se, t) PROVE StepOK
  <2> DEFINE v == evaluate_inbound_invite_session_timer(se, MinSE, t)
             a == handle_answer(calls[c])
             n == IF v.verdict = "Accept"
                  THEN CallAcceptSessionTimer(a, v.session_expires, v.refresher) ELSE a
  <2>1. Changed(c, n) /\ calls[c].direction = "Inbound" /\ events' = {c}
    BY <1>6 DEF answer_call, Report
  <2>2. a \in Calls /\ a.routed = calls[c].routed
    BY <1>2, AnswerOK, EndOps
  <2> HIDE DEF a, v
  <2>3. n.routed = a.routed
    BY <2>2, StillOps DEF CallAcceptSessionTimer, Still
  <2>4. n.routed
    BY <1>2, <2>1, <2>2, <2>3 DEF Up
  <2> HIDE DEF n
  <2> QED BY <1>1, <2>1, <2>4, OneCallOK
<1> QED BY <1>4, <1>5, <1>6

\* The operations of the application on one call.
LEMMA CallStepOK ==
    ASSUME CmInv, UpIsRouted, NEW c \in CallIds,
           \/ reject_call(c) \/ note_update_unsupported(c) \/ terminate_call(c)
           \/ mark_in_dialog_2xx(c)
           \/ \E b \in BOOLEAN : set_uac_in_flight(c, b)
    PROVE  StepOK
<1>1. c \in DOMAIN calls /\ NoRequest
  BY DEF reject_call, note_update_unsupported, terminate_call, set_uac_in_flight,
         mark_in_dialog_2xx, Has
<1>2. calls[c] \in Calls /\ (Up(calls[c]) => calls[c].routed)
  BY <1>1, QuietEnv DEF UpIsRouted
<1>3. CASE reject_call(c)
  <2>1. Changed(c, handle_ended(calls[c]))
    BY <1>3 DEF reject_call
  <2>2. Up(handle_ended(calls[c])) => handle_ended(calls[c]).routed
    BY <1>2, EndOps DEF Up
  <2> QED BY <1>1, <1>3, <2>1, <2>2, OneCallOK
<1>4. CASE terminate_call(c)
  <2> DEFINE n == [calls[c] EXCEPT !.state = "Terminating"]
  <2>1. Changed(c, n)
    BY <1>4 DEF terminate_call
  <2>2. n.routed = calls[c].routed /\ n.direction = calls[c].direction /\ n.state = "Terminating"
    BY <1>2 DEF Calls, CallRec
  <2> HIDE DEF n
  <2>3. Up(n) => n.routed
    BY <1>2, <2>2 DEF Up
  <2> QED BY <1>1, <1>4, <2>1, <2>3, OneCallOK
<1>5. CASE note_update_unsupported(c)
  <2>1. Changed(c, [calls[c] EXCEPT !.update_unsupported = TRUE])
    BY <1>5 DEF note_update_unsupported
  <2> QED BY <1>1, <1>2, <2>1, StillOps, StillOK
<1>6. CASE mark_in_dialog_2xx(c)
  <2>1. Changed(c, slide_deadlines(calls[c]))
    BY <1>6 DEF mark_in_dialog_2xx
  <2> QED BY <1>1, <1>2, <2>1, StillOps, StillOK
<1>7. ASSUME NEW b \in BOOLEAN, set_uac_in_flight(c, b) PROVE StepOK
  <2>1. Changed(c, [calls[c] EXCEPT !.uac_in_flight = b])
    BY <1>7 DEF set_uac_in_flight
  <2> QED BY <1>1, <1>2, <2>1, StillOps, StillOK
<1> QED BY <1>3, <1>4, <1>5, <1>6, <1>7

\* The requests of the peer in the dialog.
LEMMA InDialogOK ==
    ASSUME CmInv, UpIsRouted, NEW d \in DialogIds,
           \/ \E se \in Offers(d[1]) : handle_inbound_update(d, se)
           \/ slide_deadlines_for_dialog(d) \/ handle_bye(d)
    PROVE  StepOK
<1>1. PICK c : c = dialog_to_call[d]
  OBVIOUS
<1>2. c \in DOMAIN calls /\ NoRequest
  BY <1>1 DEF handle_inbound_update, slide_deadlines_for_dialog, handle_bye, Routed, Has
<1>3. calls[c] \in Calls /\ (Up(calls[c]) => calls[c].routed)
  BY <1>2, QuietEnv DEF UpIsRouted
<1>4. ASSUME NEW se \in Offers(d[1]), handle_inbound_update(d, se) PROVE StepOK
  <2>1. Changed(c, CallHandleUpdate(calls[c], se, MinSE))
    BY <1>1, <1>4 DEF handle_inbound_update
  <2> QED BY <1>2, <1>3, <2>1, StillOps, StillOK
<1>5. CASE slide_deadlines_for_dialog(d)
  <2>1. Changed(c, slide_deadlines(calls[c]))
    BY <1>1, <1>5 DEF slide_deadlines_for_dialog
  <2> QED BY <1>2, <1>3, <2>1, StillOps, StillOK
<1>6. CASE handle_bye(d)
  <2>1. Changed(c, handle_ended(calls[c])) /\ events' = {c}
    BY <1>1, <1>6 DEF handle_bye, Report
  <2>2. Up(handle_ended(calls[c])) => handle_ended(calls[c]).routed
    BY <1>3, EndOps DEF Up
  <2> QED BY <1>2, <2>1, <2>2, OneCallOK
<1> QED BY <1>4, <1>5, <1>6

\* tick, the passing of time and remove_call
LEMMA TickStepOK == ASSUME CmInv, UpIsRouted, tick PROVE StepOK
<1>1. /\ DOMAIN calls' = DOMAIN calls /\ \A c \in DOMAIN calls : calls'[c] = CallTick(calls[c])
      /\ events' = {c \in DOMAIN calls : ExpiryDue(calls[c])}
  BY DEF tick, Report
<1>2. \A c \in DOMAIN calls : calls[c] \in Calls /\ (Up(calls[c]) => calls[c].routed)
  BY QuietEnv DEF UpIsRouted
<1>3. UpIsRouted'
  BY <1>1, <1>2, TickOps DEF UpIsRouted, Up
<1>4. Told
  BY <1>1, <1>2, TickOps DEF Told
<1>5. RequestsAreRouted'
  <2> SUFFICES ASSUME NEW m \in out' PROVE m.req.routed
    BY DEF RequestsAreRouted
  <2>1. PICK c \in DOMAIN calls : m \in {[call |-> c, req |-> r] : r \in TickRequests(calls[c])}
    BY DEF tick
  <2>2. PICK r \in TickRequests(calls[c]) : m = [call |-> c, req |-> r]
    BY <2>1
  <2>3. m.req = r
    BY <2>2
  <2>4. r.routed = calls[c].routed /\ calls[c].state = "Established"
    BY <1>2, <2>2, TickOps
  <2>5. calls[c].routed
    BY <1>2, <2>4 DEF Up
  <2> QED BY <2>3, <2>4, <2>5
<1> QED BY <1>3, <1>4, <1>5 DEF StepOK

LEMMA QuietOK ==
    ASSUME CmInv, UpIsRouted, Pass \/ \E c \in CallIds : remove_call(c)
    PROVE  StepOK
<1>1. CASE Pass
  <2>1. /\ DOMAIN calls' = DOMAIN calls /\ \A c \in DOMAIN calls : calls'[c] = CallElapse(calls[c])
        /\ out' = {}
    BY <1>1 DEF Pass, NoRequest
  <2>2. \A c \in DOMAIN calls : Still(calls[c], calls'[c]) /\ (Up(calls[c]) => calls[c].routed)
    BY <2>1, QuietEnv, StillOps DEF UpIsRouted
  <2> QED BY <2>1, <2>2 DEF StepOK, UpIsRouted, Up, Still, Told, RequestsAreRouted
<1>2. ASSUME NEW c \in CallIds, remove_call(c) PROVE StepOK
  <2>1. /\ DOMAIN calls' \subseteq DOMAIN calls /\ \A x \in DOMAIN calls' : calls'[x] = calls[x]
        /\ out' = {}
    BY <1>2 DEF remove_call, Drop, NoRequest
  <2> QED BY <2>1 DEF StepOK, UpIsRouted, Told, RequestsAreRouted
<1> QED BY <1>1, <1>2

-----------------------------------------------------------------------------
(* The theorems.                                                           *)

LEMMA InitCmInv == CmInit => CmInv
  BY CallManagerAssumption DEF CmInit, CmInv, CmTables, CmCalls, CmRoutes, Invites, CallIds

LEMMA NextCmInv == ASSUME CmInv, [CmNext]_cmvars PROVE CmInv'
<1>1. CASE UNCHANGED cmvars
  BY <1>1 DEF cmvars, CmInv, CmTables, CmCalls, CmRoutes
<1>2. CASE CmNext
  BY <1>2, CreateInv, TimeInv, InboundInv, AttachInv, ProvisionalInv, SuccessInv, FailureInv,
     PendingInv, AnswerInv, CallInv, RemoveInv, InDialogInv DEF CmNext
<1> QED BY <1>1, <1>2

LEMMA CmInvariant == CmSpec => []CmInv
  BY InitCmInv, NextCmInv, PTL DEF CmSpec

\* CmInv gives the invariants of the run.
LEMMA CmInvImplies ==
    CmInv => CmTypeOK /\ TimerRoles /\ RoutingConsistent /\ AnswerUsedOnce
<1> SUFFICES ASSUME CmInv PROVE CmTypeOK /\ TimerRoles /\ RoutingConsistent /\ AnswerUsedOnce
  OBVIOUS
<1>1. CmTypeOK
  BY DEF CmInv, CmTables, CmCalls, CmRoutes, CmTypeOK, Calls
<1>2. TimerRoles
  BY DEF CmInv, CmCalls, CallOK, We, TimerRoles
<1>3. RoutingConsistent /\ AnswerUsedOnce
  BY DEF CmInv, CmCalls, CmRoutes, CallOK, RoutingConsistent, AnswerUsedOnce
<1> QED BY <1>1, <1>2, <1>3

\* The tables are well formed and every port handed out lies in rtp_port_range.
THEOREM CallManagerTypes == CmSpec => []CmTypeOK
  BY CmInvariant, CmInvImplies, PTL

\* apply_invite_2xx_session_timer, accept_session_timer and every slide leave
\* refresh_at to the refresher and expiry_at to its peer, each with an interval.
THEOREM TimerRolesKept == CmSpec => []TimerRoles
  BY CmInvariant, CmInvImplies, PTL

\* dialog_to_call and the calls agree: no route to a removed call, none to the
\* wrong one, and a BYE or an UPDATE of the peer finds a call that is up.
THEOREM RoutingIsConsistent == CmSpec => []RoutingConsistent
  BY CmInvariant, CmInvImplies, PTL

\* The deferred answer of accept_inbound_invite is used at most once.
THEOREM PendingAnswerUsedOnce == CmSpec => []AnswerUsedOnce
  BY CmInvariant, CmInvImplies, PTL

\* One tick settles every established call ("idempotent" in the comment on
\* tick) but one that we refresh for a peer that asked for an interval of 0.
THEOREM OneTickSettles == CmSpec => TickSettles
<1>1. ASSUME CmInv, tick, NEW c \in DOMAIN calls', calls'[c].state = "Established"
      PROVE  /\ calls'[c].expiry_at # 0
             /\ calls'[c].refresh_at = 0 =>
                   calls'[c].uac_in_flight \/ calls'[c].session_expires = 0
  <2> DEFINE k == calls[c]
             r == maybe_fire_refresh(k)
  <2>1. c \in DOMAIN calls /\ calls'[c] = maybe_fire_expiry_bye(r)
    BY <1>1 DEF tick, CallTick
  <2>2. k \in Calls /\ CallOK(c, k)
    BY <1>1, <2>1 DEF CmInv, CmCalls
  <2>3. /\ r \in Calls /\ CallOK(c, r) /\ r.state = k.state /\ r.dialog = k.dialog
        /\ r.session_expires = k.session_expires
        /\ r.refresh_at = 0 /\ k.session_expires # 0 => ~RefreshDue(k) /\ r = k
    <3>1. CASE ~RefreshDue(k)
      BY <2>2, <3>1 DEF maybe_fire_refresh
    <3>2. CASE RefreshDue(k)
      <4> DEFINE half == k.session_expires \div 2
      <4>1. half \in Nat /\ (k.session_expires # 0 => half # 0) /\ k.refresh_at # Unset
        BY <2>2, <3>2, DeadlineValues DEF RefreshDue, Calls, CallRec, CallOK, Unset
      <4>2. r = [k EXCEPT !.local_cseq = k.local_cseq + 1, !.refresh_at = half]
        BY <3>2 DEF maybe_fire_refresh
      <4>3. k.local_cseq + 1 \in Nat
        BY <2>2 DEF Calls, CallRec
      <4> HIDE DEF half, r, k
      <4>4. r \in Calls
        BY <2>2, <4>1, <4>2, <4>3 DEF Calls, CallRec
      <4>5. CallOK(c, r)
        BY <2>2, <4>1, <4>2 DEF CallOK, Calls, CallRec, We
      <4> QED BY <2>2, <4>1, <4>2, <4>4, <4>5 DEF Calls, CallRec
    <3> QED BY <3>1, <3>2
  <2> HIDE DEF r
  <2>4. ~ExpiryDue(r) /\ calls'[c] = r
    <3>1. CASE ExpiryDue(r)
      <4>1. maybe_fire_expiry_bye(r).state = "Terminating"
        BY <2>3, <3>1 DEF maybe_fire_expiry_bye, Calls, CallRec
      <4> QED BY <1>1, <2>1, <4>1
    <3>2. CASE ~ExpiryDue(r)
      BY <2>1, <3>2 DEF maybe_fire_expiry_bye
    <3> QED BY <3>1, <3>2
  <2>5. k.state = "Established" /\ r.state = "Established"
    BY <1>1, <2>3, <2>4
  <2>6. k.dialog # NoDialog
    BY <1>1, <2>1, <2>5, DialogNames DEF CmInv, CmRoutes, CmTables
  <2>7. r.expiry_at # 0
    BY <2>3, <2>4, <2>5, <2>6 DEF ExpiryDue
  <2>8. ASSUME r.refresh_at = 0, r.session_expires # 0 PROVE r.uac_in_flight
    <3>1. r = k /\ ~RefreshDue(k) /\ k.refresh_at = 0
      BY <2>3, <2>8
    <3>2. k.session_expires # Unset
      BY <2>2, <3>1 DEF CallOK, Unset
    <3> QED BY <2>2, <2>5, <2>6, <3>1, <3>2 DEF RefreshDue, Calls, CallRec
  <2> QED BY <2>4, <2>7, <2>8
<1> DEFINE Unsettled == \E c \in DOMAIN calls' :
                           /\ calls'[c].state = "Established"
                           /\ \/ calls'[c].expiry_at = 0
                              \/ calls'[c].refresh_at = 0 /\ ~calls'[c].uac_in_flight
                                 /\ calls'[c].session_expires # 0
<1>2. ASSUME CmInv, [CmNext]_cmvars PROVE [Unsettled => ~tick]_cmvars
  BY <1>1, <1>2
<1> QED BY <1>2, CmInvariant, PTL DEF CmSpec, TickSettles

LEMMA NextStepOK == ASSUME CmInv, UpIsRouted, CmNext PROVE StepOK
  BY CreateOK, TickStepOK, QuietOK, InboundOK, AttachOK, ProvisionalOK, SuccessOK, FailureOK,
     AnswersOK, CallStepOK, InDialogOK DEF CmNext

LEMMA RoutedInvariant == CmSpec => [](UpIsRouted /\ RequestsAreRouted)
<1>1. CmInit => UpIsRouted /\ RequestsAreRouted
  BY DEF CmInit, UpIsRouted, RequestsAreRouted
<1>2. CmInv /\ UpIsRouted /\ RequestsAreRouted /\ [CmNext]_cmvars => (UpIsRouted /\ RequestsAreRouted)'
  <2> SUFFICES ASSUME CmInv, UpIsRouted, RequestsAreRouted, [CmNext]_cmvars
               PROVE  (UpIsRouted /\ RequestsAreRouted)'
    OBVIOUS
  <2>1. CASE CmNext
    BY <2>1, NextStepOK DEF StepOK
  <2>2. CASE UNCHANGED cmvars
    BY <2>2 DEF cmvars, UpIsRouted, RequestsAreRouted
  <2> QED BY <2>1, <2>2
<1> QED BY <1>1, <1>2, CmInvariant, PTL DEF CmSpec

\* Every request the manager queues (handle_provisional_reliable,
\* build_update_request, build_reinvite_refresh_request,
\* build_expiry_bye_request) has the route set and the target of its dialog.
THEOREM QueuedIsRouted == CmSpec => []RequestsAreRouted
  BY RoutedInvariant, PTL

\* No call changes its state behind the back of the application: whatever
\* handler of session/manager.rs does it pushes the event as well.
THEOREM NoSilentChange == CmSpec => ChangesAreReported
<1>1. CmInv /\ UpIsRouted /\ [CmNext]_cmvars => [Told]_cmvars
  BY NextStepOK DEF StepOK
<1> QED BY <1>1, CmInvariant, RoutedInvariant, PTL DEF CmSpec, ChangesAreReported, Told
=============================================================================
