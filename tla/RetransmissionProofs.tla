------------------------ MODULE RetransmissionProofs ------------------------
(***************************************************************************)
(* Retransmission schedules, for all timer values with an even backoff.    *)
(* The non-INVITE exchange hands a request up once and agrees on its       *)
(* answer: Timer J of the server never runs out before Timer F of the      *)
(* client, and when both run out together no retransmission is due, for    *)
(* the retransmissions fall on odd multiples of T1 before Timer F.  A      *)
(* reliable provisional response has one fate and is not given up before   *)
(* 64*T1: sharing Timer N gains an entry less than T1, and its schedule    *)
(* passes odd multiples of T1 only.                                        *)
(***************************************************************************)
EXTENDS NonInviteExchange, ReliableProvisional, WellFoundedInduction, TLAPS

NCEvents == {"Provisional", "FinalResponse", "Timeout", "TransportError"}
NSEvents == {"Request", "TransportError"}

NCTx == [state : NCState, interval : Nat, armed : [NCTimer -> Nat \cup {Off}],
         out : SUBSET {"REQUEST"}, ev : SUBSET NCEvents]
NSTx == [state : NSState \cup {"Absent"}, last : Nat, armed : [NSTimer -> Nat \cup {Off}],
         out : SUBSET Nat, ev : SUBSET NSEvents]

\* T2 is an even multiple of T1, as with the values of TimerValues::default
\* (T2 = 8 * T1).
EvenBackoff == \E k \in Nat : T2 = 2 * (k * T1)

Multiple(x) == \E k \in Int : x = k * T1
EvenMultiple(x) == \E k \in Int : x = 2 * (k * T1)
OddMultiple(x) == \E k \in Int : x = 2 * (k * T1) + T1

LEMMA MultipleFacts ==
    /\ ~OddMultiple(0)
    /\ Multiple(T1)
    /\ \A x \in Int : EvenMultiple(x) => Multiple(x)
    /\ \A x \in Int : Multiple(x) => EvenMultiple(2 * x)
    /\ \A x, y \in Int : OddMultiple(x) /\ EvenMultiple(y) => OddMultiple(x - y)
    /\ OddMultiple(64 * T1 - T1)
<1> USE TimerAssumption DEF Multiple, EvenMultiple, OddMultiple
<1>1. ~OddMultiple(0)
  <2> SUFFICES ASSUME NEW k \in Int, 0 = 2 * (k * T1) + T1 PROVE FALSE
    OBVIOUS
  <2>1. (2 * k + 1) * T1 = 2 * (k * T1) + T1
    OBVIOUS
  <2>2. 2 * k + 1 >= 1 \/ 2 * k + 1 <= -1
    OBVIOUS
  <2>3. \A z \in Int : z >= 1 => z * T1 >= T1
    OBVIOUS
  <2>4. \A z \in Int : z <= -1 => z * T1 <= -T1
    OBVIOUS
  <2> QED
    BY <2>1, <2>2, <2>3, <2>4
<1>2. Multiple(T1)
  <2>1. 1 \in Int /\ T1 = 1 * T1
    OBVIOUS
  <2> QED
    BY <2>1, Zenon
<1>3. ASSUME NEW x \in Int, EvenMultiple(x) PROVE Multiple(x)
  <2>1. PICK k \in Int : x = 2 * (k * T1)
    BY <1>3
  <2>2. x = (2 * k) * T1
    BY <2>1
  <2> QED
    BY <2>2
<1>4. ASSUME NEW x \in Int, Multiple(x) PROVE EvenMultiple(2 * x)
  BY <1>4
<1>5. ASSUME NEW x \in Int, NEW y \in Int, OddMultiple(x), EvenMultiple(y)
      PROVE  OddMultiple(x - y)
  <2>1. PICK k \in Int : x = 2 * (k * T1) + T1
    BY <1>5
  <2>2. PICK j \in Int : y = 2 * (j * T1)
    BY <1>5
  <2>3. x - y = 2 * ((k - j) * T1) + T1
    BY <2>1, <2>2
  <2> QED
    BY <2>3
<1>6. OddMultiple(64 * T1 - T1)
  <2>1. 64 * T1 - T1 = 2 * (31 * T1) + T1
    OBVIOUS
  <2> QED
    BY <2>1
<1> QED
  BY <1>1, <1>2, <1>3, <1>4, <1>5, <1>6

\* With an even T2 every interval but the first is an even multiple of T1.
LEMMA NextRetransmitEven ==
    ASSUME EvenBackoff, NEW i \in Nat, Multiple(i)
    PROVE  /\ next_retransmit(i) \in Nat
           /\ EvenMultiple(next_retransmit(i))
           /\ Multiple(next_retransmit(i))
<1>1. T2 \in Nat /\ EvenMultiple(T2)
  BY TimerAssumption DEF EvenBackoff, EvenMultiple
<1>2. 2 * i \in Nat /\ EvenMultiple(2 * i)
  BY MultipleFacts
<1>3. next_retransmit(i) \in {2 * i, T2}
  BY DEF next_retransmit
<1> QED
  BY <1>1, <1>2, <1>3, MultipleFacts

-----------------------------------------------------------------------------
(* The client.                                                             *)

Live(c) == c.state \in {"Trying", "Proceeding"}

\* A client that waits for its answer has Timers E and F running, and their
\* distance is an odd multiple of T1; on a reliable transport E never runs.
ClientTimed(c, r) ==
    /\ Multiple(c.interval)
    /\ ~r /\ Live(c) => /\ c.armed["F"] \in 0..(64 * T1)
                        /\ c.armed["E"] \in Nat
                        /\ OddMultiple(c.armed["F"] - c.armed["E"])
    /\ r => c.armed["E"] = Off

\* What one call may make of a client transaction c: it sends only with Timer
\* F still to run, and Timer F keeps its value while the client waits.
ClientCall(c, n, r) ==
    /\ n \in NCTx
    /\ ClientTimed(n, r)
    /\ Live(n) => Live(c) /\ n.armed["F"] = c.armed["F"]
    /\ n.out # {} => ~r /\ Live(n) /\ n.armed["F"] > 0

LEMMA PolledClient ==
    ASSUME NEW c \in NCTx
    PROVE  LET p == Polled(c)
           IN  /\ p \in NCTx /\ p.out = {} /\ p.ev = {} /\ p.state = c.state
               /\ p.interval = c.interval /\ p.armed = c.armed
BY DEF Polled, NCTx

LEMMA ConsumedClient ==
    ASSUME NEW c \in NCTx, NEW t \in NCTimer
    PROVE  LET p == Consumed(c, t)
           IN  /\ p \in NCTx /\ p.out = {} /\ p.ev = {} /\ p.state = c.state
               /\ p.interval = c.interval
               /\ p.armed = [c.armed EXCEPT ![t] = Off]
<1> DEFINE q == Polled(c)
           p == [q EXCEPT !.armed[t] = Off]
<1>1. /\ q \in NCTx /\ q.out = {} /\ q.ev = {} /\ q.state = c.state
      /\ q.interval = c.interval /\ q.armed = c.armed
  BY PolledClient
<1>2. Consumed(c, t) = p
  BY DEF Consumed
<1> HIDE DEF q
<1>3. [q.armed EXCEPT ![t] = Off] \in [NCTimer -> Nat \cup {Off}]
  BY <1>1 DEF NCTx
<1>4. /\ p \in NCTx /\ p.out = {} /\ p.ev = {} /\ p.state = q.state
      /\ p.interval = q.interval /\ p.armed = [q.armed EXCEPT ![t] = Off]
  BY <1>1, <1>3 DEF NCTx
<1> QED
  BY <1>1, <1>2, <1>4

LEMMA ClientTimeoutCall ==
    ASSUME EvenBackoff, NEW c \in NCTx, NEW r \in BOOLEAN, ClientTimed(c, r),
           NEW t \in NCTimer, c.armed[t] = 0
    PROVE  LET n == NCHandleTimeout(Consumed(c, t), t)
           IN  ClientCall(c, n, r) /\ "FinalResponse" \notin n.ev
<1> DEFINE p == Consumed(c, t)
           n == NCHandleTimeout(p, t)
<1> SUFFICES ClientCall(c, n, r) /\ "FinalResponse" \notin n.ev
  OBVIOUS
<1>1. /\ p \in NCTx /\ p.out = {} /\ p.ev = {} /\ p.state = c.state
      /\ p.interval = c.interval /\ p.armed = [c.armed EXCEPT ![t] = Off]
  BY ConsumedClient
<1>2. /\ c.interval \in Nat /\ c.armed \in [NCTimer -> Nat \cup {Off}] /\ c.state \in NCState
      /\ Off \notin Nat
  BY DEF NCTx, Off
<1>3. t \in {"E", "F", "K"} /\ {"E", "F", "K"} = NCTimer /\ ~(r /\ t = "E")
  BY DEF NCTimer, ClientTimed, Off
<1> HIDE DEF p
<1>4. CASE Live(c) /\ t = "E"
  <2> DEFINE i == next_retransmit(c.interval)
  <2>1. n = [p EXCEPT !.out = {"REQUEST"}, !.interval = i, !.armed["E"] = i]
    BY <1>1, <1>4 DEF NCHandleTimeout, Live
  <2>2. i \in Nat /\ EvenMultiple(i) /\ Multiple(i)
    BY <1>2, NextRetransmitEven DEF ClientTimed
  <2> HIDE DEF i
  <2>3. /\ n \in NCTx /\ n.state = c.state /\ n.interval = i /\ n.out = {"REQUEST"} /\ n.ev = {}
        /\ n.armed = [c.armed EXCEPT !["E"] = i]
    <3>1. [p.armed EXCEPT !["E"] = i] = [c.armed EXCEPT !["E"] = i]
      BY <1>1, <1>2, <1>4
    <3>2. [c.armed EXCEPT !["E"] = i] \in [NCTimer -> Nat \cup {Off}]
      BY <1>2, <2>2
    <3> QED
      BY <1>1, <2>1, <2>2, <3>1, <3>2 DEF NCTx
  <2>4. ~r /\ Live(n) /\ n.armed["E"] = i /\ n.armed["F"] = c.armed["F"]
    BY <1>2, <1>3, <1>4, <2>3 DEF Live
  <2>5. /\ c.armed["F"] \in 0..(64 * T1) /\ OddMultiple(c.armed["F"])
    <3>1. c.armed["F"] - 0 = c.armed["F"] /\ c.armed["E"] = 0
      BY <1>2, <1>3, <1>4, <2>4, TimerAssumption DEF ClientTimed
    <3> QED
      BY <1>4, <2>4, <3>1 DEF ClientTimed
  <2>6. c.armed["F"] > 0 /\ OddMultiple(c.armed["F"] - i)
    <3>1. c.armed["F"] # 0
      BY <2>5, MultipleFacts
    <3>2. c.armed["F"] \in Int /\ i \in Int /\ c.armed["F"] >= 0
      BY <2>2, <2>5, TimerAssumption
    <3> QED
      BY SMTT(30), <2>2, <2>5, <3>1, <3>2, MultipleFacts
  <2> QED
    BY <1>4, <2>2, <2>3, <2>4, <2>5, <2>6 DEF ClientCall, ClientTimed
<1>5. CASE Live(c) /\ t = "F"
  <2>1. n = [p EXCEPT !.state = "Terminated", !.ev = {"Timeout"}]
    BY <1>1, <1>5 DEF NCHandleTimeout, Live
  <2>2. /\ n \in NCTx /\ n.state = "Terminated" /\ n.interval = c.interval /\ n.out = {}
        /\ n.ev = {"Timeout"} /\ n.armed = [c.armed EXCEPT !["F"] = Off]
    <3>1. /\ n \in NCTx /\ n.state = "Terminated" /\ n.interval = p.interval /\ n.out = p.out
          /\ n.ev = {"Timeout"} /\ n.armed = p.armed
      <4>1. {"Timeout"} \in SUBSET NCEvents /\ "Terminated" \in NCState
        BY DEF NCEvents, NCState
      <4> QED
        BY <1>1, <2>1, <4>1 DEF NCTx
    <3> QED
      BY <1>1, <1>5, <3>1
  <2>3. r => n.armed["E"] = Off
    BY <1>2, <1>3, <2>2 DEF ClientTimed
  <2> QED
    BY <2>2, <2>3 DEF ClientCall, ClientTimed, Live
<1>6. CASE Live(c) /\ t = "K"
  <2>1. n = p
    BY <1>1, <1>6 DEF NCHandleTimeout, Live
  <2>2. n.armed["E"] = c.armed["E"] /\ n.armed["F"] = c.armed["F"]
    BY <1>1, <1>2, <1>3, <1>6, <2>1
  <2> QED
    BY <1>1, <1>6, <2>1, <2>2 DEF ClientCall, ClientTimed, Live
<1>7. CASE ~Live(c)
  <2>1. /\ n \in NCTx /\ n.interval = c.interval /\ n.out = {} /\ n.ev = {} /\ ~Live(n)
        /\ n.armed = p.armed
    <3>1. CASE c.state = "Completed" /\ t = "K"
      <4>1. n = [p EXCEPT !.state = "Terminated"]
        BY <1>1, <3>1 DEF NCHandleTimeout
      <4> QED
        BY <1>1, <4>1 DEF NCTx, NCState, Live
    <3>2. CASE ~(c.state = "Completed" /\ t = "K")
      <4>1. n = p
        BY <1>1, <1>7, <3>2 DEF NCHandleTimeout, Live
      <4> QED
        BY <1>1, <1>7, <4>1 DEF Live
    <3> QED
      BY <3>1, <3>2
  <2>2. r => n.armed["E"] = Off
    BY <1>1, <1>2, <1>3, <2>1 DEF ClientTimed
  <2> QED
    BY <2>1, <2>2 DEF ClientCall, ClientTimed
<1> QED
  BY <1>3, <1>4, <1>5, <1>6, <1>7

LEMMA ClientResponseCall ==
    ASSUME NEW c \in NCTx, NEW r \in BOOLEAN, ClientTimed(c, r), NEW code \in Nat
    PROVE  LET n == NCHandleResponse(Polled(c), code, r)
           IN  ClientCall(c, n, r) /\ ("FinalResponse" \in n.ev => code >= 200)
<1> DEFINE p == Polled(c)
           n == NCHandleResponse(p, code, r)
<1> SUFFICES ClientCall(c, n, r) /\ ("FinalResponse" \in n.ev => code >= 200)
  OBVIOUS
<1>1. /\ p \in NCTx /\ p.out = {} /\ p.ev = {} /\ p.state = c.state
      /\ p.interval = c.interval /\ p.armed = c.armed
  BY PolledClient
<1>2. /\ c.interval \in Nat /\ c.armed \in [NCTimer -> Nat \cup {Off}] /\ c.state \in NCState
      /\ {"E", "F", "K"} = NCTimer
  BY DEF NCTx, NCTimer
<1> HIDE DEF p
<1>3. CASE Live(c) /\ Provisional(code)
  <2>0. ~(code >= 200)
    BY <1>3 DEF Provisional
  <2>1. n = [p EXCEPT !.state = "Proceeding", !.ev = {"Provisional"}]
    BY <1>1, <1>3, <2>0 DEF NCHandleResponse, Live
  <2>2. /\ n \in NCTx /\ n.state = "Proceeding" /\ n.interval = c.interval /\ n.out = {}
        /\ n.ev = {"Provisional"} /\ n.armed = c.armed
    <3>1. {"Provisional"} \in SUBSET NCEvents /\ "Proceeding" \in NCState
      BY DEF NCEvents, NCState
    <3> QED
      BY <1>1, <2>1, <3>1 DEF NCTx
  <2> QED
    BY <1>3, <2>2 DEF ClientCall, ClientTimed, Live
<1>4. CASE Live(c) /\ ~Provisional(code) /\ code >= 200
  <2> DEFINE st == IF timer_k(r) = 0 THEN "Terminated" ELSE "Completed"
             e == IF r THEN p.armed["E"] ELSE Off
             k == IF timer_k(r) = 0 THEN p.armed["K"] ELSE timer_k(r)
  <2>1. n = [p EXCEPT !.state = st, !.armed["E"] = e, !.armed["F"] = Off, !.armed["K"] = k,
                      !.ev = {"FinalResponse"}]
    BY <1>1, <1>2, <1>4 DEF NCHandleResponse, Live
  <2>2. st \in NCState /\ st \notin {"Trying", "Proceeding"}
    BY DEF NCState
  <2>3. e \in Nat \cup {Off} /\ k \in Nat \cup {Off} /\ (r => e = Off)
    BY <1>1, <1>2, TimerAssumption DEF timer_k, ClientTimed
  <2> HIDE DEF st, e, k
  <2>4. /\ n.state = st /\ n.interval = c.interval /\ n.out = {} /\ n.ev = {"FinalResponse"}
        /\ n.armed = [c.armed EXCEPT !["E"] = e, !["F"] = Off, !["K"] = k]
    BY <1>1, <2>1 DEF NCTx
  <2>5. n \in NCTx
    <3>1. [c.armed EXCEPT !["E"] = e, !["F"] = Off, !["K"] = k] \in [NCTimer -> Nat \cup {Off}]
      BY <1>2, <2>3
    <3> DEFINE a == [c.armed EXCEPT !["E"] = e, !["F"] = Off, !["K"] = k]
    <3>2. n = [p EXCEPT !.state = st, !.armed = a, !.ev = {"FinalResponse"}]
      BY <1>1, <2>1 DEF NCTx
    <3> HIDE DEF a
    <3> QED
      BY <1>1, <2>2, <3>1, <3>2 DEF NCTx, NCEvents, a
  <2>6. r => n.armed["E"] = Off
    BY <1>2, <2>3, <2>4
  <2> QED
    BY <1>4, <2>2, <2>4, <2>5, <2>6 DEF ClientCall, ClientTimed, Live
<1>5. CASE ~(Live(c) /\ Provisional(code)) /\ ~(Live(c) /\ code >= 200)
  <2>1. n = p
    BY <1>1, <1>5 DEF NCHandleResponse, Live
  <2> QED
    BY <1>1, <2>1 DEF ClientCall, ClientTimed, Live
<1> QED
  BY <1>3, <1>4, <1>5

LEMMA ClientErrorCall ==
    ASSUME NEW c \in NCTx, NEW r \in BOOLEAN, ClientTimed(c, r)
    PROVE  LET n == NCHandleTransportError(Polled(c))
           IN  ClientCall(c, n, r) /\ "FinalResponse" \notin n.ev
<1> DEFINE p == Polled(c)
           n == NCHandleTransportError(p)
<1> SUFFICES ClientCall(c, n, r) /\ "FinalResponse" \notin n.ev
  OBVIOUS
<1>1. /\ p \in NCTx /\ p.out = {} /\ p.ev = {} /\ p.state = c.state
      /\ p.interval = c.interval /\ p.armed = c.armed
  BY PolledClient
<1> HIDE DEF p
<1>2. CASE Live(c)
  <2>1. n = [p EXCEPT !.state = "Terminated", !.ev = {"TransportError"}]
    BY <1>1, <1>2 DEF NCHandleTransportError, Live
  <2>2. /\ n \in NCTx /\ n.state = "Terminated" /\ n.interval = c.interval /\ n.out = {}
        /\ n.ev = {"TransportError"} /\ n.armed = c.armed
    BY ZenonT(40), <1>1, <2>1 DEF NCTx, NCState, NCEvents
  <2> QED
    BY <2>2 DEF ClientCall, ClientTimed, Live
<1>3. CASE ~Live(c)
  <2>1. n = p
    BY <1>1, <1>3 DEF NCHandleTransportError, Live
  <2> QED
    BY <1>1, <2>1 DEF ClientCall, ClientTimed, Live
<1> QED
  BY <1>2, <1>3

-----------------------------------------------------------------------------
(* The invariant.                                                          *)

NxTypeOK ==
    /\ nreliable \in BOOLEAN
    /\ ncl \in NCTx
    /\ nsv \in NSTx
    /\ inflight \in BOOLEAN
    /\ failed \in BOOLEAN
    /\ ns2c \subseteq NxCodes
    /\ finals \subseteq NxCodes
    /\ handed \in Nat

\* Once the server is gone, or its Timer J has run out, no request can come:
\* none is under way, and a client that still waits is about to give up with
\* no retransmission due.
Absorbs ==
    /\ handed = 0 => nsv.state = "Absent"
    /\ nreliable => handed <= 1 /\ (inflight => handed = 0)
    /\ ~nreliable /\ ~failed /\ handed > 0 =>
          /\ handed = 1
          /\ nsv.state = "Completed" =>
                /\ nsv.armed["J"] \in Nat
                /\ Live(ncl) => ncl.armed["F"] <= nsv.armed["J"]
                /\ inflight => nsv.armed["J"] > 0
          /\ nsv.state \in {"Absent", "Terminated"} =>
                /\ ~inflight
                /\ Live(ncl) => ncl.armed["F"] = 0

\* The final codes under way, the ones told and the one a retransmission is
\* answered with are answers of the user, and as long as no send failed there
\* is one answer.
Answered ==
    /\ ns2c \ 100..199 \subseteq finals
    /\ finals \cap 100..199 = {}
    /\ learned \ {GaveUp} \subseteq finals
    /\ nsv.last # 0 => nsv.last \in ns2c
    /\ ~failed =>
          /\ handed = 0 => finals = {}
          /\ nsv.state \in {"Trying", "Proceeding"} => finals = {}
          /\ \A f, g \in finals : f = g

NxInv ==
    /\ NxTypeOK
    /\ ClientTimed(ncl, nreliable)
    /\ Absorbs
    /\ Answered

LEMMA NxInitInv == NxInit => NxInv
<1> SUFFICES ASSUME NxInit PROVE NxInv
  OBVIOUS
<1> USE TimerAssumption, NonInviteAssumption DEF NxInit
<1>a. /\ ncl.state = "Trying" /\ ncl.interval = T1 /\ ncl.out = {"REQUEST"} /\ ncl.ev = {}
      /\ ncl.armed["F"] = 64 * T1 /\ ncl.armed["K"] = Off
      /\ ncl.armed["E"] = IF nreliable THEN Off ELSE T1
  BY DEF NCNew, NCTimer, timer_e, timer_f
<1>1. ncl \in NCTx
  <2> DEFINE a == [t \in NCTimer |-> CASE t = "E" -> IF nreliable THEN Off ELSE timer_e
                                        [] t = "F" -> timer_f
                                        [] t = "K" -> Off]
  <2>1. a \in [NCTimer -> Nat \cup {Off}]
    BY DEF NCTimer, timer_e, timer_f
  <2>2. ncl = [state |-> "Trying", interval |-> timer_e, armed |-> a, out |-> {"REQUEST"}, ev |-> {}]
    BY DEF NCNew
  <2>3. "Trying" \in NCState /\ timer_e \in Nat /\ {} \in SUBSET NCEvents
    BY DEF NCState, timer_e
  <2> HIDE DEF a
  <2> QED
    BY <2>1, <2>2, <2>3 DEF NCTx
<1>2. nsv \in NSTx /\ nsv.state = "Absent" /\ nsv.last = 0
  <2>1. NSNew.armed \in [NSTimer -> Nat \cup {Off}] /\ {} \in SUBSET Nat /\ {} \in SUBSET NSEvents
    BY DEF NSNew
  <2>2. nsv = [state |-> "Absent", last |-> 0, armed |-> NSNew.armed, out |-> {}, ev |-> {}]
    BY SMTT(30), ZenonT(40) DEF NoServer, NSNew
  <2> HIDE DEF NxInit
  <2> QED
    BY <2>1, <2>2 DEF NSTx
<1>3. NxTypeOK
  BY <1>1, <1>2 DEF NxTypeOK
<1>4. ClientTimed(ncl, nreliable)
  <2>1. ASSUME ~nreliable PROVE OddMultiple(ncl.armed["F"] - ncl.armed["E"])
    BY <1>a, <2>1, MultipleFacts
  <2> QED
    BY <1>a, <2>1, MultipleFacts DEF ClientTimed
<1>5. Absorbs
  BY <1>2 DEF Absorbs
<1>6. Answered
  BY <1>2 DEF Answered
<1> QED
  BY <1>3, <1>4, <1>5, <1>6 DEF NxInv

\* A call into the client keeps the invariant: what it sends finds the server.
LEMMA ClientStepInv ==
    ASSUME NxInv, NEW n, NEW code, NxClientStep(n, code), ClientCall(ncl, n, nreliable),
           "FinalResponse" \in n.ev => code \in finals
    PROVE  NxInv'
<1> USE DEF NxInv
<1>1. /\ ncl' = n /\ inflight' = (inflight \/ n.out # {})
      /\ learned' = learned \cup Told(n.ev, code)
      /\ nreliable' = nreliable /\ nsv' = nsv /\ ns2c' = ns2c /\ finals' = finals
      /\ failed' = failed /\ handed' = handed
  BY DEF NxClientStep
<1>2. NxTypeOK'
  BY <1>1 DEF NxTypeOK, ClientCall
<1>3. ClientTimed(ncl, nreliable)'
  BY <1>1 DEF ClientCall, ClientTimed, Live
<1>4. Absorbs'
  <2>0. /\ Live(ncl)' => Live(ncl) /\ ncl'.armed["F"] = ncl.armed["F"]
        /\ n.out # {} => ~nreliable /\ Live(ncl) /\ ncl.armed["F"] > 0
    BY <1>1 DEF ClientCall, Live
  <2>1. handed' = 0 => nsv'.state = "Absent"
    BY <1>1 DEF Absorbs
  <2>2. nreliable' => handed' <= 1 /\ (inflight' => handed' = 0)
    BY <1>1, <2>0 DEF Absorbs
  <2>3. ASSUME ~nreliable', ~failed', handed' > 0
        PROVE  /\ handed' = 1
               /\ nsv'.state = "Completed" =>
                     /\ nsv'.armed["J"] \in Nat
                     /\ Live(ncl)' => ncl'.armed["F"] <= nsv'.armed["J"]
                     /\ inflight' => nsv'.armed["J"] > 0
               /\ nsv'.state \in {"Absent", "Terminated"} =>
                     ~inflight' /\ (Live(ncl)' => ncl'.armed["F"] = 0)
    <3>1. Live(ncl) => ncl.armed["F"] \in Int
      BY <1>1, <2>3, TimerAssumption DEF ClientTimed
    <3>2. ~nreliable /\ ~failed /\ handed > 0
      BY <1>1, <2>3
    <3>3. handed' = 1
      BY <1>1, <3>2 DEF Absorbs
    <3>4. ASSUME nsv'.state = "Completed"
          PROVE  /\ nsv'.armed["J"] \in Nat
                 /\ Live(ncl)' => ncl'.armed["F"] <= nsv'.armed["J"]
                 /\ inflight' => nsv'.armed["J"] > 0
      <4>1. /\ nsv.armed["J"] \in Nat
            /\ Live(ncl) => ncl.armed["F"] <= nsv.armed["J"]
            /\ inflight => nsv.armed["J"] > 0
        BY <1>1, <3>2, <3>4 DEF Absorbs
      <4>2. n.out # {} => nsv.armed["J"] > 0
        BY <2>0, <3>1, <4>1
      <4>3. inflight' => nsv'.armed["J"] > 0
        BY <1>1, <4>1, <4>2, Zenon
      <4>4. Live(ncl)' => ncl'.armed["F"] <= nsv'.armed["J"]
        BY <1>1, <2>0, <4>1
      <4> QED
        BY <1>1, <4>1, <4>3, <4>4
    <3>5. ASSUME nsv'.state \in {"Absent", "Terminated"}
          PROVE  ~inflight' /\ (Live(ncl)' => ncl'.armed["F"] = 0)
      <4>1. ~inflight /\ (Live(ncl) => ncl.armed["F"] = 0)
        BY <1>1, <3>2, <3>5 DEF Absorbs
      <4>2. n.out = {}
        BY <2>0, <3>1, <4>1
      <4>3. ~inflight'
        BY <1>1, <4>1, <4>2, Zenon
      <4> QED
        BY <2>0, <4>1, <4>3
    <3> QED
      BY <3>3, <3>4, <3>5
  <2> QED
    BY <2>1, <2>2, <2>3 DEF Absorbs
<1>5. Answered'
  <2>1. Told(n.ev, code) \ {GaveUp} \subseteq finals
    BY DEF Told
  <2> QED
    BY <1>1, <2>1 DEF Answered
<1> QED
  BY <1>2, <1>3, <1>4, <1>5

\* The three calls into the client.
LEMMA ClientInv ==
    ASSUME EvenBackoff, NxInv,
           \/ \E t \in NCTimer : NxClientTimer(t)
           \/ \E code \in ns2c : NxClientResponse(code)
           \/ NxClientTransportError
    PROVE  NxInv'
<1>0. ncl \in NCTx /\ nreliable \in BOOLEAN /\ ClientTimed(ncl, nreliable)
  BY DEF NxInv, NxTypeOK
<1>1. ASSUME NEW t \in NCTimer, NxClientTimer(t) PROVE NxInv'
  BY <1>0, <1>1, ClientTimeoutCall, ClientStepInv DEF NxClientTimer
<1>2. ASSUME NEW code \in ns2c, NxClientResponse(code) PROVE NxInv'
  <2>1. code \in Nat /\ code \in 100..699
    BY NonInviteAssumption DEF NxInv, NxTypeOK
  <2>2. code >= 200 => code \in finals
    BY <2>1 DEF NxInv, Answered
  <2> QED
    BY <1>0, <1>2, <2>1, <2>2, ClientResponseCall, ClientStepInv DEF NxClientResponse
<1>3. CASE NxClientTransportError
  BY <1>0, <1>3, ClientErrorCall, ClientStepInv DEF NxClientTransportError
<1> QED
  BY <1>1, <1>2, <1>3

-----------------------------------------------------------------------------
(* The server.                                                             *)

LEMMA PolledServer ==
    ASSUME NEW c \in NSTx
    PROVE  LET p == Polled(c)
           IN  /\ p \in NSTx /\ p.out = {} /\ p.ev = {} /\ p.state = c.state
               /\ p.last = c.last /\ p.armed = c.armed
BY DEF Polled, NSTx

LEMMA ConsumedServer ==
    ASSUME NEW c \in NSTx, NEW t \in NSTimer
    PROVE  LET p == Consumed(c, t)
           IN  /\ p \in NSTx /\ p.out = {} /\ p.ev = {} /\ p.state = c.state
               /\ p.last = c.last /\ p.armed = [c.armed EXCEPT ![t] = Off]
<1> DEFINE q == Polled(c)
           p == [q EXCEPT !.armed[t] = Off]
<1>1. /\ q \in NSTx /\ q.out = {} /\ q.ev = {} /\ q.state = c.state
      /\ q.last = c.last /\ q.armed = c.armed
  BY PolledServer
<1>2. Consumed(c, t) = p
  BY DEF Consumed
<1> HIDE DEF q
<1>3. [q.armed EXCEPT ![t] = Off] \in [NSTimer -> Nat \cup {Off}]
  BY <1>1 DEF NSTx
<1>4. /\ p \in NSTx /\ p.out = {} /\ p.ev = {} /\ p.state = q.state
      /\ p.last = q.last /\ p.armed = [q.armed EXCEPT ![t] = Off]
  BY <1>1, <1>3 DEF NSTx
<1> QED
  BY <1>1, <1>2, <1>4

\* What the server makes of a request, and the empty slot.
LEMMA ServerConstants ==
    /\ NSNew \in NSTx /\ NSNew.state = "Trying" /\ NSNew.last = 0 /\ NSNew.out = {}
    /\ NoServer \in NSTx /\ NoServer.state = "Absent" /\ NoServer.last = 0 /\ NoServer.out = {}
<1>1. /\ [t \in NSTimer |-> Off] \in [NSTimer -> Nat \cup {Off}]
      /\ {} \in SUBSET Nat /\ {} \in SUBSET NSEvents /\ {"Request"} \in SUBSET NSEvents
      /\ "Trying" \in NSState
  BY DEF NSEvents, NSState
<1>2. NSNew \in NSTx /\ NSNew.state = "Trying" /\ NSNew.last = 0 /\ NSNew.out = {}
  BY <1>1 DEF NSNew, NSTx
<1> HIDE DEF NSNew
<1>3. /\ NoServer \in NSTx /\ NoServer.state = "Absent" /\ NoServer.last = 0
      /\ NoServer.out = {}
  BY <1>1, <1>2 DEF NoServer, NSTx
<1> QED
  BY <1>2, <1>3

\* Timer J runs out no earlier than Timer F.
LEMMA ServerTimerInv ==
    ASSUME NxInv, NEW t \in NSTimer, NxServerTimer(t)
    PROVE  NxInv'
<1> USE DEF NxInv
<1> DEFINE p == Consumed(nsv, t)
           n == NSHandleTimeout(p, t)
<1>1. nsv.armed[t] = 0 /\ NxServerStep(n) /\ t = "J"
  BY DEF NxServerTimer, NSTimer
<1>2. UNCHANGED <<nreliable, ncl, inflight, learned, finals, failed, handed>>
  BY DEF NxServerTimer, NxServerStep
<1>3. p \in NSTx /\ p.out = {} /\ p.state = nsv.state /\ p.last = nsv.last
  BY ConsumedServer DEF NxTypeOK
<1>4. nsv' = n /\ ns2c' = ns2c \cup n.out
  BY <1>1 DEF NxServerStep
<1> HIDE DEF p
<1>5. /\ n \in NSTx /\ n.out = {} /\ n.last = nsv.last
      /\ n.state = IF nsv.state = "Completed" THEN "Terminated" ELSE nsv.state
  <2>1. CASE nsv.state = "Completed"
    <3>1. n = [p EXCEPT !.state = "Terminated"]
      BY <1>1, <1>3, <2>1 DEF NSHandleTimeout
    <3>2. "Terminated" \in NSState \cup {"Absent"}
      BY DEF NSState
    <3> QED
      BY <1>3, <2>1, <3>1, <3>2 DEF NSTx
  <2>2. CASE nsv.state # "Completed"
    BY <1>3, <2>2 DEF NSHandleTimeout
  <2> QED
    BY <2>1, <2>2
<1> HIDE DEF n
<1>6. ns2c' = ns2c
  BY <1>4, <1>5
<1>7. NxTypeOK'
  BY <1>2, <1>4, <1>5, <1>6 DEF NxTypeOK
<1>8. ClientTimed(ncl, nreliable)'
  BY <1>2 DEF ClientTimed, Live
<1>9. Absorbs'
  <2>1. /\ handed' = 0 => nsv'.state = "Absent"
        /\ nreliable' => handed' <= 1 /\ (inflight' => handed' = 0)
    BY <1>2, <1>4, <1>5 DEF Absorbs
  <2>2. ASSUME ~nreliable', ~failed', handed' > 0
        PROVE  /\ handed' = 1
               /\ nsv'.state # "Completed"
               /\ nsv'.state \in {"Absent", "Terminated"} =>
                     ~inflight' /\ (Live(ncl)' => ncl'.armed["F"] = 0)
    <3>1. ~nreliable /\ ~failed /\ handed > 0
      BY <1>2, <2>2
    <3>2. nsv.state = "Completed" => ~inflight /\ (Live(ncl) => ncl.armed["F"] = 0)
      BY <1>1, <3>1, TimerAssumption DEF Absorbs, ClientTimed
    <3>3. handed = 1 /\ nsv'.state # "Completed"
      BY <1>4, <1>5, <3>1 DEF Absorbs
    <3>4. Live(ncl)' = Live(ncl)
      BY <1>2 DEF Live
    <3> QED
      BY <1>2, <1>4, <1>5, <3>1, <3>2, <3>3, <3>4 DEF Absorbs
  <2> QED
    BY <2>1, <2>2 DEF Absorbs
<1>10. Answered'
  BY <1>2, <1>4, <1>5, <1>6 DEF Answered
<1> QED
  BY <1>7, <1>8, <1>9, <1>10

\* A copy of the request creates the server transaction or finds it.
LEMMA ServerRequestInv ==
    ASSUME NxInv, NxServerRequest
    PROVE  NxInv'
<1> USE DEF NxInv
<1>0. /\ inflight /\ inflight' = ~nreliable
      /\ UNCHANGED <<nreliable, ncl, learned, finals, failed>>
  BY DEF NxServerRequest, NxServerStep
<1>1. ClientTimed(ncl, nreliable)'
  BY <1>0 DEF ClientTimed, Live
<1>2. CASE nsv.state = "Absent"
  <2>1. handed' = handed + 1 /\ nsv' = NSNew /\ ns2c' = ns2c \cup NSNew.out
    BY <1>2 DEF NxServerRequest, NxServerStep
  <2>2. nsv' \in NSTx /\ nsv'.state = "Trying" /\ nsv'.last = 0 /\ ns2c' = ns2c
    BY <2>1, ServerConstants
  <2>3. handed \in Nat /\ (~failed \/ nreliable => handed = 0)
    BY <1>0, <1>2 DEF Absorbs, NxTypeOK
  <2>4. NxTypeOK'
    BY <1>0, <2>1, <2>2, <2>3 DEF NxTypeOK
  <2>5. Absorbs'
    <3>1. handed' # 0 /\ (~failed' \/ nreliable' => handed' = 1)
      BY <1>0, <2>1, <2>3
    <3>2. nreliable' => ~inflight'
      BY <1>0
    <3>3. nsv'.state \notin {"Completed", "Absent", "Terminated"}
      BY <2>2
    <3> QED
      BY <3>1, <3>2, <3>3 DEF Absorbs
  <2>6. Answered'
    BY <1>0, <2>1, <2>2, <2>3 DEF Answered
  <2> QED
    BY <1>1, <2>4, <2>5, <2>6
<1>3. CASE nsv.state # "Absent"
  <2> DEFINE p == Polled(nsv)
             n == NSHandleRequest(p)
  <2>1. handed' = handed /\ nsv' = n /\ ns2c' = ns2c \cup n.out
    BY <1>3 DEF NxServerRequest, NxServerStep
  <2>2. /\ p \in NSTx /\ p.out = {} /\ p.state = nsv.state /\ p.last = nsv.last
        /\ p.armed = nsv.armed
    BY PolledServer DEF NxTypeOK
  <2> HIDE DEF p
  <2>3. /\ n \in NSTx /\ n.state = nsv.state /\ n.last = nsv.last /\ n.armed = nsv.armed
        /\ n.out \subseteq ns2c
    <3>1. CASE p.state \in {"Proceeding", "Completed"} /\ p.last # 0
      <4>1. n = [p EXCEPT !.out = {p.last}]
        BY <3>1 DEF NSHandleRequest
      <4>2. {p.last} \in SUBSET Nat /\ p.last \in ns2c
        BY <2>2, <3>1 DEF NSTx, Answered
      <4> QED
        BY <2>2, <4>1, <4>2 DEF NSTx
    <3>2. CASE ~(p.state \in {"Proceeding", "Completed"} /\ p.last # 0)
      BY <2>2, <3>2 DEF NSHandleRequest
    <3> QED
      BY <3>1, <3>2
  <2> HIDE DEF n
  <2>4. ns2c' = ns2c
    BY <2>1, <2>3
  <2>5. NxTypeOK'
    BY <1>0, <2>1, <2>3, <2>4 DEF NxTypeOK
  <2>6. Absorbs'
    <3>1. Live(ncl)' = Live(ncl)
      BY <1>0 DEF Live
    <3>2. nreliable => handed = 0
      BY <1>0 DEF Absorbs
    <3> QED
      BY <1>0, <1>3, <2>1, <2>3, <3>1, <3>2 DEF Absorbs
  <2>7. Answered'
    BY <1>0, <2>1, <2>3, <2>4 DEF Answered
  <2> QED
    BY <1>1, <2>5, <2>6, <2>7
<1> QED
  BY <1>2, <1>3

\* What send_response may make of a server transaction c: only one that has
\* no final response yet answers.
SendCall(c, n, code, r) ==
    /\ n \in NSTx
    /\ \/ /\ c.state \in {"Trying", "Proceeding"} /\ code \in 100..199
          /\ n.state = "Proceeding" /\ n.last = code /\ n.out = {code}
       \/ /\ c.state \in {"Trying", "Proceeding"} /\ code \notin 100..199
          /\ n.last = code /\ n.out = {code}
          /\ (r = TRUE) => n.state = "Terminated"
          /\ (r = FALSE) => n.state = "Completed" /\ n.armed["J"] = 64 * T1
       \/ /\ c.state \notin {"Trying", "Proceeding"}
          /\ n.state = c.state /\ n.last = c.last /\ n.armed = c.armed
          /\ n.out = {}

LEMMA SendResponseCall ==
    ASSUME NEW c \in NSTx, NEW r \in BOOLEAN, NEW code \in 100..699
    PROVE  SendCall(c, NSSendResponse(Polled(c), code, r), code, r)
<1> DEFINE p == Polled(c)
           n == NSSendResponse(p, code, r)
<1> SUFFICES SendCall(c, n, code, r)
  OBVIOUS
<1> USE DEF SendCall
<1>1. /\ p \in NSTx /\ p.out = {} /\ p.state = c.state /\ p.last = c.last
      /\ p.armed = c.armed
  BY PolledServer
<1>2. /\ code \in Nat /\ {code} \in SUBSET Nat
      /\ code \in 100..199 <=> Provisional(code)
      /\ code >= 200 <=> ~Provisional(code)
  BY DEF Provisional
<1> HIDE DEF p
<1>3. CASE c.state \in {"Trying", "Proceeding"} /\ Provisional(code)
  <2>1. n = [p EXCEPT !.state = "Proceeding", !.last = code, !.out = {code}]
    BY <1>1, <1>2, <1>3 DEF NSSendResponse
  <2>2. "Proceeding" \in NSState \cup {"Absent"}
    BY DEF NSState
  <2>3. n \in NSTx /\ n.state = "Proceeding" /\ n.last = code /\ n.out = {code}
    BY ZenonT(40), <1>1, <1>2, <2>1, <2>2 DEF NSTx
  <2> QED
    BY <1>2, <1>3, <2>3
<1>4. CASE c.state \in {"Trying", "Proceeding"} /\ ~Provisional(code)
  <2> DEFINE st == IF timer_j(r) = 0 THEN "Terminated" ELSE "Completed"
             j == IF timer_j(r) = 0 THEN p.armed["J"] ELSE timer_j(r)
             a == [p.armed EXCEPT !["J"] = j]
  <2>1. n = [p EXCEPT !.state = st, !.last = code, !.armed["J"] = j, !.out = {code}]
    BY <1>1, <1>2, <1>4 DEF NSSendResponse
  <2>2. /\ st \in NSState \cup {"Absent"}
        /\ st = IF r THEN "Terminated" ELSE "Completed"
        /\ j \in Nat \cup {Off} /\ (~r => j = 64 * T1)
        /\ p.armed \in [NSTimer -> Nat \cup {Off}] /\ "J" \in NSTimer
    BY <1>1, TimerAssumption DEF timer_j, NSTx, NSState, NSTimer
  <2> HIDE DEF st, j
  <2>3. a \in [NSTimer -> Nat \cup {Off}] /\ a["J"] = j
    BY <2>2
  <2>4. n = [p EXCEPT !.state = st, !.last = code, !.armed = a, !.out = {code}]
    BY <2>1
  <2> HIDE DEF a
  <2>5. n \in NSTx /\ n.state = st /\ n.last = code /\ n.out = {code} /\ n.armed = a
    BY ZenonT(40), <1>1, <1>2, <2>2, <2>3, <2>4 DEF NSTx
  <2> QED
    BY <1>2, <1>4, <2>2, <2>3, <2>5
<1>5. CASE c.state \notin {"Trying", "Proceeding"}
  <2>1. n = p
    BY <1>1, <1>5 DEF NSSendResponse
  <2> QED
    BY <1>1, <1>5, <2>1
<1> QED
  BY <1>3, <1>4, <1>5

\* An answer arms Timer J with all of Timer F still ahead of it.
LEMMA ServerAnswerInv ==
    ASSUME NxInv, NEW code \in NxCodes, NxServerAnswer(code)
    PROVE  NxInv'
<1> USE DEF NxInv
<1> DEFINE n == NSSendResponse(Polled(nsv), code, nreliable)
<1>0. code \in 100..699 /\ nsv \in NSTx /\ nreliable \in BOOLEAN
  BY NonInviteAssumption DEF NxTypeOK
<1>1. /\ nsv.state # "Absent" /\ nsv' = n /\ ns2c' = ns2c \cup n.out
      /\ finals' = finals \cup (n.out \ 100..199)
      /\ UNCHANGED <<nreliable, ncl, inflight, learned, failed, handed>>
  BY DEF NxServerAnswer, NxServerStep
<1>2. SendCall(nsv, n, code, nreliable)
  BY <1>0, SendResponseCall
<1> USE DEF SendCall
<1> HIDE DEF n
<1>3. NxTypeOK'
  <2>1. n.out \subseteq NxCodes
    BY <1>2
  <2> QED
    BY <1>1, <1>2, <2>1 DEF NxTypeOK
<1>4. ClientTimed(ncl, nreliable)'
  BY <1>1 DEF ClientTimed, Live
<1>5. Absorbs'
  <2>1. Live(ncl)' = Live(ncl)
    BY <1>1 DEF Live
  <2>2. 64 * T1 \in Nat /\ 64 * T1 > 0 /\ (~nreliable /\ Live(ncl) => ncl.armed["F"] <= 64 * T1)
    BY TimerAssumption DEF ClientTimed
  <2>3. /\ handed' = 0 => nsv'.state = "Absent"
        /\ nreliable' => handed' <= 1 /\ (inflight' => handed' = 0)
    BY <1>1 DEF Absorbs
  <2>4. ASSUME ~nreliable', ~failed', handed' > 0
        PROVE  /\ handed' = 1
               /\ nsv'.state = "Completed" =>
                     /\ nsv'.armed["J"] \in Nat
                     /\ Live(ncl)' => ncl'.armed["F"] <= nsv'.armed["J"]
                     /\ inflight' => nsv'.armed["J"] > 0
               /\ nsv'.state \in {"Absent", "Terminated"} =>
                     ~inflight' /\ (Live(ncl)' => ncl'.armed["F"] = 0)
    <3>1. ~nreliable /\ ~failed /\ handed > 0
      BY <1>1, <2>4
    <3> QED
      BY <1>1, <1>2, <2>1, <2>2, <3>1 DEF Absorbs
  <2> QED
    BY <2>3, <2>4 DEF Absorbs
<1>6. Answered'
  <2>1. handed # 0 /\ handed' = handed
    BY <1>1 DEF Absorbs
  <2>2. /\ (ns2c \ 100..199 \subseteq finals)'
        /\ (finals \cap 100..199 = {})'
        /\ (learned \ {GaveUp} \subseteq finals)'
        /\ (nsv.last # 0 => nsv.last \in ns2c)'
    BY <1>1, <1>2 DEF Answered
  <2>3. ASSUME ~failed'
        PROVE  /\ nsv'.state \in {"Trying", "Proceeding"} => finals' = {}
               /\ \A f, g \in finals' : f = g
    BY <1>1, <1>2, <2>3 DEF Answered
  <2> QED
    BY <2>1, <2>2, <2>3 DEF Answered
<1> QED
  BY <1>3, <1>4, <1>5, <1>6

LEMMA ServerErrorInv ==
    ASSUME NxInv, NxServerTransportError
    PROVE  NxInv'
<1> USE DEF NxInv
<1> DEFINE p == Polled(nsv)
           n == NSHandleTransportError(p)
<1>1. /\ nsv.state # "Absent" /\ nsv' = n /\ ns2c' = ns2c \cup n.out /\ failed' = TRUE
      /\ UNCHANGED <<nreliable, ncl, inflight, learned, finals, handed>>
  BY DEF NxServerTransportError, NxServerStep
<1>2. p \in NSTx /\ p.out = {} /\ p.state = nsv.state /\ p.last = nsv.last
  BY PolledServer DEF NxTypeOK
<1> HIDE DEF p
<1>3. n \in NSTx /\ n.out = {} /\ n.last = nsv.last /\ n.state = "Terminated"
  <2>1. CASE p.state # "Terminated"
    <3>1. n = [p EXCEPT !.state = "Terminated", !.ev = {"TransportError"}]
      BY <2>1 DEF NSHandleTransportError
    <3>2. {"TransportError"} \in SUBSET NSEvents /\ "Terminated" \in NSState \cup {"Absent"}
      BY DEF NSEvents, NSState
    <3> QED
      BY <1>2, <3>1, <3>2 DEF NSTx
  <2>2. CASE p.state = "Terminated"
    BY <1>2, <2>2 DEF NSHandleTransportError
  <2> QED
    BY <2>1, <2>2
<1> HIDE DEF n
<1>4. ns2c' = ns2c
  BY <1>1, <1>3
<1>5. NxTypeOK'
  BY <1>1, <1>3, <1>4 DEF NxTypeOK
<1>6. ClientTimed(ncl, nreliable)'
  BY <1>1 DEF ClientTimed, Live
<1>7. Absorbs' /\ Answered'
  BY <1>1, <1>3, <1>4 DEF Absorbs, Answered
<1> QED
  BY <1>5, <1>6, <1>7

LEMMA ServerCleanupInv ==
    ASSUME NxInv, NxServerCleanup
    PROVE  NxInv'
<1> USE DEF NxInv
<1>1. /\ nsv.state = "Terminated" /\ nsv' = NoServer /\ ns2c' = ns2c \cup NoServer.out
      /\ UNCHANGED <<nreliable, ncl, inflight, learned, finals, failed, handed>>
  BY DEF NxServerCleanup, NxServerStep
<1>2. nsv' \in NSTx /\ nsv'.state = "Absent" /\ nsv'.last = 0 /\ ns2c' = ns2c
  BY <1>1, ServerConstants
<1>3. NxTypeOK'
  BY <1>1, <1>2 DEF NxTypeOK
<1>4. ClientTimed(ncl, nreliable)'
  BY <1>1 DEF ClientTimed, Live
<1>5. Absorbs'
  BY <1>1, <1>2 DEF Absorbs, Live
<1>6. Answered'
  BY <1>1, <1>2 DEF Answered
<1> QED
  BY <1>3, <1>4, <1>5, <1>6

-----------------------------------------------------------------------------
(* Time passes: the distances between the timers stay as they are.         *)

LEMMA ElapsedArmed ==
    ASSUME NEW S, NEW a \in [S -> Nat \cup {Off}], Due(a) = {}
    PROVE  /\ Elapsed(a) \in [S -> Nat \cup {Off}]
           /\ \A t \in S : a[t] \in Nat => a[t] > 0 /\ Elapsed(a)[t] = a[t] - 1
           /\ \A t \in S : a[t] = Off => Elapsed(a)[t] = Off
BY DEF Due, Elapsed, Off

LEMMA TickInv ==
    ASSUME NxInv, NxTick
    PROVE  NxInv'
<1> USE DEF NxInv
<1>1. /\ Due(ncl.armed) = {} /\ Due(nsv.armed) = {}
      /\ ncl' = [Polled(ncl) EXCEPT !.armed = Elapsed(Polled(ncl).armed)]
      /\ nsv' = [Polled(nsv) EXCEPT !.armed = Elapsed(Polled(nsv).armed)]
      /\ inflight' = FALSE
      /\ UNCHANGED <<nreliable, ns2c, learned, finals, failed, handed>>
  BY DEF NxTick
<1>2. /\ ncl.armed \in [NCTimer -> Nat \cup {Off}] /\ nsv.armed \in [NSTimer -> Nat \cup {Off}]
      /\ "E" \in NCTimer /\ "F" \in NCTimer /\ "J" \in NSTimer
  BY DEF NxTypeOK, NCTx, NSTx, NCTimer, NSTimer
<1>3. /\ ncl' \in NCTx /\ ncl'.state = ncl.state /\ ncl'.interval = ncl.interval
      /\ ncl'.armed = Elapsed(ncl.armed)
  <2> DEFINE p == Polled(ncl)
  <2>1. /\ p \in NCTx /\ p.state = ncl.state /\ p.interval = ncl.interval
        /\ p.armed = ncl.armed
    BY PolledClient DEF NxTypeOK
  <2>2. Elapsed(p.armed) \in [NCTimer -> Nat \cup {Off}]
    BY <1>1, <1>2, <2>1, ElapsedArmed
  <2>3. ncl' = [p EXCEPT !.armed = Elapsed(p.armed)]
    BY <1>1
  <2> HIDE DEF p
  <2> QED
    BY <2>1, <2>2, <2>3 DEF NCTx
<1>4. /\ nsv' \in NSTx /\ nsv'.state = nsv.state /\ nsv'.last = nsv.last
      /\ nsv'.armed = Elapsed(nsv.armed)
  <2> DEFINE p == Polled(nsv)
  <2>1. /\ p \in NSTx /\ p.state = nsv.state /\ p.last = nsv.last /\ p.armed = nsv.armed
    BY PolledServer DEF NxTypeOK
  <2>2. Elapsed(p.armed) \in [NSTimer -> Nat \cup {Off}]
    BY <1>1, <1>2, <2>1, ElapsedArmed
  <2>3. nsv' = [p EXCEPT !.armed = Elapsed(p.armed)]
    BY <1>1
  <2> HIDE DEF p
  <2> QED
    BY <2>1, <2>2, <2>3 DEF NSTx
<1>5. /\ \A t \in NCTimer : ncl.armed[t] \in Nat =>
                             ncl.armed[t] > 0 /\ ncl'.armed[t] = ncl.armed[t] - 1
      /\ \A t \in NCTimer : ncl.armed[t] = Off => ncl'.armed[t] = Off
      /\ nsv.armed["J"] \in Nat => nsv.armed["J"] > 0 /\ nsv'.armed["J"] = nsv.armed["J"] - 1
  BY <1>1, <1>2, <1>3, <1>4, ElapsedArmed
<1>6. Live(ncl)' = Live(ncl)
  BY <1>3 DEF Live
<1>7. NxTypeOK'
  BY <1>1, <1>3, <1>4 DEF NxTypeOK
<1>8. ASSUME ~nreliable, Live(ncl)
      PROVE  /\ ncl.armed["F"] \in Nat /\ ncl.armed["F"] > 0 /\ ncl.armed["F"] <= 64 * T1
             /\ ncl'.armed["F"] = ncl.armed["F"] - 1
             /\ ncl.armed["E"] \in Nat /\ ncl'.armed["E"] = ncl.armed["E"] - 1
             /\ ncl.armed["E"] > 0
             /\ OddMultiple(ncl.armed["F"] - ncl.armed["E"])
  <2>1. /\ ncl.armed["F"] \in Nat /\ ncl.armed["F"] <= 64 * T1 /\ ncl.armed["E"] \in Nat
        /\ OddMultiple(ncl.armed["F"] - ncl.armed["E"])
    BY <1>8, TimerAssumption DEF ClientTimed
  <2> QED
    BY <1>2, <1>5, <2>1
<1>9. ClientTimed(ncl, nreliable)'
  <2>1. Multiple(ncl.interval)' /\ (nreliable' => ncl'.armed["E"] = Off)
    BY <1>1, <1>2, <1>3, <1>5 DEF ClientTimed, Multiple
  <2>2. ASSUME ~nreliable', Live(ncl)'
        PROVE  /\ ncl'.armed["F"] \in 0..(64 * T1)
               /\ ncl'.armed["E"] \in Nat
               /\ OddMultiple(ncl'.armed["F"] - ncl'.armed["E"])
    <3>1. ~nreliable /\ Live(ncl)
      BY <1>1, <1>6, <2>2
    <3>2. ncl'.armed["F"] - ncl'.armed["E"] = ncl.armed["F"] - ncl.armed["E"]
      BY <1>8, <3>1
    <3>3. OddMultiple(ncl'.armed["F"] - ncl'.armed["E"])
      BY <1>8, <3>1, <3>2
    <3> QED
      BY <1>8, <3>1, <3>3, TimerAssumption
  <2> QED
    BY <2>1, <2>2 DEF ClientTimed, Multiple, OddMultiple, Live
<1>10. Absorbs'
  <2>1. /\ handed' = 0 => nsv'.state = "Absent"
        /\ nreliable' => handed' <= 1 /\ (inflight' => handed' = 0)
    BY <1>1, <1>4 DEF Absorbs
  <2>2. ASSUME ~nreliable', ~failed', handed' > 0
        PROVE  /\ handed' = 1
               /\ nsv'.state = "Completed" =>
                     /\ nsv'.armed["J"] \in Nat
                     /\ Live(ncl)' => ncl'.armed["F"] <= nsv'.armed["J"]
               /\ nsv'.state \in {"Absent", "Terminated"} =>
                     (Live(ncl)' => ncl'.armed["F"] = 0)
    <3>1. ~nreliable /\ ~failed /\ handed > 0
      BY <1>1, <2>2
    <3>2. handed' = 1
      BY <1>1, <3>1 DEF Absorbs
    <3>3. ASSUME nsv.state = "Completed"
          PROVE  /\ nsv'.armed["J"] \in Nat
                 /\ Live(ncl)' => ncl'.armed["F"] <= nsv'.armed["J"]
      <4>1. nsv.armed["J"] \in Nat /\ (Live(ncl) => ncl.armed["F"] <= nsv.armed["J"])
        BY <3>1, <3>3 DEF Absorbs
      <4> QED
        BY <1>5, <1>6, <1>8, <3>1, <4>1
    <3>4. ASSUME nsv.state \in {"Absent", "Terminated"}
          PROVE  ~Live(ncl)
      <4>1. Live(ncl) => ncl.armed["F"] = 0
        BY <3>1, <3>4 DEF Absorbs
      <4> QED
        BY <1>8, <3>1, <4>1
    <3> QED
      BY <1>4, <1>6, <3>2, <3>3, <3>4
  <2> QED
    BY <1>1, <2>1, <2>2 DEF Absorbs
<1>11. Answered'
  BY <1>1, <1>4 DEF Answered
<1> QED
  BY <1>7, <1>9, <1>10, <1>11

-----------------------------------------------------------------------------
LEMMA NxNextInv ==
    ASSUME EvenBackoff, NxInv, [NxNext]_nvars
    PROVE  NxInv'
<1>1. CASE UNCHANGED nvars
  BY <1>1 DEF nvars, NxInv, NxTypeOK, ClientTimed, Live, Absorbs, Answered
<1>2. CASE NxNext
  BY <1>2, ClientInv, ServerTimerInv, ServerRequestInv, ServerAnswerInv, ServerErrorInv,
     ServerCleanupInv, TickInv
     DEF NxNext, NxTimerFires
<1> QED
  BY <1>1, <1>2

\* Whatever is lost, repeated or delayed, Timer J of the non-INVITE server
\* transaction absorbs every retransmission that Timer E of the client makes
\* before Timer F: the request reaches the server's user once as long as the
\* server's own sends do not fail.  T2 is an even multiple of T1, as it is
\* with TimerValues::default; with T2 = T1 the three timers can be due in one
\* tick and the statement is false.
THEOREM RequestHandedOnce ==
    ASSUME EvenBackoff
    PROVE  NxSpec => []HandedOnce
<1>1. NxInit => NxInv
  BY NxInitInv
<1>2. NxInv /\ [NxNext]_nvars => NxInv'
  BY NxNextInv
<1>3. NxInv => HandedOnce
  BY DEF NxInv, NxTypeOK, Absorbs, HandedOnce
<1> QED
  BY <1>1, <1>2, <1>3, PTL DEF NxSpec

\* The final response the client's user is told is one that the server's user
\* passed to send_response, and its only one as long as no send failed.
THEOREM AnswerAgreement ==
    ASSUME EvenBackoff
    PROVE  NxSpec => []NxAgreement
<1>1. NxInit => NxInv
  BY NxInitInv
<1>2. NxInv /\ [NxNext]_nvars => NxInv'
  BY NxNextInv
<1>3. NxInv => NxAgreement
  BY DEF NxInv, Answered, NxAgreement
<1> QED
  BY <1>1, <1>2, <1>3, PTL DEF NxSpec

-----------------------------------------------------------------------------
(* Reliable provisional responses.                                         *)

Responses == [code : Nat, rseq : Nat]
RelEntry == [resp : Responses, fire : Nat, interval : Nat, elapsed : Nat]
RelBuffer == UNION {[S -> RelEntry] : S \in SUBSET Nat}
RelEvents == ISEvent \cup [type : {"PrackTimeout"}, rseq : Nat, final : FinalSent]

RelTx == [state : ISState, interval : Nat, last : Responses, nextRseq : Nat, rel : RelBuffer,
          final : FinalSent, armed : [ISTimer -> Nat \cup {Off}],
          out : SUBSET Responses, ev : SUBSET RelEvents]

\* How far the schedule of an entry has come.
Position(e) == e.elapsed + e.interval - e.fire

\* No entry's schedule is more than T1 ahead of the time it has waited, now
\* (a PRACK may set Timer N anew) and when Timer N, due in n ticks, fires; and
\* the schedule passes odd multiples of T1 only.
Scheduled(rel, n, a) ==
    \A r \in DOMAIN rel :
        /\ Multiple(rel[r].interval)
        /\ OddMultiple(rel[r].elapsed + rel[r].interval)
        /\ Position(rel[r]) <= a[r] + T1
        /\ Position(rel[r]) + SoonestFire(rel) - n <= a[r] + T1

\* The inductive invariant.
RelInv ==
    /\ uas \in RelTx
    /\ age \in [RSeqs -> Nat]
    /\ uas.nextRseq \in 1 .. MaxRel + 1
    /\ DOMAIN uas.rel \cup acked \cup given \subseteq 1 .. uas.nextRseq - 1
    /\ DOMAIN uas.rel # {} => /\ uas.armed["N"] \in Nat
                              /\ Scheduled(uas.rel, uas.armed["N"], age)
    /\ uas.final # "None" => DOMAIN uas.rel = {} /\ uas.state # "Proceeding"
    /\ OneFate

LEMMA BufferFacts ==
    ASSUME NEW rel \in RelBuffer
    PROVE  DOMAIN rel \subseteq Nat /\ \A r \in DOMAIN rel : rel[r] \in RelEntry
BY DEF RelBuffer

LEMMA BufferIntro ==
    ASSUME NEW S \in SUBSET Nat, NEW f \in [S -> RelEntry]
    PROVE  f \in RelBuffer
BY DEF RelBuffer

LEMMA EmptyBuffer == << >> \in RelBuffer /\ DOMAIN << >> = {}
<1>1. << >> \in [{} -> RelEntry] /\ {} \in SUBSET Nat
  OBVIOUS
<1> QED
  BY <1>1, BufferIntro

\* Timer N is set to the least delay of the buffer.
LEMMA SoonestFacts ==
    ASSUME NEW rel \in RelBuffer, DOMAIN rel # {}
    PROVE  /\ SoonestFire(rel) \in Nat
           /\ \E r \in DOMAIN rel : rel[r].fire = SoonestFire(rel)
           /\ \A r \in DOMAIN rel : SoonestFire(rel) <= rel[r].fire
<1> DEFINE F == {rel[r].fire : r \in DOMAIN rel}
<1>1. F \subseteq Nat /\ F # {}
  BY BufferFacts DEF RelEntry
<1>2. SoonestFire(rel) = Min(F)
  BY DEF SoonestFire
<1> HIDE DEF F
<1>3. \E x \in F : \A y \in F : ~(<<y, x>> \in OpToRel(<, Nat))
  BY <1>1, NatLessThanWellFounded, WFMin
<1>4. PICK x \in F : \A y \in F : ~(<<y, x>> \in OpToRel(<, Nat))
  BY <1>3
<1>5. \A y \in F : x <= y
  <2> SUFFICES ASSUME NEW y \in F, ~(x <= y) PROVE FALSE
    OBVIOUS
  <2>1. x \in Nat /\ y \in Nat /\ y < x
    BY <1>1
  <2>2. <<y, x>> \in OpToRel(<, Nat)
    BY <2>1 DEF OpToRel
  <2> QED
    BY <1>4, <2>2
<1>6. Min(F) \in F /\ \A y \in F : Min(F) <= y
  BY <1>5 DEF Min
<1> QED
  BY <1>1, <1>2, <1>6 DEF F

\* A schedule that has spent 64*T1 has spent one T1 more.
LEMMA OddIsBeyond ==
    ASSUME NEW x \in Int, OddMultiple(x), x >= 64 * T1
    PROVE  x >= 65 * T1
<1> USE TimerAssumption
<1>1. PICK k \in Int : x = 2 * (k * T1) + T1
  BY DEF OddMultiple
<1>2. x = (2 * k + 1) * T1
  BY <1>1
<1>3. 2 * k + 1 <= 63 => (2 * k + 1) * T1 <= 63 * T1
  OBVIOUS
<1>4. 2 * k + 1 >= 65 => (2 * k + 1) * T1 >= 65 * T1
  OBVIOUS
<1> QED
  BY <1>2, <1>3, <1>4

LEMMA OddPlusEven ==
    ASSUME NEW x \in Int, NEW y \in Int, OddMultiple(x), EvenMultiple(y)
    PROVE  OddMultiple(x + y)
<1>1. PICK k \in Int : x = 2 * (k * T1) + T1
  BY DEF OddMultiple
<1>2. PICK j \in Int : y = 2 * (j * T1)
  BY DEF EvenMultiple
<1>3. x + y = 2 * ((k + j) * T1) + T1
  BY <1>1, <1>2, TimerAssumption
<1> QED
  BY <1>3 DEF OddMultiple

-----------------------------------------------------------------------------
(* What each call does to the buffer.                                      *)

NoTimeout(n) == \A e \in n.ev : e.type # "PrackTimeout"

LEMMA NothingReported ==
    ASSUME NEW n, NoTimeout(n)
    PROVE  Reported(n) = {}
BY DEF NoTimeout, Reported

\* The call leaves the buffer alone.
Kept(u, n) ==
    /\ n.rel = u.rel /\ n.nextRseq = u.nextRseq /\ n.final = u.final
    /\ DOMAIN u.rel # {} => n.armed["N"] = u.armed["N"]
    /\ n.state = "Proceeding" => u.state = "Proceeding"
    /\ NoTimeout(n)

\* A final response drops it.
Dropped(u, n) ==
    /\ DOMAIN n.rel = {} /\ n.nextRseq = u.nextRseq
    /\ n.final # "None" /\ n.state # "Proceeding"
    /\ NoTimeout(n)

\* One more entry.
Added(u, n) ==
    /\ u.state = "Proceeding" /\ n.nextRseq = u.nextRseq + 1 /\ n.final = u.final
    /\ DOMAIN n.rel = DOMAIN u.rel \cup {u.nextRseq}
    /\ n.rel[u.nextRseq].fire = T1
    /\ n.rel[u.nextRseq].interval = T1
    /\ n.rel[u.nextRseq].elapsed = 0
    /\ \A r \in DOMAIN u.rel : r # u.nextRseq => n.rel[r] = u.rel[r]
    /\ n.armed["N"] = IF DOMAIN u.rel = {} THEN T1 ELSE u.armed["N"]
    /\ NoTimeout(n)

\* One entry less.
Acknowledged(u, n, x) ==
    /\ n.nextRseq = u.nextRseq /\ n.final = u.final /\ n.state = u.state
    /\ DOMAIN n.rel = DOMAIN u.rel \ {x}
    /\ \A r \in DOMAIN n.rel : n.rel[r] = u.rel[r]
    /\ DOMAIN n.rel # {} => n.armed["N"] = SoonestFire(n.rel)
    /\ NoTimeout(n)

\* Timer N: the due entries move on or, with 64*T1 spent, are given up.
Gone(rel) == {r \in DOMAIN rel : /\ rel[r].fire = SoonestFire(rel)
                                 /\ rel[r].elapsed + rel[r].interval >= abandon_at}

Fired(u, n) ==
    /\ n.nextRseq = u.nextRseq /\ n.final = u.final /\ n.state = u.state
    /\ DOMAIN n.rel = DOMAIN u.rel \ Gone(u.rel)
    /\ \A r \in DOMAIN n.rel :
          IF u.rel[r].fire = SoonestFire(u.rel)
          THEN /\ n.rel[r].elapsed = u.rel[r].elapsed + u.rel[r].interval
               /\ n.rel[r].interval = next_retransmit(u.rel[r].interval)
               /\ n.rel[r].fire = next_retransmit(u.rel[r].interval)
          ELSE /\ n.rel[r].elapsed = u.rel[r].elapsed
               /\ n.rel[r].interval = u.rel[r].interval
               /\ n.rel[r].fire = u.rel[r].fire - SoonestFire(u.rel)
    /\ DOMAIN n.rel # {} => n.armed["N"] = SoonestFire(n.rel)
    /\ Reported(n) = Gone(u.rel)
    /\ \A e \in n.ev : e.final = u.final

LEMMA PolledRel ==
    ASSUME NEW c \in RelTx
    PROVE  LET p == Polled(c)
           IN  /\ p \in RelTx /\ p.out = {} /\ p.ev = {} /\ p.state = c.state /\ p.last = c.last
               /\ p.interval = c.interval /\ p.armed = c.armed /\ p.rel = c.rel
               /\ p.nextRseq = c.nextRseq /\ p.final = c.final
BY DEF Polled, RelTx

LEMMA ConsumedRel ==
    ASSUME NEW c \in RelTx, NEW t \in ISTimer
    PROVE  LET p == Consumed(c, t)
           IN  /\ p \in RelTx /\ p.out = {} /\ p.ev = {} /\ p.state = c.state /\ p.last = c.last
               /\ p.interval = c.interval /\ p.armed = [c.armed EXCEPT ![t] = Off] /\ p.rel = c.rel
               /\ p.nextRseq = c.nextRseq /\ p.final = c.final
<1> DEFINE q == Polled(c)
           p == [q EXCEPT !.armed[t] = Off]
<1>1. /\ q \in RelTx /\ q.out = {} /\ q.ev = {} /\ q.state = c.state /\ q.last = c.last
      /\ q.interval = c.interval /\ q.armed = c.armed /\ q.rel = c.rel
      /\ q.nextRseq = c.nextRseq /\ q.final = c.final
  BY PolledRel
<1>2. Consumed(c, t) = p
  BY DEF Consumed
<1> HIDE DEF q
<1>3. [q.armed EXCEPT ![t] = Off] \in [ISTimer -> Nat \cup {Off}]
  BY <1>1 DEF RelTx
<1>4. /\ p \in RelTx /\ p.out = {} /\ p.ev = {} /\ p.state = q.state /\ p.last = q.last
      /\ p.interval = q.interval /\ p.armed = [q.armed EXCEPT ![t] = Off] /\ p.rel = q.rel
      /\ p.nextRseq = q.nextRseq /\ p.final = q.final
  BY <1>1, <1>3 DEF RelTx
<1> QED
  BY <1>1, <1>2, <1>4

LEMMA ResendRel ==
    ASSUME NEW c \in RelTx
    PROVE  Resend(c) \in SUBSET Responses
BY DEF Resend, RelTx

LEMMA ErrorRel ==
    ASSUME NEW c \in RelTx, c.ev = {}
    PROVE  ISHandleTransportError(c) \in RelTx /\ Kept(c, ISHandleTransportError(c))
<1> DEFINE n == [c EXCEPT !.state = "Terminated", !.ev = {[type |-> "TransportError"]}]
<1>1. {[type |-> "TransportError"]} \in SUBSET RelEvents
  BY DEF RelEvents, ISEvent
<1>2. /\ n \in RelTx /\ n.rel = c.rel /\ n.nextRseq = c.nextRseq /\ n.final = c.final
      /\ n.armed = c.armed /\ n.state = "Terminated" /\ n.ev = {[type |-> "TransportError"]}
  BY <1>1 DEF RelTx, ISState
<1>3. NoTimeout(n)
  BY <1>2 DEF NoTimeout
<1>4. Kept(c, n) /\ Kept(c, c)
  BY <1>2, <1>3 DEF Kept, NoTimeout
<1> QED
  BY <1>2, <1>4 DEF ISHandleTransportError

LEMMA RequestRel ==
    ASSUME NEW c \in RelTx, c.ev = {}, NEW m, NEW rl \in BOOLEAN
    PROVE  ISHandleRequest(c, m, rl) \in RelTx /\ Kept(c, ISHandleRequest(c, m, rl))
<1> DEFINE a == [c EXCEPT !.out = Resend(c)]
           st == IF timer_i(rl) = 0 THEN "Terminated" ELSE "Confirmed"
           ar == [c.armed EXCEPT !["G"] = IF rl THEN c.armed["G"] ELSE Off, !["H"] = Off,
                                 !["I"] = IF timer_i(rl) = 0 THEN c.armed["I"] ELSE timer_i(rl)]
           b == [c EXCEPT !.state = st, !.armed = ar, !.ev = {[type |-> "AckReceived"]}]
           n == ISHandleRequest(c, m, rl)
<1>1. a \in RelTx /\ Kept(c, a)
  BY ResendRel DEF RelTx, Kept, NoTimeout
<1>2. Kept(c, c)
  BY DEF Kept, NoTimeout
<1>3. st \in ISState /\ st # "Proceeding"
  BY DEF ISState
<1>4. ar \in [ISTimer -> Nat \cup {Off}] /\ ar["N"] = c.armed["N"]
  BY TimerAssumption DEF RelTx, ISTimer, timer_i
<1>5. {[type |-> "AckReceived"]} \in SUBSET RelEvents
  BY DEF RelEvents, ISEvent
<1>6. n \in {a, b, c}
  <2>1. CASE c.state \in {"Proceeding", "Completed"} /\ m = "INVITE"
    BY <2>1 DEF ISHandleRequest
  <2>2. CASE c.state = "Completed" /\ m = "ACK"
    <3>1. n = b
      BY <2>2 DEF ISHandleRequest, RelTx, ISTimer
    <3> QED
      BY <3>1
  <2>3. CASE ~(c.state \in {"Proceeding", "Completed"} /\ m = "INVITE") /\ ~(c.state = "Completed" /\ m = "ACK")
    BY <2>3 DEF ISHandleRequest
  <2> QED
    BY <2>1, <2>2, <2>3
<1> HIDE DEF st, ar
<1>7. /\ b \in RelTx /\ b.rel = c.rel /\ b.nextRseq = c.nextRseq /\ b.final = c.final
      /\ b.armed = ar /\ b.state = st /\ b.ev = {[type |-> "AckReceived"]}
  BY <1>3, <1>4, <1>5 DEF RelTx
<1>8. Kept(c, b)
  BY <1>3, <1>4, <1>7 DEF Kept, NoTimeout
<1> HIDE DEF a, b, n
<1>9. n \in RelTx /\ Kept(c, n)
  BY <1>1, <1>2, <1>6, <1>7, <1>8
<1> QED
  BY <1>9 DEF n

LEMMA OtherTimerRel ==
    ASSUME NEW c \in RelTx, c.ev = {}, NEW t \in ISTimer \ {"N"}
    PROVE  ISHandleTimeout(c, t) \in RelTx /\ Kept(c, ISHandleTimeout(c, t))
<1> DEFINE x == next_retransmit(c.interval)
           ar == [c.armed EXCEPT !["G"] = x]
           g == [c EXCEPT !.out = Resend(c), !.interval = x, !.armed = ar]
           h == [c EXCEPT !.state = "Terminated", !.ev = {[type |-> "Timeout"]}]
           i == [c EXCEPT !.state = "Terminated"]
           n == ISHandleTimeout(c, t)
<1>1. x \in Nat /\ ar \in [ISTimer -> Nat \cup {Off}] /\ ar["N"] = c.armed["N"]
  BY TimerAssumption DEF next_retransmit, RelTx, ISTimer
<1>2. {[type |-> "Timeout"]} \in SUBSET RelEvents
  BY DEF RelEvents, ISEvent
<1>3. n \in {g, h, i, c}
  <2>1. CASE c.state = "Completed" /\ t = "G"
    <3>1. n = g
      BY <2>1 DEF ISHandleTimeout
    <3> QED BY <3>1
  <2>2. CASE c.state = "Completed" /\ t = "H"
    <3>1. n = h
      BY <2>2 DEF ISHandleTimeout
    <3> QED BY <3>1
  <2>3. CASE c.state = "Confirmed" /\ t = "I"
    <3>1. n = i
      BY <2>3 DEF ISHandleTimeout
    <3> QED BY <3>1
  <2>4. CASE /\ ~(c.state = "Completed" /\ t = "G") /\ ~(c.state = "Completed" /\ t = "H")
             /\ ~(c.state = "Confirmed" /\ t = "I")
    <3>1. n = c
      BY <2>4 DEF ISHandleTimeout
    <3> QED BY <3>1
  <2> QED
    BY <2>1, <2>2, <2>3, <2>4
<1>4. Kept(c, c)
  BY DEF Kept, NoTimeout
<1>5. i \in RelTx /\ Kept(c, i)
  BY DEF Kept, NoTimeout, RelTx, ISState
<1>6. h \in RelTx /\ Kept(c, h)
  <2>1. /\ h \in RelTx /\ h.rel = c.rel /\ h.nextRseq = c.nextRseq /\ h.final = c.final
        /\ h.armed = c.armed /\ h.state = "Terminated" /\ h.ev = {[type |-> "Timeout"]}
    BY <1>2 DEF RelTx, ISState
  <2> QED
    BY <2>1 DEF Kept, NoTimeout
<1> HIDE DEF x, ar
<1>7. g \in RelTx /\ Kept(c, g)
  <2>1. /\ g \in RelTx /\ g.rel = c.rel /\ g.nextRseq = c.nextRseq /\ g.final = c.final
        /\ g.armed = ar /\ g.state = c.state /\ g.ev = c.ev
    BY <1>1, ResendRel DEF RelTx
  <2> QED
    BY <1>1, <2>1 DEF Kept, NoTimeout
<1> HIDE DEF g, h, i, n
<1>8. n \in RelTx /\ Kept(c, n)
  BY <1>3, <1>4, <1>5, <1>6, <1>7
<1> QED
  BY <1>8 DEF n

LEMMA DrainedRel ==
    ASSUME NEW c \in RelTx, c.ev = {}
    PROVE  LET d == Drained(c)
           IN  /\ d \in RelTx /\ DOMAIN d.rel = {} /\ d.nextRseq = c.nextRseq
               /\ d.state = c.state /\ d.ev = {}
<1> DEFINE ar == [c.armed EXCEPT !["N"] = Off]
           d == [c EXCEPT !.rel = << >>, !.armed = ar]
<1>1. ar \in [ISTimer -> Nat \cup {Off}]
  BY DEF RelTx
<1>2. Drained(c) = IF DOMAIN c.rel = {} THEN c ELSE d
  BY DEF Drained
<1> HIDE DEF ar
<1>3. d \in RelTx /\ d.rel = << >> /\ d.nextRseq = c.nextRseq /\ d.state = c.state /\ d.ev = {}
  BY <1>1, EmptyBuffer DEF RelTx
<1> QED
  BY <1>2, <1>3, EmptyBuffer

LEMMA FinalRel ==
    ASSUME NEW c \in RelTx, c.ev = {}, NEW code \in {200, 486}, NEW rl \in BOOLEAN
    PROVE  /\ ISSendResponse(c, code, rl) \in RelTx
           /\ \/ Kept(c, ISSendResponse(c, code, rl))
              \/ Dropped(c, ISSendResponse(c, code, rl))
<1> DEFINE n == ISSendResponse(c, code, rl)
<1>1. CASE c.state # "Proceeding"
  <2>1. n = c
    BY <1>1 DEF ISSendResponse
  <2> QED
    BY <2>1 DEF Kept, NoTimeout
<1>2. CASE c.state = "Proceeding"
  <2>1. PICK d : d = Drained(c)
    OBVIOUS
  <2>2. /\ d \in RelTx /\ DOMAIN d.rel = {} /\ d.nextRseq = c.nextRseq
        /\ d.state = c.state /\ d.ev = {}
    BY <2>1, DrainedRel
  <2>3. Resp(code, 0) \in Responses
    BY DEF Resp, Responses
  <2>4. CASE code = 200
    <3> DEFINE m == [d EXCEPT !.final = "TwoXx", !.state = "Terminated", !.out = {Resp(code, 0)}]
    <3>1. ~Provisional(code) /\ Success(code) /\ ~Failure(code)
      BY <2>4 DEF Provisional, Success, Failure
    <3>2. n = m
      BY <1>2, <2>1, <3>1 DEF ISSendResponse
    <3>3. {Resp(code, 0)} \in SUBSET Responses
      BY <2>3
    <3>4. /\ m \in RelTx /\ DOMAIN m.rel = {} /\ m.nextRseq = c.nextRseq /\ m.final = "TwoXx"
          /\ m.state = "Terminated" /\ m.ev = {}
      BY <2>2, <3>3 DEF RelTx, ISState, FinalSent
    <3>5. Dropped(c, m)
      BY <3>4 DEF Dropped, NoTimeout
    <3> HIDE DEF m
    <3> QED
      BY <3>2, <3>4, <3>5
  <2>5. CASE code = 486
    <3> DEFINE ar == [d.armed EXCEPT !["G"] = IF rl THEN d.armed["G"] ELSE c.interval,
                                     !["H"] = timer_h]
               m == [d EXCEPT !.final = "NonTwoXx", !.state = "Completed", !.last = Resp(code, 0),
                              !.out = {Resp(code, 0)}, !.armed = ar]
    <3>0. ~Provisional(code) /\ ~Success(code) /\ Failure(code)
      BY <2>5 DEF Provisional, Success, Failure
    <3>1. n = m
      BY <1>2, <2>1, <2>2, <3>0 DEF ISSendResponse, RelTx, ISTimer
    <3>2. ar \in [ISTimer -> Nat \cup {Off}]
      BY <2>2, TimerAssumption DEF RelTx, ISTimer, timer_h
    <3> HIDE DEF ar
    <3>3. /\ m \in RelTx /\ DOMAIN m.rel = {} /\ m.nextRseq = c.nextRseq /\ m.final = "NonTwoXx"
          /\ m.state = "Completed" /\ m.ev = {}
      BY ZenonT(40), <2>2, <2>3, <3>2 DEF RelTx, ISState, FinalSent
    <3>4. Dropped(c, m)
      BY <3>3 DEF Dropped, NoTimeout
    <3> HIDE DEF m
    <3> QED
      BY <3>1, <3>3, <3>4
  <2> QED
    BY <2>4, <2>5
<1> QED
  BY <1>1, <1>2

LEMMA ReliableRel ==
    ASSUME NEW c \in RelTx, c.ev = {}
    PROVE  /\ ISSendProvisionalReliable(c, 180) \in RelTx
           /\ \/ Kept(c, ISSendProvisionalReliable(c, 180))
              \/ Added(c, ISSendProvisionalReliable(c, 180))
<1> DEFINE n == ISSendProvisionalReliable(c, 180)
<1>1. CASE c.state # "Proceeding"
  <2>1. n = c
    BY <1>1 DEF ISSendProvisionalReliable
  <2> QED
    BY <2>1 DEF Kept, NoTimeout
<1>2. CASE c.state = "Proceeding"
  <2> DEFINE resp == Resp(180, c.nextRseq)
             entry == [resp |-> resp, fire |-> T1, interval |-> T1, elapsed |-> 0]
             rel == [r \in DOMAIN c.rel \cup {c.nextRseq} |-> IF r = c.nextRseq THEN entry ELSE c.rel[r]]
             ar == [c.armed EXCEPT !["N"] = IF DOMAIN c.rel = {} THEN T1 ELSE c.armed["N"]]
             m == [c EXCEPT !.nextRseq = c.nextRseq + 1, !.rel = rel, !.last = resp,
                            !.out = {resp}, !.armed = ar]
  <2>1. n = m
    BY <1>2 DEF ISSendProvisionalReliable, RelTx, ISTimer
  <2>2. c.nextRseq \in Nat /\ c.rel \in RelBuffer /\ resp \in Responses
    BY DEF RelTx, Resp, Responses
  <2>3. entry \in RelEntry /\ entry.fire = T1 /\ entry.interval = T1 /\ entry.elapsed = 0
    BY <2>2, TimerAssumption DEF RelEntry
  <2> HIDE DEF entry, resp
  <2>4. rel \in [DOMAIN c.rel \cup {c.nextRseq} -> RelEntry] /\ rel[c.nextRseq] = entry
    BY <2>2, <2>3, BufferFacts
  <2>5. rel \in RelBuffer
    BY <2>2, <2>4, BufferFacts, BufferIntro
  <2>6. /\ ar \in [ISTimer -> Nat \cup {Off}]
        /\ ar["N"] = IF DOMAIN c.rel = {} THEN T1 ELSE c.armed["N"]
    BY TimerAssumption DEF RelTx, ISTimer
  <2>7. /\ DOMAIN rel = DOMAIN c.rel \cup {c.nextRseq}
        /\ \A r \in DOMAIN c.rel : r # c.nextRseq => rel[r] = c.rel[r]
    OBVIOUS
  <2> HIDE DEF rel, ar
  <2>a. c.nextRseq + 1 \in Nat /\ {resp} \in SUBSET Responses
    BY <2>2
  <2>8. /\ m \in RelTx /\ m.rel = rel /\ m.nextRseq = c.nextRseq + 1 /\ m.final = c.final
        /\ m.state = c.state /\ m.ev = {} /\ m.armed = ar
    BY <2>2, <2>5, <2>6, <2>a DEF RelTx
  <2> HIDE DEF m
  <2>9. Added(c, m)
    BY <1>2, <2>3, <2>4, <2>6, <2>7, <2>8 DEF Added, NoTimeout
  <2> QED
    BY <2>1, <2>8, <2>9
<1> QED
  BY <1>1, <1>2

LEMMA PrackRel ==
    ASSUME NEW c \in RelTx, c.ev = {}, NEW x
    PROVE  /\ ISPrackReceived(c, x) \in RelTx
           /\ IF x \in DOMAIN c.rel THEN Acknowledged(c, ISPrackReceived(c, x), x)
                                    ELSE Kept(c, ISPrackReceived(c, x))
<1> DEFINE n == ISPrackReceived(c, x)
<1>1. CASE x \notin DOMAIN c.rel
  <2>1. n = c
    BY <1>1 DEF ISPrackReceived
  <2> QED
    BY <1>1, <2>1 DEF Kept, NoTimeout
<1>2. CASE x \in DOMAIN c.rel
  <2> DEFINE left == [r \in DOMAIN c.rel \ {x} |-> c.rel[r]]
             d == IF DOMAIN left = {} THEN Off ELSE SoonestFire(left)
             ar == [c.armed EXCEPT !["N"] = d]
             m == [c EXCEPT !.rel = left, !.armed = ar]
  <2>1. n = m
    BY <1>2 DEF ISPrackReceived, Restrict
  <2>2. c.rel \in RelBuffer
    BY DEF RelTx
  <2>3. left \in [DOMAIN c.rel \ {x} -> RelEntry] /\ DOMAIN c.rel \ {x} \subseteq Nat
    BY <2>2, BufferFacts
  <2>4. left \in RelBuffer
    BY <2>3, BufferIntro
  <2>5. DOMAIN left = DOMAIN c.rel \ {x} /\ \A r \in DOMAIN left : left[r] = c.rel[r]
    OBVIOUS
  <2> HIDE DEF left
  <2>6. d \in Nat \cup {Off} /\ (DOMAIN left # {} => d = SoonestFire(left))
    BY <2>4, SoonestFacts
  <2> HIDE DEF d
  <2>7. ar \in [ISTimer -> Nat \cup {Off}] /\ ar["N"] = d
    BY <2>6 DEF RelTx, ISTimer
  <2> HIDE DEF ar
  <2>8. /\ m \in RelTx /\ m.rel = left /\ m.nextRseq = c.nextRseq /\ m.final = c.final
        /\ m.state = c.state /\ m.ev = {} /\ m.armed = ar
    BY <2>4, <2>7 DEF RelTx
  <2> HIDE DEF m
  <2>9. Acknowledged(c, m, x)
    BY <2>5, <2>6, <2>7, <2>8 DEF Acknowledged, NoTimeout
  <2> QED
    BY <1>2, <2>1, <2>8, <2>9
<1> QED
  BY <1>1, <1>2

LEMMA FiredRel ==
    ASSUME NEW c \in RelTx, c.ev = {}
    PROVE  /\ ISHandleTimeout(c, "N") \in RelTx
           /\ IF DOMAIN c.rel = {} THEN Kept(c, ISHandleTimeout(c, "N"))
                                   ELSE Fired(c, ISHandleTimeout(c, "N"))
<1> DEFINE n == ISHandleTimeout(c, "N")
<1>0. n = FireTimerN(c)
  BY DEF ISHandleTimeout
<1>1. CASE DOMAIN c.rel = {}
  <2>1. n = c
    BY <1>0, <1>1 DEF FireTimerN
  <2> QED
    BY <1>1, <2>1 DEF Kept, NoTimeout
<1>2. CASE DOMAIN c.rel # {}
  <2> DEFINE s == SoonestFire(c.rel)
             due == {r \in DOMAIN c.rel : c.rel[r].fire = s}
             gone == {r \in due : c.rel[r].elapsed + c.rel[r].interval >= abandon_at}
             moved(r) == [c.rel[r] EXCEPT !.elapsed = c.rel[r].elapsed + c.rel[r].interval,
                                          !.interval = next_retransmit(c.rel[r].interval),
                                          !.fire = next_retransmit(c.rel[r].interval)]
             waits(r) == [c.rel[r] EXCEPT !.fire = c.rel[r].fire - s]
             left == [r \in DOMAIN c.rel \ gone |-> IF r \in due THEN moved(r) ELSE waits(r)]
             outs == {c.rel[r].resp : r \in due \ gone}
             evs == {[type |-> "PrackTimeout", rseq |-> r, final |-> c.final] : r \in gone}
             d == IF DOMAIN left = {} THEN c.armed["N"] ELSE SoonestFire(left)
             ar == [c.armed EXCEPT !["N"] = d]
             m == [c EXCEPT !.rel = left, !.out = outs, !.ev = evs, !.armed = ar]
  <2>1. n = m
    BY <1>0, <1>2 DEF FireTimerN
  <2>2. c.rel \in RelBuffer /\ c.final \in FinalSent
    BY DEF RelTx
  <2>3. /\ DOMAIN c.rel \subseteq Nat /\ \A r \in DOMAIN c.rel : c.rel[r] \in RelEntry
        /\ s \in Nat /\ \A r \in DOMAIN c.rel : s <= c.rel[r].fire
    BY <1>2, <2>2, BufferFacts, SoonestFacts
  <2> HIDE DEF s
  <2>4. \A r \in DOMAIN c.rel : /\ moved(r) \in RelEntry
                                /\ moved(r).elapsed = c.rel[r].elapsed + c.rel[r].interval
                                /\ moved(r).interval = next_retransmit(c.rel[r].interval)
                                /\ moved(r).fire = next_retransmit(c.rel[r].interval)
    <3> SUFFICES ASSUME NEW r \in DOMAIN c.rel
                 PROVE  /\ moved(r) \in RelEntry
                        /\ moved(r).elapsed = c.rel[r].elapsed + c.rel[r].interval
                        /\ moved(r).interval = next_retransmit(c.rel[r].interval)
                        /\ moved(r).fire = next_retransmit(c.rel[r].interval)
      OBVIOUS
    <3>1. PICK e : e = c.rel[r]
      OBVIOUS
    <3>2. e \in RelEntry /\ next_retransmit(e.interval) \in Nat /\ e.elapsed + e.interval \in Nat
      BY <2>3, <3>1, TimerAssumption DEF RelEntry, next_retransmit
    <3> QED
      BY <3>1, <3>2 DEF RelEntry
  <2>5. \A r \in DOMAIN c.rel : /\ waits(r) \in RelEntry
                                /\ waits(r).elapsed = c.rel[r].elapsed
                                /\ waits(r).interval = c.rel[r].interval
                                /\ waits(r).fire = c.rel[r].fire - s
    <3> SUFFICES ASSUME NEW r \in DOMAIN c.rel
                 PROVE  /\ waits(r) \in RelEntry
                        /\ waits(r).elapsed = c.rel[r].elapsed
                        /\ waits(r).interval = c.rel[r].interval
                        /\ waits(r).fire = c.rel[r].fire - s
      OBVIOUS
    <3>1. PICK e : e = c.rel[r]
      OBVIOUS
    <3>2. e \in RelEntry /\ e.fire - s \in Nat
      BY <2>3, <3>1 DEF RelEntry
    <3> QED
      BY <3>1, <3>2 DEF RelEntry
  <2>6. gone = Gone(c.rel) /\ gone \subseteq Nat
    BY <2>3 DEF Gone, s
  <2> HIDE DEF moved, waits
  <2>7. /\ DOMAIN left = DOMAIN c.rel \ gone /\ left \in [DOMAIN c.rel \ gone -> RelEntry]
        /\ \A r \in DOMAIN left : left[r] = IF c.rel[r].fire = s THEN moved(r) ELSE waits(r)
    BY <2>4, <2>5
  <2>8. left \in RelBuffer
    BY <2>3, <2>7, BufferIntro
  <2> HIDE DEF left
  <2>9. outs \in SUBSET Responses
    BY <2>3 DEF RelEntry
  <2>10. evs \in SUBSET RelEvents /\ {e.rseq : e \in {x \in evs : x.type = "PrackTimeout"}} = gone
    <3>1. \A r \in gone : [type |-> "PrackTimeout", rseq |-> r, final |-> c.final] \in RelEvents
      BY <2>2, <2>6 DEF RelEvents
    <3> DEFINE ev(r) == [type |-> "PrackTimeout", rseq |-> r, final |-> c.final]
    <3>2. \A r \in gone : ev(r) \in RelEvents /\ ev(r).rseq = r /\ ev(r).type = "PrackTimeout"
      BY <3>1
    <3>3. evs = {ev(r) : r \in gone}
      OBVIOUS
    <3> HIDE DEF gone, ev, evs
    <3>4. evs \in SUBSET RelEvents /\ \A e \in evs : e.type = "PrackTimeout" /\ e.rseq \in gone
      BY <3>2, <3>3
    <3>5. \A r \in gone : \E e \in evs : e.type = "PrackTimeout" /\ e.rseq = r
      BY <3>2, <3>3
    <3> QED
      BY <3>4, <3>5
  <2>11. \A e \in evs : e.final = c.final
    OBVIOUS
  <2> HIDE DEF outs, evs
  <2>12. d \in Nat \cup {Off} /\ (DOMAIN left # {} => d = SoonestFire(left))
    BY <2>8, SoonestFacts DEF RelTx, ISTimer
  <2> HIDE DEF d
  <2>13. ar \in [ISTimer -> Nat \cup {Off}] /\ ar["N"] = d
    BY <2>12 DEF RelTx, ISTimer
  <2> HIDE DEF ar
  <2>14. /\ m \in RelTx /\ m.rel = left /\ m.nextRseq = c.nextRseq /\ m.final = c.final
         /\ m.state = c.state /\ m.ev = evs /\ m.armed = ar
    BY <2>8, <2>9, <2>10, <2>13 DEF RelTx
  <2> HIDE DEF m, gone
  <2>15. \A r \in DOMAIN left :
            IF c.rel[r].fire = s
            THEN /\ left[r].elapsed = c.rel[r].elapsed + c.rel[r].interval
                 /\ left[r].interval = next_retransmit(c.rel[r].interval)
                 /\ left[r].fire = next_retransmit(c.rel[r].interval)
            ELSE /\ left[r].elapsed = c.rel[r].elapsed
                 /\ left[r].interval = c.rel[r].interval
                 /\ left[r].fire = c.rel[r].fire - s
    BY <2>4, <2>5, <2>7
  <2>16. Reported(m) = gone
    BY <2>10, <2>14 DEF Reported
  <2>17. Fired(c, m)
    BY <2>6, <2>7, <2>11, <2>12, <2>13, <2>14, <2>15, <2>16 DEF Fired, s
  <2> QED
    BY <1>2, <2>1, <2>14, <2>17
<1> QED
  BY <1>1, <1>2

-----------------------------------------------------------------------------
(* Each kind of call keeps the invariant.                                  *)

LEMMA RelTypes ==
    ASSUME RelInv
    PROVE  /\ uas.rel \in RelBuffer /\ uas.nextRseq \in Nat /\ uas.armed \in [ISTimer -> Nat \cup {Off}]
           /\ \A r \in DOMAIN uas.rel : uas.rel[r] \in RelEntry
           /\ DOMAIN uas.rel \subseteq RSeqs /\ given \subseteq RSeqs
           /\ \A r \in DOMAIN uas.rel : age[r] \in Nat
<1>1. uas \in RelTx /\ uas.rel \in RelBuffer
  BY DEF RelInv, RelTx
<1>2. DOMAIN uas.rel \subseteq RSeqs /\ given \subseteq RSeqs
  BY ReliableAssumption DEF RelInv, RSeqs
<1> QED
  BY <1>1, <1>2, BufferFacts DEF RelInv, RelTx

\* The clock of every entry that stays, and of every one given up, is kept.
LEMMA AgeKept ==
    ASSUME RelInv, NEW n, RelStep(n)
    PROVE  /\ uas' = n /\ given' = given \cup Reported(n)
           /\ age' \in [RSeqs -> Nat]
           /\ \A r \in RSeqs : r \in DOMAIN n.rel \cup given' => age'[r] = age[r]
BY DEF RelStep, RelInv

LEMMA KeptInv ==
    ASSUME RelInv, NEW n \in RelTx, Kept(uas, n), RelStep(n), acked' = acked
    PROVE  RelInv'
<1>1. given' = given /\ uas' = n
  BY NothingReported DEF Kept, RelStep
<1>2. age' \in [RSeqs -> Nat] /\ \A r \in RSeqs : r \in DOMAIN n.rel \cup given => age'[r] = age[r]
  BY <1>1, AgeKept
<1>3. n.rel = uas.rel /\ DOMAIN uas.rel \subseteq RSeqs /\ given \subseteq RSeqs
  BY RelTypes DEF Kept
<1>4. DOMAIN n.rel # {} => n.armed["N"] \in Nat /\ Scheduled(n.rel, n.armed["N"], age')
  <2> SUFFICES ASSUME DOMAIN n.rel # {} PROVE n.armed["N"] \in Nat /\ Scheduled(n.rel, n.armed["N"], age')
    OBVIOUS
  <2>1. n.armed["N"] = uas.armed["N"] /\ uas.armed["N"] \in Nat /\ Scheduled(uas.rel, uas.armed["N"], age)
    BY DEF RelInv, Kept
  <2>2. \A r \in DOMAIN n.rel : age'[r] = age[r]
    BY <1>2, <1>3
  <2>3. Scheduled(uas.rel, uas.armed["N"], age')
    BY <1>3, <2>1, <2>2 DEF Scheduled
  <2> QED
    BY <1>3, <2>1, <2>3
<1>5. OneFate'
  <2>1. OneFate /\ n.rel = uas.rel /\ n.nextRseq = uas.nextRseq /\ n.final = uas.final /\ NoTimeout(n)
    BY DEF RelInv, Kept
  <2>2. \A r \in given : age'[r] >= 64 * T1
    BY <1>2, <1>3, <2>1 DEF OneFate
  <2> QED
    BY <1>1, <2>1, <2>2 DEF OneFate, NoTimeout
<1> QED
  BY <1>1, <1>2, <1>3, <1>4, <1>5 DEF RelInv, Kept

LEMMA DroppedInv ==
    ASSUME RelInv, NEW n \in RelTx, Dropped(uas, n), RelStep(n), acked' = acked
    PROVE  RelInv'
<1>1. given' = given /\ uas' = n
  BY NothingReported DEF Dropped, RelStep
<1>2. age' \in [RSeqs -> Nat] /\ \A r \in RSeqs : r \in DOMAIN n.rel \cup given => age'[r] = age[r]
  BY <1>1, AgeKept
<1>3. OneFate'
  <2>1. OneFate /\ DOMAIN n.rel = {} /\ n.final # "None" /\ NoTimeout(n)
    BY DEF RelInv, Dropped
  <2>2. \A r \in given : age'[r] >= 64 * T1
    BY <1>2, <2>1, RelTypes DEF OneFate
  <2> QED
    BY <1>1, <2>1, <2>2 DEF OneFate, NoTimeout
<1> QED
  BY <1>1, <1>2, <1>3 DEF RelInv, Dropped

\* A new entry has waited for nothing; the Timer N it waits for comes early
\* by less than T1.
LEMMA AddedInv ==
    ASSUME RelInv, NEW n \in RelTx, Added(uas, n), RelStep(n), acked' = acked,
           uas.nextRseq \in RSeqs
    PROVE  RelInv'
<1> DEFINE x == uas.nextRseq
<1>1. given' = given /\ uas' = n
  BY NothingReported DEF Added, RelStep
<1>2. age' \in [RSeqs -> Nat] /\ \A r \in RSeqs : r \in DOMAIN n.rel \cup given => age'[r] = age[r]
  BY <1>1, AgeKept
<1>3. /\ DOMAIN n.rel = DOMAIN uas.rel \cup {x} /\ x \notin DOMAIN uas.rel
      /\ x \notin acked \cup given /\ x \in Nat
      /\ \A r \in DOMAIN uas.rel : n.rel[r] = uas.rel[r]
  <2>1. DOMAIN uas.rel \cup acked \cup given \subseteq 1 .. x - 1 /\ x \in Nat
    BY RelTypes DEF RelInv
  <2>2. x \notin 1 .. x - 1
    BY <2>1
  <2> QED
    BY <2>1, <2>2 DEF Added
<1>4. n.rel \in RelBuffer
  BY DEF RelTx
<1>5. n.armed["N"] \in Nat
  BY TimerAssumption DEF Added, RelInv
<1>6. Scheduled(n.rel, n.armed["N"], age')
  <2> SUFFICES ASSUME NEW r \in DOMAIN n.rel
               PROVE  /\ Multiple(n.rel[r].interval)
                      /\ OddMultiple(n.rel[r].elapsed + n.rel[r].interval)
                      /\ Position(n.rel[r]) <= age'[r] + T1
                      /\ Position(n.rel[r]) + SoonestFire(n.rel) - n.armed["N"] <= age'[r] + T1
    BY DEF Scheduled
  <2>1. SoonestFire(n.rel) \in Nat /\ \A q \in DOMAIN n.rel : SoonestFire(n.rel) <= n.rel[q].fire
    BY <1>3, <1>4, SoonestFacts
  <2>2. r \in RSeqs /\ age'[r] = age[r] /\ age[r] \in Nat
    BY <1>2, <1>3, RelTypes DEF RelInv
  <2>3. CASE r = x
    <3>1. n.rel[r].fire = T1 /\ n.rel[r].interval = T1 /\ n.rel[r].elapsed = 0
      BY <2>3 DEF Added
    <3>2. Position(n.rel[r]) = 0 /\ SoonestFire(n.rel) <= T1
      BY <2>1, <3>1, TimerAssumption DEF Position
    <3>3. OddMultiple(0 + T1) /\ Multiple(T1)
      <4>1. 0 + T1 = 2 * (0 * T1) + T1 /\ 0 \in Int
        BY TimerAssumption
      <4> QED
        BY <4>1, MultipleFacts DEF OddMultiple
    <3> QED
      BY <1>5, <2>1, <2>2, <3>1, <3>2, <3>3, TimerAssumption
  <2>4. CASE r # x
    <3>1. r \in DOMAIN uas.rel /\ n.rel[r] = uas.rel[r] /\ DOMAIN uas.rel # {}
      BY <1>3, <2>4
    <3>2. /\ uas.armed["N"] \in Nat /\ n.armed["N"] = uas.armed["N"]
          /\ Scheduled(uas.rel, uas.armed["N"], age)
      BY <3>1 DEF RelInv, Added
    <3>3. PICK q \in DOMAIN uas.rel : uas.rel[q].fire = SoonestFire(uas.rel)
      BY <3>1, SoonestFacts, RelTypes
    <3>4. SoonestFire(n.rel) <= SoonestFire(uas.rel) /\ SoonestFire(uas.rel) \in Nat
      BY <1>3, <2>1, <3>1, <3>3, SoonestFacts, RelTypes
    <3>5. Position(n.rel[r]) \in Int
      BY <3>1, RelTypes DEF Position, RelEntry
    <3>6. /\ Multiple(uas.rel[r].interval)
          /\ OddMultiple(uas.rel[r].elapsed + uas.rel[r].interval)
          /\ Position(uas.rel[r]) <= age[r] + T1
          /\ Position(uas.rel[r]) + SoonestFire(uas.rel) - uas.armed["N"] <= age[r] + T1
      BY <3>1, <3>2 DEF Scheduled
    <3> QED
      BY <2>1, <2>2, <3>1, <3>2, <3>4, <3>5, <3>6, TimerAssumption
  <2> QED
    BY <2>3, <2>4
<1>7. n.nextRseq = x + 1 /\ n.nextRseq \in 1 .. MaxRel + 1
  BY <1>3, ReliableAssumption DEF Added, RSeqs
<1>8. n.final = "None" /\ n.final = uas.final /\ NoTimeout(n)
  BY DEF Added, RelInv, RelTx, FinalSent
<1>9. OneFate'
  <2>1. OneFate
    BY DEF RelInv
  <2>2. \A r \in given : age'[r] >= 64 * T1
    BY <1>2, <2>1, RelTypes DEF OneFate
  <2>3. 1 .. n.nextRseq - 1 = acked \cup given \cup DOMAIN n.rel
    <3>1. 1 .. x - 1 = acked \cup given \cup DOMAIN uas.rel
      BY <1>8, <2>1 DEF OneFate
    <3>2. 1 .. n.nextRseq - 1 = (1 .. x - 1) \cup {x} 
      BY <1>3, <1>7 DEF RSeqs
    <3> QED
      BY <1>3, <3>1, <3>2
  <2>4. (acked \cup given) \cap DOMAIN n.rel = {} /\ acked \cap given = {}
    BY <1>3, <2>1 DEF OneFate
  <2> QED
    BY <1>1, <1>8, <2>2, <2>3, <2>4 DEF OneFate, NoTimeout
<1>10. DOMAIN n.rel \cup acked \cup given \subseteq 1 .. n.nextRseq - 1
  <2>1. DOMAIN uas.rel \cup acked \cup given \subseteq 1 .. x - 1
    BY DEF RelInv
  <2>2. 1 .. x - 1 \subseteq 1 .. n.nextRseq - 1 /\ x \in 1 .. n.nextRseq - 1
    BY <1>3, <1>7 DEF RSeqs
  <2> QED
    BY <1>3, <2>1, <2>2
<1> QED
  BY <1>1, <1>2, <1>5, <1>6, <1>7, <1>8, <1>9, <1>10 DEF RelInv

LEMMA AcknowledgedInv ==
    ASSUME RelInv, NEW x \in DOMAIN uas.rel, NEW n \in RelTx, Acknowledged(uas, n, x), RelStep(n),
           acked' = acked \cup {x}
    PROVE  RelInv'
<1>1. given' = given /\ uas' = n
  BY NothingReported DEF Acknowledged, RelStep
<1>2. age' \in [RSeqs -> Nat] /\ \A r \in RSeqs : r \in DOMAIN n.rel \cup given => age'[r] = age[r]
  BY <1>1, AgeKept
<1>3. /\ DOMAIN n.rel = DOMAIN uas.rel \ {x} /\ \A r \in DOMAIN n.rel : n.rel[r] = uas.rel[r]
      /\ n.nextRseq = uas.nextRseq /\ n.final = uas.final /\ n.state = uas.state /\ NoTimeout(n)
  BY DEF Acknowledged
<1>4. ASSUME DOMAIN n.rel # {} PROVE n.armed["N"] \in Nat /\ Scheduled(n.rel, n.armed["N"], age')
  <2>1. n.rel \in RelBuffer /\ n.armed["N"] = SoonestFire(n.rel)
    BY <1>4 DEF RelTx, Acknowledged
  <2>2. SoonestFire(n.rel) \in Nat
    BY <1>4, <2>1, SoonestFacts
  <2>3. ASSUME NEW r \in DOMAIN n.rel
        PROVE  /\ Multiple(n.rel[r].interval)
               /\ OddMultiple(n.rel[r].elapsed + n.rel[r].interval)
               /\ Position(n.rel[r]) <= age'[r] + T1
               /\ Position(n.rel[r]) + SoonestFire(n.rel) - n.armed["N"] <= age'[r] + T1
    <3>1. r \in DOMAIN uas.rel /\ r \in RSeqs /\ age'[r] = age[r] /\ n.rel[r] = uas.rel[r]
      BY <1>2, <1>3, <2>3, RelTypes
    <3>2. Scheduled(uas.rel, uas.armed["N"], age)
      BY <3>1 DEF RelInv
    <3>3. /\ Multiple(uas.rel[r].interval)
          /\ OddMultiple(uas.rel[r].elapsed + uas.rel[r].interval)
          /\ Position(uas.rel[r]) <= age[r] + T1
      BY <3>1, <3>2 DEF Scheduled
    <3>4. Position(n.rel[r]) \in Int
      BY <3>1, RelTypes DEF Position, RelEntry
    <3>5. Position(n.rel[r]) + SoonestFire(n.rel) - n.armed["N"] = Position(n.rel[r])
      BY <2>1, <2>2, <3>4
    <3> QED
      BY <3>1, <3>3, <3>5
  <2> QED
    BY <2>1, <2>2, <2>3 DEF Scheduled
<1>5. OneFate'
  <2>1. OneFate
    BY DEF RelInv
  <2>2. \A r \in given : age'[r] >= 64 * T1
    BY <1>2, <2>1, RelTypes DEF OneFate
  <2>3. acked' \cup given \cup DOMAIN n.rel = acked \cup given \cup DOMAIN uas.rel
    BY <1>3
  <2> QED
    BY <1>1, <1>3, <2>1, <2>2, <2>3 DEF OneFate, NoTimeout
<1> QED
  BY <1>1, <1>2, <1>3, <1>4, <1>5 DEF RelInv

\* Timer N is due when it fires: what it takes off the delays has been waited.
LEMMA FiredInv ==
    ASSUME EvenBackoff, RelInv, NEW n \in RelTx, NEW c \in RelTx, c.rel = uas.rel,
           c.nextRseq = uas.nextRseq, c.final = uas.final, c.state = uas.state,
           uas.armed["N"] = 0, DOMAIN uas.rel # {}, Fired(c, n), RelStep(n), acked' = acked
    PROVE  RelInv'
<1> DEFINE s == SoonestFire(uas.rel)
           gone == Gone(uas.rel)
<1>1. uas' = n /\ given' = given \cup gone
  BY AgeKept DEF Fired
<1>2. /\ age' \in [RSeqs -> Nat]
      /\ \A r \in RSeqs : r \in DOMAIN n.rel \cup given \cup gone => age'[r] = age[r]
  BY <1>1, AgeKept
<1>3. /\ DOMAIN n.rel = DOMAIN uas.rel \ gone /\ gone \subseteq DOMAIN uas.rel
      /\ n.nextRseq = uas.nextRseq /\ n.final = uas.final /\ n.state = uas.state
  BY DEF Fired, Gone
<1>4. s \in Nat /\ \A r \in DOMAIN uas.rel : s <= uas.rel[r].fire
  BY SoonestFacts, RelTypes
<1>5. ASSUME NEW r \in DOMAIN uas.rel
      PROVE  /\ Multiple(uas.rel[r].interval)
             /\ OddMultiple(uas.rel[r].elapsed + uas.rel[r].interval)
             /\ Position(uas.rel[r]) \in Int
             /\ Position(uas.rel[r]) + s <= age[r] + T1
             /\ age'[r] = age[r] /\ age[r] \in Nat
             /\ uas.rel[r].elapsed \in Nat /\ uas.rel[r].interval \in Nat /\ uas.rel[r].fire \in Nat
  <2>1. uas.rel[r] \in RelEntry /\ r \in RSeqs /\ age[r] \in Nat
    BY RelTypes
  <2>2. Scheduled(uas.rel, 0, age)
    BY DEF RelInv
  <2>3. Position(uas.rel[r]) \in Int
    BY <2>1 DEF Position, RelEntry
  <2>4. /\ Multiple(uas.rel[r].interval)
        /\ OddMultiple(uas.rel[r].elapsed + uas.rel[r].interval)
        /\ Position(uas.rel[r]) + s - 0 <= age[r] + T1
    BY <2>2 DEF Scheduled
  <2>5. r \in DOMAIN n.rel \cup gone
    BY <1>3
  <2> QED
    BY <1>2, <1>4, <2>1, <2>3, <2>4, <2>5 DEF RelEntry
<1>6. ASSUME DOMAIN n.rel # {} PROVE n.armed["N"] \in Nat /\ Scheduled(n.rel, n.armed["N"], age')
  <2>1. n.rel \in RelBuffer /\ n.armed["N"] = SoonestFire(n.rel)
    BY <1>6 DEF RelTx, Fired
  <2>2. SoonestFire(n.rel) \in Nat
    BY <1>6, <2>1, SoonestFacts
  <2>3. ASSUME NEW r \in DOMAIN n.rel
        PROVE  /\ Multiple(n.rel[r].interval)
               /\ OddMultiple(n.rel[r].elapsed + n.rel[r].interval)
               /\ Position(n.rel[r]) \in Int
               /\ Position(n.rel[r]) <= age'[r] + T1
    <3>1. r \in DOMAIN uas.rel
      BY <1>3, <2>3
    <3>2. CASE uas.rel[r].fire = s
      <4>1. PICK i : i = next_retransmit(uas.rel[r].interval)
        OBVIOUS
      <4>2. i \in Nat /\ EvenMultiple(i) /\ Multiple(i)
        BY <1>5, <3>1, <4>1, NextRetransmitEven
      <4>3. /\ n.rel[r].elapsed = uas.rel[r].elapsed + uas.rel[r].interval
            /\ n.rel[r].interval = i /\ n.rel[r].fire = i
        BY <2>3, <3>2, <4>1 DEF Fired
      <4>4. OddMultiple(uas.rel[r].elapsed + uas.rel[r].interval + i)
        BY <1>5, <3>1, <4>2, OddPlusEven
      <4>5. Position(n.rel[r]) = Position(uas.rel[r]) + s
        BY <1>4, <1>5, <3>1, <3>2, <4>2, <4>3 DEF Position
      <4> QED
        BY <1>4, <1>5, <3>1, <4>2, <4>3, <4>4, <4>5
    <3>3. CASE uas.rel[r].fire # s
      <4>1. /\ n.rel[r].elapsed = uas.rel[r].elapsed
            /\ n.rel[r].interval = uas.rel[r].interval
            /\ n.rel[r].fire = uas.rel[r].fire - s
        BY <2>3, <3>3 DEF Fired
      <4>2. Position(n.rel[r]) = Position(uas.rel[r]) + s
        BY <1>4, <1>5, <3>1, <4>1 DEF Position
      <4> QED
        BY <1>4, <1>5, <3>1, <4>1, <4>2
    <3> QED
      BY <3>2, <3>3
  <2>4. ASSUME NEW r \in DOMAIN n.rel
        PROVE  Position(n.rel[r]) + SoonestFire(n.rel) - n.armed["N"] <= age'[r] + T1
    <3>1. Position(n.rel[r]) + SoonestFire(n.rel) - n.armed["N"] = Position(n.rel[r])
      BY <2>1, <2>2, <2>3, <2>4
    <3> QED
      BY <2>3, <2>4, <3>1
  <2> QED
    BY <2>1, <2>2, <2>3, <2>4 DEF Scheduled
<1>7. ASSUME NEW r \in gone PROVE age'[r] >= 64 * T1
  <2>1. r \in DOMAIN uas.rel /\ uas.rel[r].fire = s
    BY <1>7 DEF Gone
  <2>2. PICK x : x = uas.rel[r].elapsed + uas.rel[r].interval
    OBVIOUS
  <2>3. x \in Int /\ x >= 64 * T1 /\ OddMultiple(x)
    BY <1>5, <1>7, <2>1, <2>2 DEF Gone, abandon_at
  <2>4. x >= 65 * T1
    BY <2>3, OddIsBeyond
  <2>5. Position(uas.rel[r]) + s = x
    BY <1>4, <1>5, <2>1, <2>2 DEF Position
  <2> QED
    BY <1>5, <2>1, <2>3, <2>4, <2>5, TimerAssumption
<1>8. uas.final = "None"
  BY DEF RelInv
<1>9. OneFate'
  <2>1. OneFate
    BY DEF RelInv
  <2>2. \A r \in given : age'[r] >= 64 * T1
    BY <1>2, <2>1, RelTypes DEF OneFate
  <2>3. \A e \in n.ev : e.final = "None"
    BY <1>8 DEF Fired
  <2>4. acked \cup given' \cup DOMAIN n.rel = acked \cup given \cup DOMAIN uas.rel
    BY <1>1, <1>3
  <2>5. acked \cap given' = {} /\ (acked \cup given') \cap DOMAIN n.rel = {}
    BY <1>1, <1>3, <2>1 DEF OneFate
  <2> QED
    BY <1>1, <1>3, <1>7, <1>8, <2>1, <2>2, <2>3, <2>4, <2>5 DEF OneFate
<1> QED
  BY <1>1, <1>2, <1>3, <1>6, <1>8, <1>9 DEF RelInv

LEMMA RelTickInv ==
    ASSUME RelInv, RelTick
    PROVE  RelInv'
<1>1. PICK c : c = Polled(uas)
  OBVIOUS
<1>2. /\ c \in RelTx /\ c.ev = {} /\ c.rel = uas.rel /\ c.armed = uas.armed /\ c.state = uas.state
      /\ c.nextRseq = uas.nextRseq /\ c.final = uas.final
  BY <1>1, PolledRel DEF RelInv
<1>3. /\ uas' = [c EXCEPT !.armed = Elapsed(c.armed)] /\ Due(uas.armed) = {}
      /\ age' = [r \in RSeqs |-> IF r \in DOMAIN uas.rel THEN age[r] + 1 ELSE age[r]]
      /\ acked' = acked /\ given' = given
  BY <1>1 DEF RelTick
<1>4. c.armed \in [ISTimer -> Nat \cup {Off}]
  BY <1>2 DEF RelTx
<1>5. Elapsed(c.armed) \in [ISTimer -> Nat \cup {Off}]
  BY <1>4 DEF Elapsed, Off
<1>6. /\ uas' \in RelTx /\ uas'.ev = {} /\ uas'.rel = uas.rel /\ uas'.state = uas.state
      /\ uas'.armed = Elapsed(c.armed) /\ uas'.nextRseq = uas.nextRseq /\ uas'.final = uas.final
  BY <1>2, <1>3, <1>5 DEF RelTx
<1>7. /\ age' \in [RSeqs -> Nat]
      /\ \A r \in RSeqs : age'[r] >= age[r] /\ age[r] \in Nat /\ age'[r] \in Nat
      /\ \A r \in DOMAIN uas.rel : age'[r] = age[r] + 1
  BY <1>3, RelTypes DEF RelInv
<1>8. ASSUME DOMAIN uas.rel # {}
      PROVE  uas'.armed["N"] \in Nat /\ Scheduled(uas.rel, uas'.armed["N"], age')
  <2>1. uas.armed["N"] \in Nat /\ Scheduled(uas.rel, uas.armed["N"], age)
    BY <1>8 DEF RelInv
  <2>2. uas.armed["N"] > 0
    BY <1>2, <1>3, <1>4, <2>1 DEF Due, ISTimer
  <2>3. uas'.armed["N"] = uas.armed["N"] - 1
    BY <1>2, <1>4, <1>6, <2>2 DEF Elapsed, ISTimer
  <2>4. SoonestFire(uas.rel) \in Nat
    BY <1>8, SoonestFacts, RelTypes
  <2>5. ASSUME NEW r \in DOMAIN uas.rel
        PROVE  /\ Position(uas.rel[r]) <= age'[r] + T1
               /\ Position(uas.rel[r]) + SoonestFire(uas.rel) - uas'.armed["N"] <= age'[r] + T1
    <3>1. Position(uas.rel[r]) \in Int
      BY RelTypes DEF Position, RelEntry
    <3>2. /\ Position(uas.rel[r]) <= age[r] + T1
          /\ Position(uas.rel[r]) + SoonestFire(uas.rel) - uas.armed["N"] <= age[r] + T1
      BY <2>1 DEF Scheduled
    <3>3. age'[r] = age[r] + 1 /\ age[r] \in Nat
      BY <1>7, RelTypes
    <3> QED
      BY <2>1, <2>3, <2>4, <3>1, <3>2, <3>3, TimerAssumption
  <2>6. Scheduled(uas.rel, uas'.armed["N"], age')
    BY <2>1, <2>5 DEF Scheduled
  <2> QED
    BY <2>1, <2>2, <2>3, <2>6
<1>9. OneFate'
  <2>1. OneFate
    BY DEF RelInv
  <2>2. \A r \in given : age'[r] >= 64 * T1
    <3> SUFFICES ASSUME NEW r \in given PROVE age'[r] >= 64 * T1
      OBVIOUS
    <3>1. age[r] >= 64 * T1 /\ age'[r] >= age[r] /\ age[r] \in Nat /\ age'[r] \in Nat
      BY <1>7, <2>1, RelTypes DEF OneFate
    <3> QED
      BY <3>1, TimerAssumption
  <2> QED
    BY <1>3, <1>6, <2>1, <2>2 DEF OneFate
<1> QED
  BY <1>3, <1>6, <1>7, <1>8, <1>9 DEF RelInv

LEMMA RelInitInv ==
    ASSUME RelInit
    PROVE  RelInv
<1>1. /\ uas.rel = << >> /\ uas.nextRseq = 1 /\ uas.final = "None" /\ uas.state = "Proceeding"
      /\ uas.ev = {[type |-> "Request"]}
  BY DEF RelInit, ISNew
<1>2. uas \in RelTx
  <2>1. [t \in ISTimer |-> Off] \in [ISTimer -> Nat \cup {Off}]
    OBVIOUS
  <2>2. {[type |-> "Request"]} \in SUBSET RelEvents /\ NoResp \in Responses /\ timer_g \in Nat
    BY TimerAssumption DEF RelEvents, ISEvent, NoResp, Resp, Responses, timer_g
  <2> QED
    BY <2>1, <2>2, EmptyBuffer DEF RelInit, ISNew, RelTx, ISState, FinalSent
<1>3. DOMAIN uas.rel = {}
  BY <1>1, EmptyBuffer
<1>4. age \in [RSeqs -> Nat] /\ acked = {} /\ given = {}
  BY DEF RelInit
<1>5. 1 .. uas.nextRseq - 1 = {}
  BY <1>1
<1>6. OneFate
  BY <1>1, <1>3, <1>4, <1>5 DEF OneFate
<1> QED
  BY <1>1, <1>2, <1>3, <1>4, <1>6, ReliableAssumption DEF RelInv

LEMMA RelNextInv ==
    ASSUME EvenBackoff, RelInv, RelNext
    PROVE  RelInv'
<1>1. PICK c : c = Polled(uas)
  OBVIOUS
<1>2. uas \in RelTx
  BY DEF RelInv
<1>3. /\ c \in RelTx /\ c.ev = {} /\ c.rel = uas.rel /\ c.armed = uas.armed /\ c.state = uas.state
      /\ c.nextRseq = uas.nextRseq /\ c.final = uas.final
  BY <1>1, <1>2, PolledRel
<1>4. CASE SendReliable
  <2>1. PICK n : n = ISSendProvisionalReliable(c, 180)
    OBVIOUS
  <2>2. RelStep(n) /\ acked' = acked /\ uas.nextRseq \in RSeqs
    BY <1>1, <1>4, <2>1 DEF SendReliable
  <2>3. n \in RelTx /\ (Kept(c, n) \/ Added(c, n))
    BY <1>3, <2>1, ReliableRel
  <2>4. Kept(uas, n) \/ Added(uas, n)
    BY <1>3, <2>3 DEF Kept, Added
  <2> QED
    BY <2>2, <2>3, <2>4, KeptInv, AddedInv
<1>5. ASSUME NEW code \in {200, 486}, SendFinal(code) PROVE RelInv'
  <2>1. PICK n : n = ISSendResponse(c, code, Reliable)
    OBVIOUS
  <2>2. RelStep(n) /\ acked' = acked
    BY <1>1, <1>5, <2>1 DEF SendFinal
  <2>3. n \in RelTx /\ (Kept(c, n) \/ Dropped(c, n))
    BY <1>3, <2>1, FinalRel, ReliableAssumption
  <2>4. Kept(uas, n) \/ Dropped(uas, n)
    BY <1>3, <2>3 DEF Kept, Dropped
  <2> QED
    BY <2>2, <2>3, <2>4, KeptInv, DroppedInv
<1>6. ASSUME NEW x \in RSeqs, PrackArrives(x) PROVE RelInv'
  <2>1. PICK n : n = ISPrackReceived(c, x)
    OBVIOUS
  <2>2. RelStep(n) /\ acked' = IF x \in DOMAIN uas.rel THEN acked \cup {x} ELSE acked
    BY <1>1, <1>6, <2>1 DEF PrackArrives
  <2>3. n \in RelTx /\ IF x \in DOMAIN c.rel THEN Acknowledged(c, n, x) ELSE Kept(c, n)
    BY <1>3, <2>1, PrackRel
  <2>4. CASE x \in DOMAIN uas.rel
    <3>1. Acknowledged(uas, n, x)
      BY <1>3, <2>3, <2>4 DEF Acknowledged
    <3> QED
      BY <2>2, <2>3, <2>4, <3>1, AcknowledgedInv
  <2>5. CASE x \notin DOMAIN uas.rel
    <3>1. Kept(uas, n)
      BY <1>3, <2>3, <2>5 DEF Kept
    <3> QED
      BY <2>2, <2>3, <2>5, <3>1, KeptInv
  <2> QED
    BY <2>4, <2>5
<1>7. ASSUME NEW m \in {"INVITE", "ACK"}, RequestArrives(m) PROVE RelInv'
  <2>1. PICK n : n = ISHandleRequest(c, m, Reliable)
    OBVIOUS
  <2>2. RelStep(n) /\ acked' = acked
    BY <1>1, <1>7, <2>1 DEF RequestArrives
  <2>3. n \in RelTx /\ Kept(c, n)
    BY <1>3, <2>1, RequestRel, ReliableAssumption
  <2>4. Kept(uas, n)
    BY <1>3, <2>3 DEF Kept
  <2> QED
    BY <2>2, <2>3, <2>4, KeptInv
<1>8. ASSUME NEW t \in ISTimer, TimerExpires(t) PROVE RelInv'
  <2>1. PICK d : d = Consumed(uas, t)
    OBVIOUS
  <2>2. /\ d \in RelTx /\ d.ev = {} /\ d.rel = uas.rel /\ d.armed = [uas.armed EXCEPT ![t] = Off]
        /\ d.state = uas.state /\ d.nextRseq = uas.nextRseq /\ d.final = uas.final
    BY <1>2, <2>1, ConsumedRel
  <2>3. PICK n : n = ISHandleTimeout(d, t)
    OBVIOUS
  <2>4. RelStep(n) /\ acked' = acked /\ uas.armed[t] = 0
    BY <1>8, <2>1, <2>3 DEF TimerExpires
  <2>5. CASE t # "N"
    <3>1. n \in RelTx /\ Kept(d, n)
      BY <2>2, <2>3, <2>5, OtherTimerRel
    <3>2. d.armed["N"] = uas.armed["N"]
      BY <1>2, <2>2, <2>5 DEF RelTx, ISTimer
    <3>3. Kept(uas, n)
      BY <2>2, <3>1, <3>2 DEF Kept
    <3> QED
      BY <2>4, <3>1, <3>3, KeptInv
  <2>6. CASE t = "N"
    <3>1. n \in RelTx /\ IF DOMAIN d.rel = {} THEN Kept(d, n) ELSE Fired(d, n)
      BY <2>2, <2>3, <2>6, FiredRel
    <3>2. CASE DOMAIN uas.rel = {}
      <4>1. Kept(uas, n)
        BY <2>2, <3>1, <3>2 DEF Kept
      <4> QED
        BY <2>4, <3>1, <4>1, KeptInv
    <3>3. CASE DOMAIN uas.rel # {}
      BY <2>2, <2>4, <2>6, <3>1, <3>3, FiredInv
    <3> QED
      BY <3>2, <3>3
  <2> QED
    BY <2>5, <2>6
<1>9. CASE TransportFails
  <2>1. PICK n : n = ISHandleTransportError(c)
    OBVIOUS
  <2>2. RelStep(n) /\ acked' = acked
    BY <1>1, <1>9, <2>1 DEF TransportFails
  <2>3. n \in RelTx /\ Kept(c, n)
    BY <1>3, <2>1, ErrorRel
  <2>4. Kept(uas, n)
    BY <1>3, <2>3 DEF Kept
  <2> QED
    BY <2>2, <2>3, <2>4, KeptInv
<1> QED
  BY <1>4, <1>5, <1>6, <1>7, <1>8, <1>9, RelTickInv DEF RelNext

\* Every reliable provisional response has one fate, and none is given up
\* before 64*T1 (transaction/server/invite.rs: send_provisional_reliable,
\* fire_timer_n, PrackReceived, drain_reliable_provisionals), for every number
\* of responses and all timer values with an even backoff.
THEOREM ProvisionalFate ==
    ASSUME EvenBackoff
    PROVE  RelSpec => []OneFate
<1>1. RelInit => RelInv
  BY RelInitInv
<1>2. RelInv /\ [RelNext]_rvars => RelInv'
  <2> SUFFICES ASSUME RelInv, [RelNext]_rvars PROVE RelInv'
    OBVIOUS
  <2>1. CASE RelNext
    BY <2>1, RelNextInv
  <2>2. CASE UNCHANGED rvars
    BY <2>2 DEF rvars, RelInv, OneFate
  <2> QED
    BY <2>1, <2>2
<1>3. RelInv => OneFate
  BY DEF RelInv
<1> QED
  BY <1>1, <1>2, <1>3, PTL DEF RelSpec

=============================================================================
