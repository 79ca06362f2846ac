--------------------------- MODULE InviteClientTx ---------------------------
(***************************************************************************)
(* The INVITE client transaction (transaction/client/invite.rs), a state   *)
(* machine without I/O: every operator takes the transaction and an input  *)
(* and gives the transaction after the call.                               *)
(***************************************************************************)
EXTENDS TxTimers

ICState == {"Calling", "Proceeding", "Completed", "Terminated"}
ICTimer == {"A", "B", "D"}
ICEvent == {"Provisional", "Success", "Failure", "Timeout", "TransportError"}

ICTx == [ state    : ICState,
          interval : Nat,
          armed    : [ICTimer -> Nat \cup {Off}],
          out      : SUBSET {"INVITE", "ACK"},
          ev       : SUBSET ICEvent ]

\* InviteClientTransaction::new: sends the INVITE, starts A (unreliable) and B.
ICNew(reliable) ==
    [ state    |-> "Calling",
      interval |-> timer_a,
      armed    |-> [t \in ICTimer |-> CASE t = "A" -> IF reliable THEN Off ELSE timer_a
                                        [] t = "B" -> timer_b
                                        [] t = "D" -> Off],
      out      |-> {"INVITE"},
      ev       |-> {} ]

ICTimeout(tx) == [tx EXCEPT !.state = "Terminated", !.ev = {"Timeout"}]

\* handle_timeout
ICHandleTimeout(tx, t) ==
    CASE tx.state = "Calling" /\ t = "A" ->
            LET next == next_retransmit(tx.interval)
            IN  [tx EXCEPT !.out = {"INVITE"}, !.interval = next, !.armed["A"] = next]
      [] tx.state = "Calling" /\ t = "B" -> ICTimeout(tx)
      [] tx.state = "Proceeding" /\ t = "B" -> ICTimeout(tx)
      [] tx.state = "Completed" /\ t = "D" -> [tx EXCEPT !.state = "Terminated"]
      [] OTHER -> tx

\* Mutants of the 3xx-6xx branch: Timer D is not started; the user is not told.
ICFail_NoTimerD(tx, reliable) ==
    [tx EXCEPT !.state = IF reliable THEN "Terminated" ELSE "Completed",
               !.armed["A"] = Off, !.armed["B"] = Off,
               !.out = {"ACK"}, !.ev = {"Failure"}]

ICFail_Silent(tx, reliable) ==
    [tx EXCEPT !.state = IF reliable THEN "Terminated" ELSE "Completed",
               !.armed["A"] = Off, !.armed["B"] = Off,
               !.armed["D"] = IF reliable THEN @ ELSE timer_d(reliable),
               !.out = {"ACK"}]

\* The 3xx-6xx branch of handle_response in Calling and Proceeding: ACK, tell
\* the TU, and wait for Timer D unless it is zero (reliable transport).
ICFail(tx, reliable) ==
    [tx EXCEPT !.state = IF timer_d(reliable) = 0 THEN "Terminated" ELSE "Completed",
               !.armed["A"] = IF tx.state = "Calling" THEN Off ELSE @,
               !.armed["B"] = Off,
               !.armed["D"] = IF timer_d(reliable) = 0 THEN @ ELSE timer_d(reliable),
               !.out = {"ACK"},
               !.ev = {"Failure"}]

\* handle_response
ICHandleResponse(tx, code, reliable) ==
    CASE tx.state = "Calling" /\ Provisional(code) ->
            [tx EXCEPT !.state = "Proceeding", !.ev = {"Provisional"},
                       !.armed["A"] = IF reliable THEN @ ELSE Off]
      [] tx.state = "Proceeding" /\ Provisional(code) ->
            [tx EXCEPT !.ev = {"Provisional"}]
      [] tx.state = "Calling" /\ Success(code) ->
            [tx EXCEPT !.state = "Terminated", !.ev = {"Success"},
                       !.armed["A"] = Off, !.armed["B"] = Off]
      [] tx.state = "Proceeding" /\ Success(code) ->
            [tx EXCEPT !.state = "Terminated", !.ev = {"Success"}, !.armed["B"] = Off]
      [] tx.state \in {"Calling", "Proceeding"} /\ Failure(code) -> ICFail(tx, reliable)
      [] tx.state = "Completed" /\ Failure(code) -> [tx EXCEPT !.out = {"ACK"}]
      \* A 2xx of another fork still reaches the TU (RFC 3261 13.2.2.4).
      [] tx.state = "Terminated" /\ Success(code) -> [tx EXCEPT !.ev = {"Success"}]
      [] OTHER -> tx

\* handle_transport_error; the running timers are not cancelled.
ICHandleTransportError(tx) ==
    IF tx.state \in {"Calling", "Proceeding"}
    THEN [tx EXCEPT !.state = "Terminated", !.ev = {"TransportError"}]
    ELSE tx
=============================================================================
