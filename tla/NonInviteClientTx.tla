------------------------- MODULE NonInviteClientTx --------------------------
(***************************************************************************)
(* The non-INVITE client transaction (transaction/client/non_invite.rs).   *)
(***************************************************************************)
EXTENDS TxTimers

NCState == {"Trying", "Proceeding", "Completed", "Terminated"}
NCTimer == {"E", "F", "K"}

\* NonInviteClientTransaction::new
NCNew(reliable) ==
    [ state    |-> "Trying",
      interval |-> timer_e,
      armed    |-> [t \in NCTimer |-> CASE t = "E" -> IF reliable THEN Off ELSE timer_e
                                        [] t = "F" -> timer_f
                                        [] t = "K" -> Off],
      out      |-> {"REQUEST"},
      ev       |-> {} ]

\* handle_timeout
NCHandleTimeout(tx, t) ==
    CASE tx.state \in {"Trying", "Proceeding"} /\ t = "E" ->
            LET next == next_retransmit(tx.interval)
            IN  [tx EXCEPT !.out = {"REQUEST"}, !.interval = next, !.armed["E"] = next]
      [] tx.state \in {"Trying", "Proceeding"} /\ t = "F" ->
            [tx EXCEPT !.state = "Terminated", !.ev = {"Timeout"}]
      [] tx.state = "Completed" /\ t = "K" -> [tx EXCEPT !.state = "Terminated"]
      [] OTHER -> tx

\* Mutant: Timer K is not started.
NCHandleResponse_NoTimerK(tx, code, reliable) ==
    CASE tx.state \in {"Trying", "Proceeding"} /\ Provisional(code) ->
            [tx EXCEPT !.state = "Proceeding", !.ev = {"Provisional"}]
      [] tx.state \in {"Trying", "Proceeding"} /\ code >= 200 ->
            [tx EXCEPT !.state = IF reliable THEN "Terminated" ELSE "Completed",
                       !.armed["E"] = Off, !.armed["F"] = Off, !.ev = {"FinalResponse"}]
      [] OTHER -> tx

\* handle_response: Trying and Proceeding treat a final response alike.
NCHandleResponse(tx, code, reliable) ==
    CASE tx.state \in {"Trying", "Proceeding"} /\ Provisional(code) ->
            [tx EXCEPT !.state = "Proceeding", !.ev = {"Provisional"}]
      [] tx.state \in {"Trying", "Proceeding"} /\ code >= 200 ->
            [tx EXCEPT !.state = IF timer_k(reliable) = 0 THEN "Terminated" ELSE "Completed",
                       !.armed["E"] = IF reliable THEN @ ELSE Off,
                       !.armed["F"] = Off,
                       !.armed["K"] = IF timer_k(reliable) = 0 THEN @ ELSE timer_k(reliable),
                       !.ev = {"FinalResponse"}]
      [] OTHER -> tx

\* handle_transport_error
NCHandleTransportError(tx) ==
    IF tx.state \in {"Trying", "Proceeding"}
    THEN [tx EXCEPT !.state = "Terminated", !.ev = {"TransportError"}]
    ELSE tx
=============================================================================
