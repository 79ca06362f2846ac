------------------------- MODULE NonInviteServerTx --------------------------
(***************************************************************************)
(* The non-INVITE server transaction (transaction/server/non_invite.rs).   *)
(* `last' is last_response: the status code last sent, 0 before any.       *)
(***************************************************************************)
EXTENDS TxTimers

NSState == {"Trying", "Proceeding", "Completed", "Terminated"}
NSTimer == {"J"}

\* NonInviteServerTransaction::new: hands the request to the TU.
NSNew == [ state |-> "Trying", last |-> 0, armed |-> [t \in NSTimer |-> Off],
           out |-> {}, ev |-> {"Request"} ]

\* Mutant of send_response: the answered transaction ends at once.
NSSendResponse_EndsAtOnce(tx, code, reliable) ==
    CASE tx.state \in {"Trying", "Proceeding"} /\ Provisional(code) ->
            [tx EXCEPT !.state = "Proceeding", !.last = code, !.out = {code}]
      [] tx.state \in {"Trying", "Proceeding"} /\ code >= 200 ->
            [tx EXCEPT !.state = "Terminated", !.last = code, !.out = {code}]
      [] OTHER -> tx

\* Mutant: a second answer is sent too.
NSSendResponse_Again(tx, code, reliable) ==
    CASE tx.state # "Terminated" /\ Provisional(code) ->
            [tx EXCEPT !.state = "Proceeding", !.last = code, !.out = {code}]
      [] tx.state # "Terminated" /\ code >= 200 ->
            [tx EXCEPT !.state = IF reliable THEN "Terminated" ELSE "Completed",
                       !.last = code, !.out = {code},
                       !.armed["J"] = IF reliable THEN Off ELSE timer_j(reliable)]
      [] OTHER -> tx

\* handle_timeout
NSHandleTimeout(tx, t) ==
    IF tx.state = "Completed" /\ t = "J" THEN [tx EXCEPT !.state = "Terminated"] ELSE tx

\* handle_request: a retransmission is answered with the last response.
NSHandleRequest(tx) ==
    IF tx.state \in {"Proceeding", "Completed"} /\ tx.last # 0
    THEN [tx EXCEPT !.out = {tx.last}]
    ELSE tx

\* send_response
NSSendResponse(tx, code, reliable) ==
    CASE tx.state \in {"Trying", "Proceeding"} /\ Provisional(code) ->
            [tx EXCEPT !.state = "Proceeding", !.last = code, !.out = {code}]
      [] tx.state \in {"Trying", "Proceeding"} /\ code >= 200 ->
            [tx EXCEPT !.state = IF timer_j(reliable) = 0 THEN "Terminated" ELSE "Completed",
                       !.last = code,
                       !.armed["J"] = IF timer_j(reliable) = 0 THEN @ ELSE timer_j(reliable),
                       !.out = {code}]
      [] OTHER -> tx

\* handle_transport_error
NSHandleTransportError(tx) ==
    IF tx.state # "Terminated"
    THEN [tx EXCEPT !.state = "Terminated", !.ev = {"TransportError"}]
    ELSE tx
=============================================================================
