--------------------------- MODULE InviteServerTx ---------------------------
(***************************************************************************)
(* The INVITE server transaction (transaction/server/invite.rs) with its   *)
(* reliable provisional responses (RFC 3262).                              *)
(*                                                                         *)
(* A response on the wire is [code, rseq]; rseq is 0 when it carries no    *)
(* RSeq header.  `last' is last_response (None before any), `rel' maps the *)
(* RSeq of each outstanding reliable provisional to its schedule.          *)
(***************************************************************************)
EXTENDS TxTimers, FiniteSetsExt

ISState == {"Proceeding", "Completed", "Confirmed", "Terminated"}
ISTimer == {"G", "H", "I", "N"}
ISEvent == {[type |-> ty] : ty \in {"Request", "AckReceived", "Timeout", "TransportError"}}
FinalSent == {"None", "NonTwoXx", "TwoXx"}

Resp(code, rseq) == [code |-> code, rseq |-> rseq]
NoResp == Resp(0, 0)

\* InviteServerTransaction::new: hands the INVITE to the TU, sends nothing.
ISNew ==
    [ state    |-> "Proceeding",
      interval |-> timer_g,
      last     |-> NoResp,
      nextRseq |-> 1,
      rel      |-> << >>,
      final    |-> "None",
      armed    |-> [t \in ISTimer |-> Off],
      out      |-> {},
      ev       |-> {[type |-> "Request"]} ]

Resend(tx) == IF tx.last = NoResp THEN {} ELSE {tx.last}

-----------------------------------------------------------------------------
(* Reliable provisionals: one Timer N for the whole buffer.                *)

\* ReliableProvisional.abandon_at
abandon_at == 64 * T1

SoonestFire(rel) == Min({rel[r].fire : r \in DOMAIN rel})

\* drain_reliable_provisionals
Drained(tx) ==
    IF DOMAIN tx.rel = {} THEN tx
    ELSE [tx EXCEPT !.rel = << >>, !.armed["N"] = Off]

\* fire_timer_n: the soonest entry's delay is taken off every entry; the ones
\* that reach zero are sent again, or given up once 64*T1 of schedule passed.
FireTimerN(tx) ==
    IF DOMAIN tx.rel = {} THEN tx
    ELSE LET dueIn == SoonestFire(tx.rel)
             due   == {r \in DOMAIN tx.rel : tx.rel[r].fire = dueIn}
             spent(r) == tx.rel[r].elapsed + tx.rel[r].interval
             gone  == {r \in due : spent(r) >= abandon_at}
             again(r) == next_retransmit(tx.rel[r].interval)
             left  == [r \in DOMAIN tx.rel \ gone |->
                         IF r \in due
                         THEN [tx.rel[r] EXCEPT !.elapsed = spent(r),
                                                !.interval = again(r), !.fire = again(r)]
                         ELSE [tx.rel[r] EXCEPT !.fire = tx.rel[r].fire - dueIn]]
         IN  [tx EXCEPT !.rel = left,
                        !.out = {tx.rel[r].resp : r \in due \ gone},
                        !.ev = {[type |-> "PrackTimeout", rseq |-> r, final |-> tx.final]
                                   : r \in gone},
                        !.armed["N"] = IF DOMAIN left = {} THEN @ ELSE SoonestFire(left)]

\* Mutant: RSeq is not advanced while another provisional is outstanding.
ISSendProvisionalReliable_SameRseq(tx, code) ==
    IF tx.state # "Proceeding" THEN tx
    ELSE LET resp  == Resp(code, tx.nextRseq)
             entry == [resp |-> resp, fire |-> T1, interval |-> T1, elapsed |-> 0]
         IN  [tx EXCEPT !.rel = [r \in DOMAIN @ \cup {tx.nextRseq} |->
                                    IF r = tx.nextRseq THEN entry ELSE @[r]],
                        !.last = resp,
                        !.out = {resp},
                        !.armed["N"] = IF DOMAIN tx.rel = {} THEN T1 ELSE @]

\* send_provisional_reliable: an entry added to a buffer that is not empty
\* waits for the Timer N that is already running.
ISSendProvisionalReliable(tx, code) ==
    IF tx.state # "Proceeding" THEN tx
    ELSE LET resp  == Resp(code, tx.nextRseq)
             entry == [resp |-> resp, fire |-> T1, interval |-> T1, elapsed |-> 0]
         IN  [tx EXCEPT !.nextRseq = @ + 1,
                        !.rel = [r \in DOMAIN @ \cup {tx.nextRseq} |->
                                    IF r = tx.nextRseq THEN entry ELSE @[r]],
                        !.last = resp,
                        !.out = {resp},
                        !.armed["N"] = IF DOMAIN tx.rel = {} THEN T1 ELSE @]

\* handle_event(PrackReceived(rseq)): drop the entry, reschedule Timer N.
ISPrackReceived(tx, rseq) ==
    IF rseq \notin DOMAIN tx.rel THEN tx
    ELSE LET left == Restrict(tx.rel, DOMAIN tx.rel \ {rseq})
         IN  [tx EXCEPT !.rel = left,
                        !.armed["N"] = IF DOMAIN left = {} THEN Off ELSE SoonestFire(left)]

-----------------------------------------------------------------------------
\* handle_timeout
ISHandleTimeout(tx, t) ==
    CASE tx.state = "Completed" /\ t = "G" ->
            LET next == next_retransmit(tx.interval)
            IN  [tx EXCEPT !.out = Resend(tx), !.interval = next, !.armed["G"] = next]
      [] tx.state = "Completed" /\ t = "H" ->
            [tx EXCEPT !.state = "Terminated", !.ev = {[type |-> "Timeout"]}]
      [] tx.state = "Confirmed" /\ t = "I" -> [tx EXCEPT !.state = "Terminated"]
      [] t = "N" -> FireTimerN(tx)
      [] OTHER -> tx

\* handle_request: a retransmitted INVITE or an ACK.
ISHandleRequest(tx, method, reliable) ==
    CASE tx.state \in {"Proceeding", "Completed"} /\ method = "INVITE" ->
            [tx EXCEPT !.out = Resend(tx)]
      [] tx.state = "Completed" /\ method = "ACK" ->
            [tx EXCEPT !.state = IF timer_i(reliable) = 0 THEN "Terminated" ELSE "Confirmed",
                       !.armed["G"] = IF reliable THEN @ ELSE Off,
                       !.armed["H"] = Off,
                       !.armed["I"] = IF timer_i(reliable) = 0 THEN @ ELSE timer_i(reliable),
                       !.ev = {[type |-> "AckReceived"]}]
      [] OTHER -> tx

\* Mutant: a 2xx leaves the transaction in Proceeding.
ISSendResponse_StaysOn2xx(tx, code, reliable) ==
    CASE tx.state = "Proceeding" /\ Provisional(code) ->
            [tx EXCEPT !.last = Resp(code, 0), !.out = {Resp(code, 0)}]
      [] tx.state = "Proceeding" /\ Success(code) ->
            [Drained(tx) EXCEPT !.final = "TwoXx", !.out = {Resp(code, 0)}]
      [] tx.state = "Proceeding" /\ Failure(code) ->
            [Drained(tx) EXCEPT !.final = "NonTwoXx", !.state = "Completed",
                                !.last = Resp(code, 0), !.out = {Resp(code, 0)},
                                !.armed["G"] = IF reliable THEN @ ELSE tx.interval,
                                !.armed["H"] = timer_h]
      [] OTHER -> tx

\* send_response
ISSendResponse(tx, code, reliable) ==
    CASE tx.state = "Proceeding" /\ Provisional(code) ->
            [tx EXCEPT !.last = Resp(code, 0), !.out = {Resp(code, 0)}]
      [] tx.state = "Proceeding" /\ Success(code) ->
            [Drained(tx) EXCEPT !.final = "TwoXx", !.state = "Terminated",
                                !.out = {Resp(code, 0)}]
      [] tx.state = "Proceeding" /\ Failure(code) ->
            [Drained(tx) EXCEPT !.final = "NonTwoXx", !.state = "Completed",
                                !.last = Resp(code, 0), !.out = {Resp(code, 0)},
                                !.armed["G"] = IF reliable THEN @ ELSE tx.interval,
                                !.armed["H"] = timer_h]
      [] OTHER -> tx

\* handle_transport_error; timers and buffered provisionals are left as they are.
ISHandleTransportError(tx) ==
    IF tx.state \in {"Proceeding", "Completed"}
    THEN [tx EXCEPT !.state = "Terminated", !.ev = {[type |-> "TransportError"]}]
    ELSE tx
=============================================================================
