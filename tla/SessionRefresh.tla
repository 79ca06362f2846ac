-------------------------- MODULE SessionRefresh ----------------------------
(***************************************************************************)
(* The RFC 4028 session timer between two users of CallManager: the UAC    *)
(* and the UAS of one established call, each with the Call of its own side *)
(* (module Call), the in-dialog requests between them and time.            *)
(*                                                                         *)
(* Each application does what the documentation of CallManager asks for:   *)
(* it wakes at next_deadline and calls tick, sends what tick queued, sets  *)
(* uac_in_flight while a transaction of its own is open, and hands the     *)
(* outcome back (mark_in_dialog_2xx, note_update_unsupported).  A message  *)
(* arrives within MaxDelay, retransmissions included, or never; then the   *)
(* client transaction gives up after TimerF.  A side may go silent.        *)
(*                                                                         *)
(* CSeq numbers are left to module CallManager.                            *)
(***************************************************************************)
EXTENDS Call, FiniteSets

CONSTANTS
    SE,           \* negotiated Session-Expires
    MinSE,        \* Min-SE of either side
    MaxDelay,     \* bound on the time a message is under way
    TimerF        \* time after which a client transaction gives up

\* A request that waits half an interval still arrives within the interval.
ASSUME RefreshAssumption ==
    /\ SE \in Nat /\ MinSE \in Nat /\ MaxDelay \in Nat /\ TimerF \in Nat
    /\ SE % 2 = 0 /\ MinSE <= SE
    /\ 0 < MaxDelay /\ 2 * MaxDelay < SE \div 2 /\ 2 * MaxDelay <= TimerF

Party == {"uac", "uas"}
Peer(p) == IF p = "uac" THEN "uas" ELSE "uac"

VARIABLES
    call,        \* the Call of each side
    answer200,   \* age of the 200 OK to the INVITE on its way, or Unset
    req,         \* request each side has open: [kind, at, age, code]
    bye,         \* sides whose BYE is on its way
    supports,    \* sides that implement UPDATE; only the one that does not refresh is asked
    silent,      \* sides that have stopped
    failed,      \* a request was refused or lost since the last success
    expired      \* sides that have ended the call for want of a refresh

srvars == <<call, answer200, req, bye, supports, silent, failed, expired>>

Idle    == [kind |-> "none", at |-> "none", age |-> 0, code |-> 0]
Live(p)  == p \notin silent
Fail     == failed' = TRUE
Numberless(c) == [c EXCEPT !.local_cseq = 0]

\* The UAS has sent its 200 OK (answer_call, accept_session_timer); who
\* refreshes was decided by evaluate_inbound_invite_session_timer.
SrInit ==
    /\ \E timer \in BOOLEAN :
         LET v == evaluate_inbound_invite_session_timer(SE, MinSE, timer)
         IN  call = [p \in Party |->
                IF p = "uac" THEN [new_outbound EXCEPT !.refresher = v.refresher]
                ELSE CallAcceptSessionTimer(
                       handle_answer(set_negotiated_media(populate(new_inbound(<<1>>, 0), "uas"), 0)),
                       v.session_expires, v.refresher)]
    /\ answer200 = 0
    /\ req = [p \in Party |-> Idle]
    /\ bye = {} /\ silent = {} /\ failed = FALSE /\ expired = {}
    /\ supports \in {{}, Party}

\* The 200 OK arrives: handle_invite_success on the UAC's side.  It carries the
\* Session-Expires and the refresher the UAS has chosen.
Answered ==
    /\ answer200 # Unset /\ Live("uac")
    /\ call' = [call EXCEPT !["uac"] =
          apply_invite_2xx_session_timer(
             handle_answer(set_negotiated_media(
                populate(set_dialog(call["uac"], <<1>>, 0), "uac"), 0)),
             SE, call["uac"].refresher)]
    /\ answer200' = Unset
    /\ UNCHANGED <<req, bye, supports, silent, failed, expired>>

\* The event loop wakes at next_deadline: tick, then drain_outbound_requests
\* and set_uac_in_flight for a refresh.
Wake(p) ==
    /\ Live(p)
    /\ RefreshDue(call[p]) \/ ExpiryDue(call[p])
    /\ call' = [call EXCEPT ![p] =
          LET c == Numberless(CallTick(call[p]))
          IN  IF RefreshDue(call[p]) THEN [c EXCEPT !.uac_in_flight = TRUE] ELSE c]
    /\ req' = IF RefreshDue(call[p])
              THEN [req EXCEPT ![p] = [kind |-> RefreshKind(call[p]), at |-> "peer",
                                       age |-> 0, code |-> 0]]
              ELSE req
    /\ bye' = IF ExpiryDue(call[p]) THEN bye \cup {p} ELSE bye
    /\ expired' = IF ExpiryDue(call[p]) THEN expired \cup {p} ELSE expired
    /\ UNCHANGED <<answer200, supports, silent, failed>>

\* The application puts the call on hold or resumes it with a re-INVITE.
Hold(p) ==
    /\ Live(p) /\ call[p].state = "Established" /\ ~call[p].uac_in_flight
    /\ answer200 = Unset
    /\ call' = [call EXCEPT ![p].uac_in_flight = TRUE]
    /\ req' = [req EXCEPT ![p] = [kind |-> "Hold", at |-> "peer", age |-> 0, code |-> 0]]
    /\ UNCHANGED <<answer200, bye, supports, silent, failed, expired>>

-----------------------------------------------------------------------------
(* The request of side p at its peer, and the answer back at p.            *)

AnswerBack(p, code) == req' = [req EXCEPT ![p].at = "back", ![p].age = 0, ![p].code = code]

\* handle_inbound_update, or slide_deadlines_for_dialog with the 2xx to a
\* re-INVITE.
Accept(p) ==
    LET q == Peer(p)
    IN  /\ req[p].at = "peer" /\ Live(q)
        /\ call[q].dialog # NoDialog
        /\ req[p].kind = "SessionTimerUpdate" => q \in supports
        /\ call' = [call EXCEPT ![q] = IF req[p].kind = "SessionTimerUpdate"
                                       THEN CallHandleUpdate(call[q], SE, MinSE)
                                       ELSE slide_deadlines(call[q])]
        /\ AnswerBack(p, 200)
        /\ UNCHANGED <<answer200, bye, supports, silent, failed, expired>>

\* 405 without UPDATE, 481 once the call is gone, 491 while the peer has a
\* request of its own open.
Refuse(p) ==
    LET q == Peer(p)
    IN  /\ req[p].at = "peer" /\ Live(q)
        /\ \/ req[p].kind = "SessionTimerUpdate" /\ q \notin supports /\ AnswerBack(p, 405)
           \/ (call[q].state \in Ended \/ call[q].dialog = NoDialog) /\ AnswerBack(p, 481)
           \/ req[q].kind # "none" /\ AnswerBack(p, 491)
        /\ Fail
        /\ UNCHANGED <<call, answer200, bye, supports, silent, expired>>

Lose(p) ==
    /\ req[p].at \in {"peer", "back"}
    /\ req' = [req EXCEPT ![p].at = "lost", ![p].age = 0]
    /\ Fail
    /\ UNCHANGED <<call, answer200, bye, supports, silent, expired>>

\* The answer: mark_in_dialog_2xx, note_update_unsupported, set_uac_in_flight.
Complete(p) ==
    /\ req[p].at = "back" /\ Live(p)
    /\ call' = [call EXCEPT ![p] =
          LET c == IF req[p].code = 200 THEN slide_deadlines(call[p]) ELSE call[p]
          IN  [c EXCEPT !.uac_in_flight = FALSE,
                        !.update_unsupported = c.update_unsupported \/ req[p].code = 405]]
    /\ failed' = (failed /\ req[p].code # 200)
    /\ req' = [req EXCEPT ![p] = Idle]
    /\ UNCHANGED <<answer200, bye, supports, silent, expired>>

\* Timer F of the client transaction.
GiveUp(p) ==
    /\ req[p].at = "lost" /\ req[p].age = TimerF /\ Live(p)
    /\ call' = [call EXCEPT ![p].uac_in_flight = FALSE]
    /\ req' = [req EXCEPT ![p] = Idle]
    /\ UNCHANGED <<answer200, bye, supports, silent, failed, expired>>

\* The BYE of side p arrives: handle_bye.
ByeArrives(p) ==
    /\ p \in bye
    /\ bye' = bye \ {p}
    /\ call' = IF Live(Peer(p)) THEN [call EXCEPT ![Peer(p)] = handle_ended(@)] ELSE call
    /\ UNCHANGED <<answer200, req, supports, silent, failed, expired>>

GoSilent(p) ==
    /\ silent = {} /\ silent' = {p}
    /\ UNCHANGED <<call, answer200, req, bye, supports, failed, expired>>

-----------------------------------------------------------------------------
(* Time.                                                                   *)

\* A request at a silent side is lost; nobody waits there either.
Urgent ==
    \/ \E p \in Party : Live(p) /\ (RefreshDue(call[p]) \/ ExpiryDue(call[p]))
    \/ answer200 = MaxDelay /\ Live("uac")
    \/ bye # {}
    \/ \E p \in Party : \/ req[p].at \in {"peer", "back"} /\ req[p].age = MaxDelay
                        \/ req[p].at = "lost" /\ req[p].age = TimerF /\ Live(p)

Older(n, max) == IF n < max THEN n + 1 ELSE n

Elapse ==
    /\ ~Urgent
    /\ call' = [p \in Party |-> IF Live(p) THEN CallElapse(call[p]) ELSE call[p]]
    /\ answer200' = IF answer200 = Unset THEN Unset ELSE Older(answer200, MaxDelay)
    /\ req' = [p \in Party |-> IF req[p].at = "none" THEN req[p]
                               ELSE [req[p] EXCEPT !.age = Older(@, TimerF)]]
    /\ UNCHANGED <<bye, supports, silent, failed, expired>>

SrNext ==
    \/ Answered
    \/ Elapse
    \/ \E p \in Party : \/ Wake(p) \/ Hold(p)
                        \/ Accept(p) \/ Refuse(p) \/ Lose(p)
                        \/ Complete(p) \/ GiveUp(p)
                        \/ ByeArrives(p) \/ GoSilent(p)

SrSpec == SrInit /\ [][SrNext]_srvars

\* The applications run their loops, and time passes.
SrFairSpec == SrSpec /\ WF_srvars(Elapse) /\ WF_srvars(Answered)
                     /\ \A p \in Party : /\ WF_srvars(Wake(p))
                                         /\ WF_srvars(Complete(p) \/ GiveUp(p))
                                         /\ WF_srvars(Accept(p) \/ Refuse(p) \/ Lose(p))
                                         /\ WF_srvars(ByeArrives(p))

-----------------------------------------------------------------------------
\* The two sides agree on who refreshes: while both have the call up, exactly
\* one of them holds refresh_at and the other one holds expiry_at ("Two
\* deadlines per call, never both").
OneRefresher ==
    (\A p \in Party : call[p].state = "Established") =>
        \E p \in Party : /\ call[p].refresh_at # Unset /\ call[p].expiry_at = Unset
                         /\ call[Peer(p)].expiry_at # Unset /\ call[Peer(p)].refresh_at = Unset

\* A call whose refreshes are answered is never cut off: maybe_fire_expiry_bye
\* acts only when the refresher has gone silent or a request has failed since
\* the last successful one.
AnsweredCallsStayUp ==
    [][expired' # expired => failed \/ silent # {}]_srvars

\* A side whose peer should refresh does not keep the call up for ever when
\* the peer has gone silent ("Non-refresher protection", maybe_fire_expiry_bye).
SilenceEndsTheCall ==
    []<>(\A p \in Party : Peer(p) \in silent /\ call[p].refresher = Peer(p)
                             => call[p].state # "Established")
=============================================================================
