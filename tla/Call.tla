-------------------------------- MODULE Call --------------------------------
(***************************************************************************)
(* One SIP call (session/call.rs) and what CallManager does to a single    *)
(* call (session/manager.rs): state, dialog, media, deferred answer and    *)
(* the RFC 4028 session timer.  Every operator takes the call and gives    *)
(* the call after the operation.                                           *)
(*                                                                         *)
(* Deadlines are kept as the time left to them: refresh_at and expiry_at   *)
(* are 0 when they are due and Unset when there is none.  Of the dialog    *)
(* the identifier, the local CSeq and whether the routing fields (route    *)
(* set, remote target, contact) are filled in are kept; of the media       *)
(* session its port and whether it is active.                              *)
(***************************************************************************)
EXTENDS Integers

Unset    == -1
NoDialog == << >>

\* CallState; `Inviting' is never entered.
CallState == {"Idle", "Ringing", "EarlyMedia", "Established", "Terminating", "Terminated"}
Refresher == {"uac", "uas"}
Ended     == {"Terminating", "Terminated"}

\* What an SDP body allows: a codec with a media session, a codec that
\* SessionCodec does not implement, or no codec in common.
Sdp == {"good", "badcodec", "nomedia"}

CallRec(DialogIds, Ports) ==
    [ state              : CallState,
      direction          : {"Outbound", "Inbound"},
      dialog             : DialogIds \cup {NoDialog},
      local_cseq         : Nat,
      routed             : BOOLEAN,
      media              : {"none", "active", "stopped"},
      port               : Ports,
      pending            : {"none", "good", "badcodec"},
      session_expires    : Nat \cup {Unset},
      refresher          : Refresher \cup {"none"},
      refresh_at         : Nat \cup {Unset},
      expiry_at          : Nat \cup {Unset},
      update_unsupported : BOOLEAN,
      uac_in_flight      : BOOLEAN ]

-----------------------------------------------------------------------------
(* Constructors.                                                           *)

NewCall(state, direction, dialog, cseq, pending) ==
    [ state |-> state, direction |-> direction,
      dialog |-> dialog, local_cseq |-> cseq, routed |-> FALSE,
      media |-> "none", port |-> 0, pending |-> pending,
      session_expires |-> Unset, refresher |-> "none",
      refresh_at |-> Unset, expiry_at |-> Unset,
      update_unsupported |-> FALSE, uac_in_flight |-> FALSE ]

new_outbound == NewCall("Idle", "Outbound", NoDialog, 0, "none")

\* Call::new_inbound, Call::new_inbound_pending and Dialog::new_uas.
new_inbound(dialog, cseq) == NewCall("Ringing", "Inbound", dialog, cseq, "none")

new_inbound_pending(dialog, cseq, sdp) == NewCall("Ringing", "Inbound", dialog, cseq, sdp)

\* Call::set_dialog: the identifier, the CSeq and the routing are replaced.
set_dialog(c, dialog, cseq) ==
    [c EXCEPT !.dialog = dialog, !.local_cseq = cseq, !.routed = FALSE]

\* Dialog::populate_uac_from_response and populate_uas_from_invite, the message
\* carrying a Contact.
populate(c, role) ==
    IF c.dialog # NoDialog /\ (c.direction = "Outbound") = (role = "uac")
    THEN [c EXCEPT !.routed = TRUE] ELSE c

-----------------------------------------------------------------------------
(* State changes.                                                          *)

\* set_negotiated_media and MediaSession::set_remote, where they succeed (sdp
\* is "good").
set_negotiated_media(c, port) == [c EXCEPT !.media = "active", !.port = port]

\* Call::handle_provisional
CallHandleProvisional(c, has_sdp) ==
    [c EXCEPT !.state = IF has_sdp THEN "EarlyMedia" ELSE "Ringing"]

handle_answer(c) == [c EXCEPT !.state = "Established"]

handle_ended(c) ==
    [c EXCEPT !.state = "Terminated",
              !.media = IF @ = "none" THEN "none" ELSE "stopped"]

take_pending_answer(c) == [c EXCEPT !.pending = "none"]

-----------------------------------------------------------------------------
(* Session timer.                                                          *)

\* Mutant: the refresher waits for the whole interval.
set_session_timer_Whole(c, se, refresher, we) ==
    [c EXCEPT !.session_expires = se, !.refresher = refresher,
              !.refresh_at = IF refresher = we THEN se ELSE Unset,
              !.expiry_at  = IF refresher = we THEN Unset ELSE se]

\* The common part of apply_invite_2xx_session_timer (we are the UAC) and
\* accept_session_timer (we are the UAS).
set_session_timer(c, se, refresher, we) ==
    [c EXCEPT !.session_expires = se, !.refresher = refresher,
              !.refresh_at = IF refresher = we THEN se \div 2 ELSE Unset,
              !.expiry_at  = IF refresher = we THEN Unset ELSE se]

\* apply_invite_2xx_session_timer: `refresher' is "none" when the peer left the
\* parameter out.
apply_invite_2xx_session_timer(c, se, refresher) ==
    IF se = Unset THEN c
    ELSE set_session_timer(c, se, IF refresher = "none" THEN "uac" ELSE refresher, "uac")

\* Mutant: the UAS takes the part of the UAC.
CallAcceptSessionTimer_AsUac(c, se, refresher) == set_session_timer(c, se, refresher, "uac")

\* accept_session_timer
CallAcceptSessionTimer(c, se, refresher) == set_session_timer(c, se, refresher, "uas")

\* evaluate_inbound_invite_session_timer
evaluate_inbound_invite_session_timer(se, min_se, supports_timer) ==
    CASE se = Unset  -> [verdict |-> "Disabled"]
      [] se # Unset /\ se < min_se -> [verdict |-> "Reject422"]
      [] OTHER -> [verdict |-> "Accept", session_expires |-> se,
                   refresher |-> IF supports_timer THEN "uac" ELSE "uas"]

slide_deadlines(c) ==
    IF c.session_expires = Unset THEN c
    ELSE [c EXCEPT !.refresh_at = IF @ = Unset THEN Unset ELSE c.session_expires \div 2,
                   !.expiry_at  = IF @ = Unset THEN Unset ELSE c.session_expires]

\* handle_inbound_update on the call: 422 leaves it alone.
CallHandleUpdate(c, se, min_se) ==
    CASE se = Unset -> slide_deadlines(c)
      [] se # Unset /\ se < min_se -> c
      [] OTHER -> slide_deadlines([c EXCEPT !.session_expires = se])

-----------------------------------------------------------------------------
(* tick on one call: maybe_fire_refresh, then maybe_fire_expiry_bye.       *)

RefreshDue(c) ==
    /\ c.state = "Established"
    /\ c.refresh_at = 0
    /\ ~c.uac_in_flight
    /\ c.dialog # NoDialog
    /\ c.session_expires # Unset

ExpiryDue(c) ==
    /\ c.state = "Established"
    /\ c.expiry_at = 0
    /\ c.dialog # NoDialog

\* Mutant: the deadline does not move until the 2xx arrives.
maybe_fire_refresh_NoSlide(c) ==
    IF RefreshDue(c) THEN [c EXCEPT !.local_cseq = @ + 1] ELSE c

\* maybe_fire_refresh, build_update_request, build_reinvite_refresh_request:
\* next CSeq, and the deadline slides before the answer is known.
maybe_fire_refresh(c) ==
    IF RefreshDue(c)
    THEN [c EXCEPT !.local_cseq = @ + 1, !.refresh_at = c.session_expires \div 2]
    ELSE c

\* Mutant: the deadline is cleared and the call stays up.
maybe_fire_expiry_bye_StaysUp(c) ==
    IF ExpiryDue(c) THEN [c EXCEPT !.local_cseq = @ + 1, !.expiry_at = Unset] ELSE c

\* maybe_fire_expiry_bye and build_expiry_bye_request.
maybe_fire_expiry_bye(c) ==
    IF ExpiryDue(c)
    THEN [c EXCEPT !.local_cseq = @ + 1, !.expiry_at = Unset, !.state = "Terminating"]
    ELSE c

CallTick(c) == maybe_fire_expiry_bye(maybe_fire_refresh(c))

\* UPDATE, or a re-INVITE once the peer has refused UPDATE.
RefreshKind(c) == IF c.update_unsupported THEN "SessionTimerReInvite" ELSE "SessionTimerUpdate"

\* Requests CallTick queues, with the CSeq each carries.
TickRequests(c) ==
    { [kind |-> RefreshKind(c), cseq |-> c.local_cseq + 1, routed |-> c.routed]
        : x \in {r \in {1} : RefreshDue(c)} } \cup
    { [kind |-> "SessionTimerExpiryBye", cseq |-> maybe_fire_refresh(c).local_cseq + 1,
       routed |-> c.routed] : x \in {r \in {1} : ExpiryDue(c)} }

\* Time passes for a deadline.
Left(d) == IF d > 0 THEN d - 1 ELSE d

CallElapse(c) == [c EXCEPT !.refresh_at = Left(@), !.expiry_at = Left(@)]
=============================================================================
