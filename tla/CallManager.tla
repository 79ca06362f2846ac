---------------------------- MODULE CallManager -----------------------------
(***************************************************************************)
(* CallManager (session/manager.rs): the table of calls, the map from      *)
(* dialogs to calls, the RTP ports and the requests the manager builds.    *)
(*                                                                         *)
(* The environment is the application and, below it, the transaction       *)
(* layer: for an outbound call it keeps the progress of the INVITE client  *)
(* transaction, which hands up provisional responses until a final one,    *)
(* and after a 2xx every retransmission of that 2xx (InviteClientTx).  As  *)
(* in the examples, the application sends what the manager has queued      *)
(* (drain_outbound_requests) after every call into it: `out' is what the   *)
(* last call queued, and `events' what it reported.                        *)
(***************************************************************************)
EXTENDS Call

CONSTANTS
    MaxCalls,      \* bound: calls in a behaviour
    MaxCSeq,       \* bound: CSeq numbers
    PortLo, PortHi,\* rtp_port_range
    Intervals,     \* Session-Expires values peers send
    TimerCalls,    \* calls whose peer implements session timers
    MinSE          \* Min-SE of CallConfig

\* A unit of time is half a second, so that se / 2 is exact.
ASSUME CallManagerAssumption ==
    /\ MaxCalls \in Nat /\ MaxCSeq \in Nat /\ MinSE \in Nat
    /\ Intervals \subseteq Nat /\ \A se \in Intervals : se % 2 = 0
    /\ TimerCalls \subseteq 1 .. MaxCalls
    /\ PortLo \in Nat /\ PortHi \in Nat
    /\ 0 < PortLo /\ PortLo <= PortHi /\ PortHi < 65534

CallIds   == 1 .. MaxCalls
DialogId(c) == <<c>>
DialogIds == {DialogId(c) : c \in CallIds}
InviteCSeq == 1                      \* CSeq of the INVITE of an outbound call
Offers(c) == IF c \in TimerCalls THEN Intervals \cup {Unset} ELSE {Unset}

\* Progress of the INVITE of an outbound call; a 2xx with its answer and its
\* Session-Expires ("none": no refresher parameter), which is read only once
\* the media session is up.
NoInvite == [is |-> "none", se |-> Unset, refresher |-> "none"]
Calling  == [NoInvite EXCEPT !.is = "calling"]
Failed   == [NoInvite EXCEPT !.is = "failed"]
Accepted(c) == {ok \in [is : Sdp, se : Offers(c), refresher : Refresher \cup {"none"}] :
                   /\ ok.is # "good" => ok.se = Unset
                   /\ ok.se = Unset => ok.refresher = "none"}

VARIABLES
    calls,            \* CallId -> Call
    dialog_to_call,   \* DialogId -> CallId
    next_rtp_port,
    made,             \* calls made so far: the identifiers in use are fresh
    invite,           \* progress of the INVITE of each outbound call
    out,              \* requests queued by the last call into the manager
    events            \* calls the last call reported a change of

cmvars == <<calls, dialog_to_call, next_rtp_port, made, invite, out, events>>
env    == <<made, invite>>

Has(c)      == c \in DOMAIN calls
Put(f, k, v) == [x \in DOMAIN f \cup {k} |-> IF x = k THEN v ELSE f[x]]
Drop(f, k)  == [x \in DOMAIN f \ {k} |-> f[x]]

\* One call into the manager that changes call c alone.
Changed(c, call) == calls' = Put(calls, c, call)

\* Queued requests.
Queue(c, requests) == out' = {[call |-> c, req |-> r] : r \in requests}

NoRequest == out' = {}
Report(cs) == events' = cs

\* allocate_rtp_port: the port handed out is next_rtp_port.
allocate_rtp_port ==
    next_rtp_port' = IF next_rtp_port + 2 > PortHi THEN PortLo ELSE next_rtp_port + 2

CmInit ==
    /\ calls = << >> /\ dialog_to_call = << >>
    /\ next_rtp_port = PortLo
    /\ made = 0
    /\ invite = [c \in CallIds |-> NoInvite]
    /\ out = {} /\ events = {}

-----------------------------------------------------------------------------
(* Outbound calls.                                                         *)

create_call ==
    /\ made < MaxCalls
    /\ made' = made + 1
    /\ Changed(made + 1, new_outbound)
    /\ invite' = [invite EXCEPT ![made + 1] = Calling]
    /\ out' = {} /\ Report({})
    /\ UNCHANGED <<dialog_to_call, next_rtp_port>>

\* The application attaches the early dialog of a provisional response
\* (get_call_mut, Call::set_dialog, Dialog::new_uac).
attach_dialog(c) ==
    /\ Has(c) /\ invite[c] = Calling /\ calls[c].dialog = NoDialog
    /\ Changed(c, set_dialog(calls[c], DialogId(c), InviteCSeq))
    /\ NoRequest /\ Report({})
    /\ UNCHANGED <<dialog_to_call, next_rtp_port, env>>

\* Provisional responses: without a To tag, with one, and with an RSeq as well.
Provisionals == {"untagged", "tagged", "reliable"}

\* handle_provisional_response, handle_provisional and, for a response with
\* RSeq, handle_provisional_reliable.  A port is taken whatever the response.
handle_provisional_response(c, sdp, resp) ==
    /\ invite[c] = Calling
    /\ allocate_rtp_port
    /\ IF Has(c)
       THEN LET routed == IF resp = "untagged" THEN calls[c] ELSE populate(calls[c], "uac")
                media  == IF sdp = "good" THEN set_negotiated_media(routed, next_rtp_port)
                                          ELSE routed
                rung   == CallHandleProvisional(media, sdp # "none")
                prack  == resp = "reliable" /\ rung.dialog # NoDialog
            IN  /\ prack => rung.local_cseq < MaxCSeq
                /\ Changed(c, IF prack THEN [rung EXCEPT !.local_cseq = @ + 1] ELSE rung)
                /\ Queue(c, {[kind |-> "Prack", cseq |-> rung.local_cseq + 1,
                              routed |-> rung.routed] : x \in {y \in {1} : prack}})
                /\ Report({c})
       ELSE UNCHANGED calls /\ NoRequest /\ Report({})
    /\ UNCHANGED <<dialog_to_call, env>>

Registered(c) == dialog_to_call' = Put(dialog_to_call, calls'[c].dialog, c)

\* Mutant: the 2xx does not fill in the routing of the new dialog.
Confirmed_Unrouted(c) == set_dialog(calls[c], DialogId(c), InviteCSeq)

\* The dialog the application builds from the 2xx, routed from the response.
Confirmed(c) == populate(set_dialog(calls[c], DialogId(c), InviteCSeq), "uac")

\* handle_invite_success: a first 2xx, or a retransmission of it.  Without
\* media in the answer nothing happens; with a codec that cannot be built the
\* dialog is already replaced.
handle_invite_success(c, ok) ==
    /\ invite[c] \in {Calling, ok}
    /\ invite' = [invite EXCEPT ![c] = ok]
    /\ IF ok.is = "nomedia" THEN UNCHANGED next_rtp_port ELSE allocate_rtp_port
    /\ NoRequest
    /\ CASE ok.is = "good" /\ Has(c) ->
              /\ Changed(c, apply_invite_2xx_session_timer(
                               handle_answer(set_negotiated_media(Confirmed(c), next_rtp_port)),
                               ok.se, ok.refresher))
              /\ Registered(c)
              /\ Report({c})
         [] ok.is = "badcodec" /\ Has(c) ->
              Changed(c, Confirmed(c)) /\ Report({}) /\ UNCHANGED dialog_to_call
         [] OTHER -> Report({}) /\ UNCHANGED <<calls, dialog_to_call>>
    /\ UNCHANGED made

\* handle_invite_failure
handle_invite_failure(c) ==
    /\ invite[c] = Calling
    /\ invite' = [invite EXCEPT ![c] = Failed]
    /\ IF Has(c) THEN Changed(c, handle_ended(calls[c])) /\ Report({c})
                 ELSE UNCHANGED calls /\ Report({})
    /\ NoRequest
    /\ UNCHANGED <<dialog_to_call, next_rtp_port, made>>

-----------------------------------------------------------------------------
(* Inbound calls.  The routing of the dialog is filled in at once          *)
(* (populate_uas_dialog_routing, which the application must call).         *)

Incoming(call) ==
    /\ made < MaxCalls
    /\ made' = made + 1
    /\ Changed(made + 1, populate(call, "uas"))
    /\ Registered(made + 1)
    /\ NoRequest /\ Report({made + 1})
    /\ UNCHANGED invite

\* handle_incoming_invite and create_inbound_call_internal: an offer that
\* cannot be answered costs a port and leaves nothing behind.
handle_incoming_invite(sdp) ==
    /\ allocate_rtp_port
    /\ IF sdp = "good"
       THEN Incoming(set_negotiated_media(new_inbound(DialogId(made + 1), 0), next_rtp_port))
       ELSE NoRequest /\ Report({}) /\ UNCHANGED <<calls, dialog_to_call, env>>

\* accept_inbound_invite and create_inbound_call_pending: the media session
\* is built later.
accept_inbound_invite(sdp) ==
    /\ sdp # "nomedia"
    /\ Incoming(new_inbound_pending(DialogId(made + 1), 0, sdp))
    /\ UNCHANGED next_rtp_port

\* build_answer_for, on the port of the ICE candidate.
build_answer_for(c) ==
    /\ Has(c) /\ calls[c].pending # "none"
    /\ LET taken == take_pending_answer(calls[c])
       IN  Changed(c, IF calls[c].pending = "good" THEN set_negotiated_media(taken, 0)
                                                   ELSE taken)
    /\ NoRequest /\ Report({})
    /\ UNCHANGED <<dialog_to_call, next_rtp_port, env>>

reject_inbound_invite(c) ==
    /\ Has(c) /\ calls[c].state = "Ringing" /\ calls[c].pending # "none"
    /\ Changed(c, handle_ended(take_pending_answer(calls[c])))
    /\ NoRequest /\ Report({c})
    /\ UNCHANGED <<dialog_to_call, next_rtp_port, env>>

\* answer_call, and accept_session_timer where the INVITE asked for a timer
\* and evaluate_inbound_invite_session_timer accepted it.
answer_call(c, se, supports_timer) ==
    LET v == evaluate_inbound_invite_session_timer(se, MinSE, supports_timer)
    IN  /\ Has(c) /\ calls[c].direction = "Inbound" /\ calls[c].state = "Ringing"
        /\ v.verdict # "Reject422"
        /\ Changed(c, IF v.verdict = "Accept"
                      THEN CallAcceptSessionTimer(handle_answer(calls[c]),
                                                  v.session_expires, v.refresher)
                      ELSE handle_answer(calls[c]))
        /\ NoRequest /\ Report({c})
        /\ UNCHANGED <<dialog_to_call, next_rtp_port, env>>

reject_call(c) ==
    /\ Has(c) /\ calls[c].direction = "Inbound" /\ calls[c].state = "Ringing"
    /\ Changed(c, handle_ended(calls[c]))
    /\ NoRequest /\ Report({})
    /\ UNCHANGED <<dialog_to_call, next_rtp_port, env>>

-----------------------------------------------------------------------------
(* Established calls.                                                      *)

Routed(d) == d \in DOMAIN dialog_to_call /\ Has(dialog_to_call[d])

\* handle_inbound_update; an unknown dialog is answered 481.
handle_inbound_update(d, se) ==
    /\ Routed(d)
    /\ LET c == dialog_to_call[d]
       IN  Changed(c, CallHandleUpdate(calls[c], se, MinSE))
    /\ NoRequest /\ Report({})
    /\ UNCHANGED <<dialog_to_call, next_rtp_port, env>>

\* slide_deadlines_for_dialog: we have answered a re-INVITE with a 2xx.
slide_deadlines_for_dialog(d) ==
    /\ Routed(d)
    /\ LET c == dialog_to_call[d] IN Changed(c, slide_deadlines(calls[c]))
    /\ NoRequest /\ Report({})
    /\ UNCHANGED <<dialog_to_call, next_rtp_port, env>>

\* mark_in_dialog_2xx: a 2xx to an UPDATE or a re-INVITE of ours.
mark_in_dialog_2xx(c) ==
    /\ Has(c)
    /\ Changed(c, slide_deadlines(calls[c]))
    /\ NoRequest /\ Report({})
    /\ UNCHANGED <<dialog_to_call, next_rtp_port, env>>

\* set_uac_in_flight: a transaction of ours on the dialog begins or ends.
set_uac_in_flight(c, in_flight) ==
    /\ Has(c) /\ calls[c].uac_in_flight # in_flight
    /\ in_flight => calls[c].state = "Established"
    /\ Changed(c, [calls[c] EXCEPT !.uac_in_flight = in_flight])
    /\ NoRequest /\ Report({})
    /\ UNCHANGED <<dialog_to_call, next_rtp_port, env>>

\* note_update_unsupported: 405 or 501 to an UPDATE of ours.
note_update_unsupported(c) ==
    /\ Has(c) /\ calls[c].state = "Established" /\ calls[c].refresh_at # Unset
    /\ Changed(c, [calls[c] EXCEPT !.update_unsupported = TRUE])
    /\ NoRequest /\ Report({})
    /\ UNCHANGED <<dialog_to_call, next_rtp_port, env>>

\* Mutant: the expiry of a session is not reported.
tick_Silent ==
    /\ \A c \in DOMAIN calls : TickRequests(calls[c]) # {} => calls[c].local_cseq < MaxCSeq
    /\ calls' = [c \in DOMAIN calls |-> CallTick(calls[c])]
    /\ out' = UNION {{[call |-> c, req |-> r] : r \in TickRequests(calls[c])} : c \in DOMAIN calls}
    /\ Report({})
    /\ UNCHANGED <<dialog_to_call, next_rtp_port, env>>

\* tick: every established call in turn.
tick ==
    /\ \A c \in DOMAIN calls : TickRequests(calls[c]) # {} => calls[c].local_cseq < MaxCSeq
    /\ calls' = [c \in DOMAIN calls |-> CallTick(calls[c])]
    /\ out' = UNION {{[call |-> c, req |-> r] : r \in TickRequests(calls[c])} : c \in DOMAIN calls}
    /\ Report({c \in DOMAIN calls : ExpiryDue(calls[c])})
    /\ UNCHANGED <<dialog_to_call, next_rtp_port, env>>

\* Time passes without a call into the manager.
Pass ==
    /\ calls' = [c \in DOMAIN calls |-> CallElapse(calls[c])]
    /\ NoRequest /\ Report({})
    /\ UNCHANGED <<dialog_to_call, next_rtp_port, env>>

-----------------------------------------------------------------------------
(* The end of a call.                                                      *)

handle_bye(d) ==
    /\ Routed(d)
    /\ LET c == dialog_to_call[d] IN Changed(c, handle_ended(calls[c])) /\ Report({c})
    /\ NoRequest
    /\ UNCHANGED <<dialog_to_call, next_rtp_port, env>>

terminate_call(c) ==
    /\ Has(c) /\ calls[c].state = "Established"
    /\ Changed(c, [calls[c] EXCEPT !.state = "Terminating"])
    /\ NoRequest /\ Report({})
    /\ UNCHANGED <<dialog_to_call, next_rtp_port, env>>

\* Mutant: the mapping of the dialog is left behind.
remove_call_KeepsRoute(c) ==
    /\ Has(c)
    /\ calls' = Drop(calls, c)
    /\ NoRequest /\ Report({})
    /\ UNCHANGED <<dialog_to_call, next_rtp_port, env>>

remove_call(c) ==
    /\ Has(c)
    /\ calls' = Drop(calls, c)
    /\ dialog_to_call' = Drop(dialog_to_call, calls[c].dialog)
    /\ NoRequest /\ Report({})
    /\ UNCHANGED <<next_rtp_port, env>>

CmNext ==
    \/ create_call \/ tick \/ Pass
    \/ \E sdp \in Sdp : handle_incoming_invite(sdp) \/ accept_inbound_invite(sdp)
    \/ \E c \in CallIds :
         \/ attach_dialog(c)
         \/ \E sdp \in Sdp \cup {"none"}, r \in Provisionals : handle_provisional_response(c, sdp, r)
         \/ \E ok \in Accepted(c) : handle_invite_success(c, ok)
         \/ handle_invite_failure(c)
         \/ build_answer_for(c) \/ reject_inbound_invite(c) \/ reject_call(c)
         \/ \E se \in Offers(c), t \in BOOLEAN : answer_call(c, se, t)
         \/ \E b \in BOOLEAN : set_uac_in_flight(c, b)
         \/ note_update_unsupported(c) \/ mark_in_dialog_2xx(c)
         \/ terminate_call(c) \/ remove_call(c)
    \/ \E d \in DialogIds :
         \/ \E se \in Offers(d[1]) : handle_inbound_update(d, se)
         \/ slide_deadlines_for_dialog(d)
         \/ handle_bye(d)

CmSpec == CmInit /\ [][CmNext]_cmvars

-----------------------------------------------------------------------------
Ports == {0} \cup PortLo .. PortHi

\* The tables: calls and routes are indexed by identifiers handed out so far,
\* and every port of a media session lies in rtp_port_range.
CmTypeOK ==
    /\ made \in 0 .. MaxCalls
    /\ DOMAIN calls \subseteq 1 .. made
    /\ \A c \in DOMAIN calls : calls[c] \in CallRec(DialogIds, Ports)
    /\ DOMAIN dialog_to_call \subseteq DialogIds
    /\ \A d \in DOMAIN dialog_to_call : dialog_to_call[d] \in 1 .. made
    /\ next_rtp_port \in PortLo .. PortHi

\* Who refreshes is a matter of the role in the INVITE: refresh_at is set only
\* where we are the refresher, expiry_at only where the peer is, so never both,
\* and neither without a negotiated interval to slide by.
TimerRoles ==
    \A c \in DOMAIN calls :
        LET we == IF calls[c].direction = "Outbound" THEN "uac" ELSE "uas"
        IN  /\ calls[c].refresh_at # Unset => calls[c].refresher = we
            /\ calls[c].expiry_at # Unset => calls[c].refresher \in Refresher \ {we}
            /\ calls[c].refresh_at # Unset \/ calls[c].expiry_at # Unset =>
                    calls[c].session_expires # Unset

\* Routing of in-dialog requests: a dialog leads to the call that is on it and
\* to no other, none leads to a call that was removed, and a call that is up
\* can be reached by the BYE and the UPDATE of its peer.
RoutingConsistent ==
    /\ \A d \in DOMAIN dialog_to_call :
          dialog_to_call[d] \in DOMAIN calls /\ calls[dialog_to_call[d]].dialog = d
    /\ \A c \in DOMAIN calls : calls[c].state = "Established" =>
          calls[c].dialog \in DOMAIN dialog_to_call /\ dialog_to_call[calls[c].dialog] = c

\* A deferred answer is used once: while it is still pending the call has no
\* media session, whatever happens to the call during ICE gathering.
AnswerUsedOnce ==
    \A c \in DOMAIN calls : calls[c].pending # "none" => calls[c].media = "none"

\* Every in-dialog request the manager builds (PRACK, UPDATE, re-INVITE, BYE)
\* comes from a dialog whose route set and remote target are filled in.
RequestsAreRouted == \A m \in out : m.req.routed

\* tick settles: it leaves no deadline due on an established call, but for a
\* refresh held back by a transaction in flight and the refresh of a peer that
\* asked for a Session-Expires of 0, so that a second tick at the same time does
\* nothing and next_deadline lies in the future.
TickSettles ==
    [][(\E c \in DOMAIN calls' :
          /\ calls'[c].state = "Established"
          /\ \/ calls'[c].expiry_at = 0
             \/ calls'[c].refresh_at = 0 /\ ~calls'[c].uac_in_flight
                /\ calls'[c].session_expires # 0)
       => ~tick]_cmvars

\* The comment on tick calls it "idempotent", without exception: "a second call
\* with the same `now` does nothing".  It fails: the 2xx of a peer may bear a
\* Session-Expires of 0, and the deadline then slides to now itself.
SecondTickIsIdle == [][tick => \A c \in DOMAIN calls' : TickRequests(calls'[c]) = {}]_cmvars

\* Every change of the state of a call that the application did not ask for
\* (terminate_call, reject_call) is reported to it with an event.
ChangesAreReported ==
    [][\A c \in DOMAIN calls \cap DOMAIN calls' :
          calls'[c].state # calls[c].state =>
             c \in events' \/ terminate_call(c) \/ reject_call(c)]_cmvars
=============================================================================
