------------------------------- MODULE Dialog -------------------------------
(***************************************************************************)
(* dialog/invite.rs and dialog/manager.rs: the INVITE dialogs of a caller  *)
(* and of a callee and the tables through which messages find them.  The   *)
(* network may reorder messages, lose them (a message that is never        *)
(* delivered) and deliver some of them twice; an INVITE that is delivered  *)
(* twice stands for a fork as well as for a retransmission that the        *)
(* transaction layer no longer absorbs.                                    *)
(***************************************************************************)
EXTENDS Integers

CONSTANTS
    MaxCalls,    \* bound: dialogs the caller creates, each with a Call-ID of its own
    MaxHandles,  \* bound: dialogs a side creates in all
    MaxExtras    \* bound: repeated deliveries, bare 2xx, re-INVITEs, PRACKs, UPDATEs, CANCELs

VARIABLES
    mgr,          \* mgr[s]: the DialogManager of side s
    wires,        \* messages under way
    extras,       \* how many of those there were
    told          \* told[s]: <<handle, event>> given to the application

dlgVars == <<mgr, wires, extras, told>>

Managers == {"caller", "callee"}
Other(s) == IF s = "caller" THEN "callee" ELSE "caller"

NoTag == 0
CallerTag == -1
NoSeq == 0
\* DialogId: the tags a side gives to the dialogs it answers are its handles.
DialogId(call, ltag, rtag) == [call |-> call, local |-> ltag, remote |-> rtag]
NoId == DialogId(0, NoTag, NoTag)

DlgInit ==
    /\ mgr = [s \in Managers |-> [next |-> 1, dialogs |-> <<>>, ids |-> <<>>, pending |-> <<>>]]
    /\ wires = {}
    /\ extras = 0
    /\ told = [s \in Managers |-> {}]

Set(f, k, v) == [x \in DOMAIN f \cup {k} |-> IF x = k THEN v ELSE f[x]]
Without(f, ks) == [x \in DOMAIN f \ ks |-> f[x]]

\* A request, or a response to an INVITE.  Of the 2xx, "ok" carries a Contact and a To tag and
\* "bare" does not carry both.
Msg(kind, to, call, ftag, ttag, cseq) ==
    [kind |-> kind, dst |-> to, call |-> call, ftag |-> ftag, ttag |-> ttag, cseq |-> cseq,
     invite |-> TRUE]

\* The application's answers to a PRACK, an UPDATE or a CANCEL: they bear the Call-ID and the
\* tags of the request.  (The answers to BYE and re-INVITE meet no Early dialog of a caller.)
Replies(m) ==
    IF m.kind \notin {"other", "cancel"} THEN {{}}
    ELSE {{[m EXCEPT !.kind = k, !.dst = Other(m.dst), !.invite = FALSE]} :
              k \in {"bare", "reject"} \cup {k \in {"ok"} : m.ttag # NoTag}}

Extra == extras < MaxExtras /\ extras' = extras + 1

\* A message is delivered, and answered: it is gone, or it stays under way to be delivered again.
Delivered(m, answer) ==
    \/ wires' = (wires \ {m}) \cup answer /\ UNCHANGED extras
    \/ Extra /\ wires' = wires \cup answer

-----------------------------------------------------------------------------
(* InviteDialog.                                                           *)

\* by is a history: the 2xx that confirmed a caller's dialog, "other" where it did not answer
\* the INVITE.
NewUac(call) == [id |-> NoId, call |-> call, role |-> "uac", state |-> "early",
                 localSeq |-> 1, remoteSeq |-> NoSeq, ack |-> FALSE, by |-> "none"]

NewUas(call, rtag, tag, cseq) ==
    [id |-> DialogId(call, tag, rtag), call |-> call, role |-> "uas", state |-> "early",
     localSeq |-> 0, remoteSeq |-> cseq, ack |-> FALSE, by |-> "none"]

\* Mutant: the tag of the first provisional answer is kept.
FromResponse_FirstTag(d, m, state) ==
    [d EXCEPT !.id = IF @ = NoId THEN DialogId(m.call, m.ftag, m.ttag) ELSE @,
              !.state = state, !.localSeq = 1, !.remoteSeq = NoSeq]

\* from_invite_response_uac: a whole new DialogInfo, so the sequence numbers start over.
FromResponse(d, m, state) ==
    [d EXCEPT !.id = DialogId(m.call, m.ftag, m.ttag), !.state = state, !.localSeq = 1,
              !.remoteSeq = NoSeq]

Kind(m) == IF m.invite THEN m.kind ELSE "other"

\* InviteDialog::handle_response: only an Early dialog of a caller takes a response, whatever
\* request it answers.  A bare 2xx confirms the dialog under the id it has.  (A provisional
\* response without Contact or To tag changes nothing and is not sent.)
DialogResponse(d, m) ==
    IF d.role # "uac" \/ d.state # "early" THEN d
    ELSE CASE m.kind = "ringing" -> FromResponse(d, m, "early")
           [] m.kind = "ok" -> [FromResponse(d, m, "confirmed") EXCEPT !.by = Kind(m)]
           [] m.kind = "bare" -> [d EXCEPT !.state = "confirmed", !.by = Kind(m)]
           [] OTHER -> [d EXCEPT !.state = "terminated"]

\* InviteDialog::handle_request.
DialogRequest(d, m) ==
    CASE m.kind = "bye" -> [d EXCEPT !.state = "terminated"]
      [] m.kind = "reinvite" /\ d.state = "confirmed" /\ m.cseq > d.remoteSeq ->
             [d EXCEPT !.remoteSeq = m.cseq]
      [] m.kind = "ack" /\ d.role = "uas" /\ d.state = "confirmed" -> [d EXCEPT !.ack = TRUE]
      [] m.kind = "cancel" /\ d.role = "uas" /\ d.state = "early" ->
             [d EXCEPT !.state = "terminated"]
      [] OTHER -> d

\* What the step tells the application: the state it entered.
Events(h, old, new) ==
    {h} \X {e \in {"established", "terminated"} :
               \/ e = "established" /\ old.state = "early" /\ new.state = "confirmed"
               \/ e = "terminated" /\ old.state # "terminated" /\ new.state = "terminated"}

-----------------------------------------------------------------------------
(* DialogManager.                                                          *)

\* create_dialog and the INVITE the application sends.
CreateDialog ==
    LET m == mgr["caller"]
        call == m.next
    IN /\ m.next <= MaxCalls
       /\ mgr' = [mgr EXCEPT !["caller"] =
              [m EXCEPT !.next = m.next + 1, !.pending = Set(m.pending, call, m.next),
                        !.dialogs = Set(m.dialogs, m.next, NewUac(call))]]
       /\ wires' = wires \cup {Msg("invite", "callee", call, CallerTag, NoTag, 1)}
       /\ UNCHANGED <<extras, told>>

\* A step of dialog h of side s, its events and, when it became Confirmed, its route.
StepDialog(s, h, new, m) ==
    LET M    == mgr[s]
        old  == M.dialogs[h]
        conf == old.state = "early" /\ new.state = "confirmed"
    IN /\ mgr' = [mgr EXCEPT ![s] =
              [M EXCEPT !.dialogs[h] = new,
                        !.ids = IF conf THEN Set(M.ids, new.id, h) ELSE M.ids,
                        !.pending = IF conf /\ new.role = "uac" THEN Without(M.pending, {m.call})
                                    ELSE M.pending]]
       /\ told' = [told EXCEPT ![s] = @ \cup Events(h, old, new)]

\* handle_response: the pending dialog of the Call-ID and From tag first, then the dialog of
\* the tags.  The method in the CSeq is not looked at.
ReceiveResponse(s) == \E m \in wires :
    LET M == mgr[s]
        id == DialogId(m.call, m.ftag, m.ttag)
        h == IF m.call \in DOMAIN M.pending /\ m.ftag = CallerTag THEN M.pending[m.call]
             ELSE IF id \in DOMAIN M.ids THEN M.ids[id] ELSE 0
    IN /\ m.dst = s /\ m.kind \in {"ringing", "ok", "bare", "reject"}
       /\ Delivered(m, {})
       /\ IF h \in DOMAIN M.dialogs
          THEN StepDialog(s, h, DialogResponse(M.dialogs[h], m), m)
          ELSE UNCHANGED <<mgr, told>>

\* find_dialog_for_request: the dialog of the swapped tags; never one without a To tag.
Routed(s, m) == DialogId(m.call, m.ttag, m.ftag) \in DOMAIN mgr[s].ids

\* handle_request for a request that finds its dialog, and for one other than INVITE that
\* does not.
ReceiveInDialog(s) == \E m \in wires :
    LET h == mgr[s].ids[DialogId(m.call, m.ttag, m.ftag)] IN
    /\ m.dst = s /\ m.kind \in {"bye", "reinvite", "ack", "other", "cancel"}
    /\ \E answer \in Replies(m) : Delivered(m, answer)
    /\ \/ /\ Routed(s, m) /\ h \in DOMAIN mgr[s].dialogs
          /\ StepDialog(s, h, DialogRequest(mgr[s].dialogs[h], m), m)
       \/ Routed(s, m) /\ h \notin DOMAIN mgr[s].dialogs /\ UNCHANGED <<mgr, told>>
       \/ ~Routed(s, m) /\ m.kind # "reinvite" /\ UNCHANGED <<mgr, told>>

\* create_uas_dialog: an INVITE without a To tag, and a re-INVITE whose dialog is gone, are
\* a new dialog with a new tag.
ReceiveInvite(s) == \E m \in wires :
    LET M == mgr[s]
        d == NewUas(m.call, m.ftag, M.next, m.cseq)
    IN /\ m.dst = s /\ m.kind \in {"invite", "reinvite"} /\ ~Routed(s, m)
       /\ M.next <= MaxHandles
       /\ Delivered(m, {})
       /\ mgr' = [mgr EXCEPT ![s] =
              [M EXCEPT !.next = M.next + 1, !.dialogs = Set(M.dialogs, M.next, d),
                        !.ids = Set(M.ids, d.id, M.next)]]
       /\ UNCHANGED told

\* send_response: the application answers the INVITE, provisionally or for good, as long as it
\* has not been told the end of the dialog or answered it.
SendResponse(s, h, kind) ==
    LET d == mgr[s].dialogs[h]
        new == [d EXCEPT !.state = IF kind \in {"ok", "bare"} THEN "confirmed"
                                   ELSE IF kind = "reject" THEN "terminated" ELSE @]
        answer == Msg(kind, Other(s), d.call, d.id.remote, d.id.local, 1)
    IN /\ d.role = "uas" /\ d.state = "early"
       /\ StepDialog(s, h, new, answer)
       /\ wires' = wires \cup {answer}
       /\ IF kind = "bare" THEN Extra ELSE UNCHANGED extras

\* A request is built only where the remote target is known (SipRequestBuilder::uri refuses an
\* empty URI): a dialog without an id has none.
Built(d, m) == wires' = wires \cup {x \in {m} : d.id # NoId}

\* ack_sent: the caller acknowledges an established dialog.
AckSent(h) ==
    LET d == mgr["caller"].dialogs[h] IN
    /\ d.role = "uac" /\ <<h, "established">> \in told["caller"] /\ ~d.ack
    /\ mgr' = [mgr EXCEPT !["caller"].dialogs[h].ack = TRUE]
    /\ Built(d, Msg("ack", "callee", d.call, d.id.local, d.id.remote, 1))
    /\ UNCHANGED <<extras, told>>

\* send_bye and build_bye_with_reason: only a Confirmed dialog sends one, and it waits for
\* nothing afterwards.  Where it cannot be built, send_bye has changed the state already, while
\* build_bye_with_reason changes nothing.
SendBye(s, h) ==
    LET d == mgr[s].dialogs[h]
        new == [d EXCEPT !.state = "terminating", !.localSeq = @ + 1]
    IN /\ d.state = "confirmed"
       /\ StepDialog(s, h, new, NoId)
       /\ Built(d, Msg("bye", Other(s), d.call, d.id.local, d.id.remote, new.localSeq))
       /\ UNCHANGED extras

\* The peer's application sends a re-INVITE in a Confirmed dialog, with the next CSeq.
SendReInvite(s, h) ==
    LET d == mgr[s].dialogs[h] IN
    /\ d.id # NoId /\ d.state = "confirmed"
    /\ mgr' = [mgr EXCEPT ![s].dialogs[h].localSeq = @ + 1]
    /\ wires' = wires \cup {Msg("reinvite", Other(s), d.call, d.id.local, d.id.remote, d.localSeq + 1)}
    /\ Extra /\ UNCHANGED told

\* build_prack and build_update use the next CSeq; the dialog of the peer ignores them.
BuildRequest(s, h) ==
    LET d == mgr[s].dialogs[h] IN
    /\ d.id # NoId /\ d.state \in {"early", "confirmed"}
    /\ mgr' = [mgr EXCEPT ![s].dialogs[h].localSeq = @ + 1]
    /\ wires' = wires \cup {Msg("other", Other(s), d.call, d.id.local, d.id.remote, d.localSeq + 1)}
    /\ Extra /\ UNCHANGED told

\* The caller's application gives up and sends a CANCEL, with the Call-ID, the tags and the CSeq
\* of the INVITE: without a To tag it finds no dialog at the callee.
SendCancel(h) ==
    LET d == mgr["caller"].dialogs[h] IN
    /\ d.role = "uac" /\ d.state = "early"
    /\ wires' = wires \cup {Msg("cancel", "callee", d.call, CallerTag, NoTag, 1)}
    /\ Extra /\ UNCHANGED <<mgr, told>>

\* Mutant: the routes of the removed dialogs stay.
CleanupTerminated_KeepsRoutes(s) ==
    LET M == mgr[s]
        dead == {h \in DOMAIN M.dialogs : M.dialogs[h].state = "terminated"}
    IN /\ dead # {}
       /\ mgr' = [mgr EXCEPT ![s].dialogs = Without(@, dead)]
       /\ UNCHANGED <<wires, extras, told>>

\* cleanup_terminated: the dialogs and their routes, not the pending entries.
CleanupTerminated(s) ==
    LET M == mgr[s]
        dead == {h \in DOMAIN M.dialogs : M.dialogs[h].state = "terminated"}
    IN /\ dead # {}
       /\ mgr' = [mgr EXCEPT ![s] =
              [M EXCEPT !.dialogs = Without(M.dialogs, dead),
                        !.ids = Without(M.ids, {M.dialogs[h].id : h \in dead})]]
       /\ UNCHANGED <<wires, extras, told>>

-----------------------------------------------------------------------------
DlgNext ==
    \/ CreateDialog
    \/ \E h \in DOMAIN mgr["caller"].dialogs : AckSent(h) \/ SendCancel(h)
    \/ \E s \in Managers :
           \/ ReceiveInvite(s) \/ ReceiveResponse(s) \/ ReceiveInDialog(s) \/ CleanupTerminated(s)
           \/ \E h \in DOMAIN mgr[s].dialogs :
                  \/ SendBye(s, h) \/ SendReInvite(s, h) \/ BuildRequest(s, h)
                  \/ \E k \in {"ringing", "ok", "bare", "reject"} : SendResponse(s, h, k)

DlgSpec == DlgInit /\ [][DlgNext]_dlgVars

-----------------------------------------------------------------------------
(* Properties.                                                             *)

\* The tables lead to the dialogs and back: a route leads to a dialog that has this id, and
\* every dialog with an id that is Confirmed or Terminating can be reached by the requests of
\* its peer.
TablesAgree ==
    \A s \in Managers :
        /\ \A id \in DOMAIN mgr[s].ids :
              /\ mgr[s].ids[id] \in DOMAIN mgr[s].dialogs
              /\ mgr[s].dialogs[mgr[s].ids[id]].id = id
        /\ \A h \in DOMAIN mgr[s].dialogs :
              LET d == mgr[s].dialogs[h] IN
              d.state \in {"confirmed", "terminating"} /\ d.id # NoId
                  => d.id \in DOMAIN mgr[s].ids /\ mgr[s].ids[d.id] = h

\* A caller's dialog that a 2xx to its INVITE, with a Contact, has established is established
\* with a callee's dialog that was established too, and ends up with that one's tag, however
\* the provisional answers of several dialogs of the same call, their refusals and their copies
\* are mixed with the answers to its other requests.
ConfirmedByBoth ==
    \A h \in DOMAIN mgr["caller"].dialogs :
        LET d == mgr["caller"].dialogs[h] IN
        d.by = "ok" =>
            /\ d.id.call = d.call
            /\ <<d.id.remote, "established">> \in told["callee"]

\* dialog/invite.rs speaks of "dialog establishment via INVITE/2xx/ACK": the caller is told that
\* a dialog is established only when the callee has established one.  It fails: the 2xx to a
\* CANCEL or a PRACK confirms an Early dialog.
EstablishedByCallee ==
    \A h \in DOMAIN mgr["caller"].dialogs :
        <<h, "established">> \in told["caller"] =>
            \E e \in told["callee"] : e[2] = "established"
=============================================================================
