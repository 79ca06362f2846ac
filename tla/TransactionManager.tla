------------------------ MODULE TransactionManager --------------------------
(***************************************************************************)
(* TransactionManager (transaction/manager.rs): the tables of the four     *)
(* kinds of transactions, routing of messages, timers and responses, and   *)
(* cleanup_terminated.                                                     *)
(*                                                                         *)
(* The four HashMaps are one function `txs' from handles to [type, id, m], *)
(* where m is the state machine; id_to_handle and handle_to_type are kept  *)
(* apart, as in the code.  A TransactionId is <<branch, method>>.          *)
(*                                                                         *)
(* Time is left out: any scheduled timer may expire at any moment, in any  *)
(* order, which covers every timing.  The owner's schedule is the `armed'  *)
(* field of each machine and, since cleanup_terminated cancels nothing,    *)
(* the timers `orphans' of transactions already removed.                   *)
(***************************************************************************)
EXTENDS InviteClientTx, NonInviteClientTx, InviteServerTx, NonInviteServerTx

CONSTANTS
    Reliable,     \* transport flag of TransactionManager::new
    Local,        \* branches of the requests this side sends
    Remote,       \* branches of the requests it receives
    Methods,      \* request methods
    Codes,        \* status codes
    MaxHandle     \* bound: handles allocated in a behaviour

ASSUME ManagerAssumption ==
    /\ Reliable \in BOOLEAN
    /\ Methods \subseteq {"INVITE", "ACK", "BYE", "CANCEL", "PRACK"}
    /\ Codes \subseteq 100..699
    /\ MaxHandle \in Nat

VARIABLES
    next_handle,
    txs,              \* handle -> [type, id, m]
    id_to_handle,     \* TransactionId -> handle
    handle_to_type,   \* handle -> TransactionType
    orphans,          \* <<handle, timer>> scheduled for a removed transaction
    sent              \* ids of the requests this side has sent

mvars == <<next_handle, txs, id_to_handle, handle_to_type, orphans, sent>>

ClientType == {"InviteClient", "NonInviteClient"}
ServerType == {"InviteServer", "NonInviteServer"}
TransactionType == ClientType \cup ServerType

\* Mutant: the method is not part of the key.
TransactionId_BranchOnly(branch, method) == <<branch, "any">>

\* TransactionId::from_request and from_response: Via branch and (CSeq) method.
TransactionId(branch, method) == <<branch, method>>

-----------------------------------------------------------------------------
Put(f, k, v) == [x \in DOMAIN f \cup {k} |-> IF x = k THEN v ELSE f[x]]

\* The actions of every transaction were drained by the previous call.
Quiet == [h \in DOMAIN txs |-> [type |-> txs[h].type, id |-> txs[h].id, m |-> Polled(txs[h].m)]]

\* One call into the transaction h, whose actions are collected.
Called(h, m) ==
    txs' = [g \in DOMAIN txs |-> [type |-> txs[g].type, id |-> txs[g].id,
                                  m |-> IF g = h THEN m ELSE Polled(txs[g].m)]]

Registered(id, type, m) ==
    /\ txs' = Put(Quiet, next_handle, [type |-> type, id |-> id, m |-> m])
    /\ id_to_handle' = Put(id_to_handle, id, next_handle)
    /\ handle_to_type' = Put(handle_to_type, next_handle, type)

KeepTables == UNCHANGED <<next_handle, id_to_handle, handle_to_type>>

\* Mutant: a number that is free again is handed out.
alloc_handle_Reuse ==
    /\ next_handle < MaxHandle
    /\ next_handle' = Min((1 .. MaxHandle + 1) \ (DOMAIN txs \cup {next_handle}))

alloc_handle == next_handle < MaxHandle /\ next_handle' = next_handle + 1

MgrInit == /\ next_handle = 1
           /\ txs = << >>
           /\ id_to_handle = << >>
           /\ handle_to_type = << >>
           /\ orphans = {}
           /\ sent = {}

\* The user's requests: each on a branch of its own, but a CANCEL on the branch
\* of the INVITE it cancels.
FreshRequest(branch, method) ==
    /\ method # "ACK"
    /\ TransactionId(branch, method) \notin sent
    /\ IF method = "CANCEL" THEN TransactionId(branch, "INVITE") \in sent
                            ELSE \A id \in sent : id[1] # branch

\* create_client_transaction
create_client_transaction(branch, method) ==
    /\ FreshRequest(branch, method)
    /\ alloc_handle
    /\ IF method = "INVITE"
       THEN Registered(TransactionId(branch, method), "InviteClient", ICNew(Reliable))
       ELSE Registered(TransactionId(branch, method), "NonInviteClient", NCNew(Reliable))
    /\ sent' = sent \cup {TransactionId(branch, method)}
    /\ UNCHANGED orphans

-----------------------------------------------------------------------------
(* handle_message: requests.                                               *)

RouteRequest(h, method) ==
    /\ CASE handle_to_type[h] = "InviteServer" ->
              Called(h, ISHandleRequest(Polled(txs[h].m), method, Reliable))
         [] handle_to_type[h] = "NonInviteServer" ->
              Called(h, NSHandleRequest(Polled(txs[h].m)))
         [] OTHER -> txs' = Quiet
    /\ KeepTables

\* An ACK that matches nothing is left to the dialog layer, but has used up a
\* handle.
CreateServer(id, method) ==
    /\ alloc_handle
    /\ CASE method = "INVITE" -> Registered(id, "InviteServer", ISNew)
         [] method = "ACK"    -> txs' = Quiet /\ UNCHANGED <<id_to_handle, handle_to_type>>
         [] OTHER             -> Registered(id, "NonInviteServer", NSNew)

\* Mutant: every request makes a new transaction.
handle_request_NoMatch(branch, method) ==
    /\ CreateServer(TransactionId(branch, method), method)
    /\ UNCHANGED <<orphans, sent>>

\* route_prack finds no buffered provisional to drop: the manager offers its
\* user no call that sends a reliable one.  A PRACK is then a request like the
\* others.
handle_request(branch, method) ==
    LET id == TransactionId(branch, method)
    IN  /\ IF id \in DOMAIN id_to_handle
           THEN RouteRequest(id_to_handle[id], method)
           ELSE CreateServer(id, method)
        /\ UNCHANGED <<orphans, sent>>

(* handle_message: responses.                                              *)
handle_response(branch, method, code) ==
    LET id == TransactionId(branch, method)
        h  == id_to_handle[id]
    IN  /\ id \in sent
        /\ id \in DOMAIN id_to_handle
        /\ CASE handle_to_type[h] = "InviteClient" ->
                  Called(h, ICHandleResponse(Polled(txs[h].m), code, Reliable))
             [] handle_to_type[h] = "NonInviteClient" ->
                  Called(h, NCHandleResponse(Polled(txs[h].m), code, Reliable))
             [] OTHER -> txs' = Quiet
        /\ KeepTables
        /\ UNCHANGED <<orphans, sent>>

-----------------------------------------------------------------------------
\* handle_timeout, of a timer that a transaction in the tables has scheduled.
handle_timeout(h, t) ==
    /\ h \in DOMAIN txs /\ t \in DOMAIN txs[h].m.armed /\ txs[h].m.armed[t] # Off
    /\ LET m == Consumed(txs[h].m, t)
       IN  CASE handle_to_type[h] = "InviteClient"    -> Called(h, ICHandleTimeout(m, t))
             [] handle_to_type[h] = "NonInviteClient" -> Called(h, NCHandleTimeout(m, t))
             [] handle_to_type[h] = "InviteServer"    -> Called(h, ISHandleTimeout(m, t))
             [] handle_to_type[h] = "NonInviteServer" -> Called(h, NSHandleTimeout(m, t))
    /\ KeepTables
    /\ UNCHANGED <<orphans, sent>>

\* handle_timeout, of a timer whose transaction is gone.
handle_orphan(h, t) ==
    /\ <<h, t>> \in orphans
    /\ h \notin DOMAIN handle_to_type
    /\ orphans' = orphans \ {<<h, t>>}
    /\ txs' = Quiet
    /\ KeepTables
    /\ UNCHANGED sent

\* send_response
send_response(h, code) ==
    /\ h \in DOMAIN txs
    /\ CASE handle_to_type[h] = "InviteServer" ->
              Called(h, ISSendResponse(Polled(txs[h].m), code, Reliable))
         [] handle_to_type[h] = "NonInviteServer" ->
              Called(h, NSSendResponse(Polled(txs[h].m), code, Reliable))
         [] OTHER -> txs' = Quiet
    /\ KeepTables
    /\ UNCHANGED <<orphans, sent>>

\* handle_transport_error
handle_transport_error(h) ==
    /\ h \in DOMAIN txs
    /\ LET m == Polled(txs[h].m)
       IN  CASE handle_to_type[h] = "InviteClient"    -> Called(h, ICHandleTransportError(m))
             [] handle_to_type[h] = "NonInviteClient" -> Called(h, NCHandleTransportError(m))
             [] handle_to_type[h] = "InviteServer"    -> Called(h, ISHandleTransportError(m))
             [] handle_to_type[h] = "NonInviteServer" -> Called(h, NSHandleTransportError(m))
    /\ KeepTables
    /\ UNCHANGED <<orphans, sent>>

EndedTxs == {h \in DOMAIN txs : txs[h].m.state = "Terminated"}

\* cleanup_terminated: the loops over the four tables.
cleanup_terminated ==
    /\ EndedTxs # {}
    /\ txs' = Restrict(Quiet, DOMAIN txs \ EndedTxs)
    /\ id_to_handle' = Restrict(id_to_handle, DOMAIN id_to_handle \ {txs[h].id : h \in EndedTxs})
    /\ handle_to_type' = Restrict(handle_to_type, DOMAIN handle_to_type \ EndedTxs)
    /\ orphans' = orphans \cup UNION {{<<h, t>> : t \in {u \in DOMAIN txs[h].m.armed :
                                                   txs[h].m.armed[u] # Off}} : h \in EndedTxs}
    /\ UNCHANGED <<next_handle, sent>>

-----------------------------------------------------------------------------
Timeouts == \E h \in DOMAIN txs : \E t \in DOMAIN txs[h].m.armed : handle_timeout(h, t)

MgrNext ==
    \/ \E b \in Local, m \in Methods : create_client_transaction(b, m)
    \/ \E b \in Remote, m \in Methods : handle_request(b, m)
    \/ \E b \in Local, m \in Methods, c \in Codes : handle_response(b, m, c)
    \/ Timeouts
    \/ \E o \in orphans : handle_orphan(o[1], o[2])
    \/ \E h \in DOMAIN txs, c \in Codes : send_response(h, c)
    \/ \E h \in DOMAIN txs : handle_transport_error(h)
    \/ cleanup_terminated

MgrSpec == MgrInit /\ [][MgrNext]_mvars

\* The timers that end a wait; each runs out once.
EndsWait == {"B", "D", "F", "H", "I", "J", "K"}

\* The owner hands in the timers it scheduled and cleans up in every round of
\* its loop; nothing is assumed of the network and of the user.
MgrFairSpec ==
    /\ MgrSpec
    /\ \A h \in 1 .. MaxHandle : WF_mvars(\E t \in EndsWait : handle_timeout(h, t))
    /\ WF_mvars(cleanup_terminated)

-----------------------------------------------------------------------------
(* Properties.                                                             *)

Handles == 1 .. MaxHandle
Ids == (Local \cup Remote) \X Methods
Machine == [ InviteClient    |-> ICState, NonInviteClient |-> NCState,
             InviteServer    |-> ISState, NonInviteServer |-> NSState ]

\* The values every variable takes.
MgrTypeOK ==
    /\ next_handle \in Handles
    /\ DOMAIN txs \subseteq Handles
    /\ \A h \in DOMAIN txs : /\ txs[h].type \in TransactionType
                             /\ txs[h].id \in Ids
                             /\ txs[h].m.state \in Machine[txs[h].type]
    /\ DOMAIN id_to_handle \subseteq Ids
    /\ orphans \subseteq Handles \X Timer
    /\ sent \subseteq Local \X Methods

\* The three maps tell one story: every transaction is in handle_to_type with
\* its type, is the one its identifier leads to, and no identifier leads to a
\* removed or another transaction.  A hole here makes a response or a
\* retransmission miss its transaction (the cover_none_case branches), a wrong
\* entry hands it to another one.
Consistent ==
    /\ DOMAIN handle_to_type = DOMAIN txs
    /\ \A h \in DOMAIN txs : /\ handle_to_type[h] = txs[h].type
                             /\ txs[h].id \in DOMAIN id_to_handle
                             /\ id_to_handle[txs[h].id] = h
    /\ \A id \in DOMAIN id_to_handle : /\ id_to_handle[id] \in DOMAIN txs
                                       /\ txs[id_to_handle[id]].id = id

\* A timer left behind by a removed transaction never reaches a later one:
\* handles are not used again.
OrphansHarmless == \A o \in orphans : o[1] \notin DOMAIN txs

\* The inductive invariant behind the theorems of TransactionManagerProofs:
\* handles only grow, and an identifier in use is one this side sent or one
\* with a peer's branch.
MgrInv ==
    /\ next_handle \in Nat
    /\ \A h \in DOMAIN txs : h \in Nat /\ h < next_handle /\ txs[h].type \in TransactionType
    /\ \A o \in orphans : o[1] \in Nat /\ o[1] < next_handle
    /\ \A id \in DOMAIN id_to_handle : id \in sent \/ id[1] \in Remote
    /\ Consistent
    /\ OrphansHarmless

\* A response moves only the transaction of its own branch and method: the 200
\* of a CANCEL does not end the INVITE transaction on the same branch.
ResponsesDoNotCross ==
    [][\A b \in Local, m \in Methods, c \in Codes : handle_response(b, m, c) =>
          \A h \in DOMAIN txs :
             txs[h].m.state # txs'[h].m.state \/ txs'[h].m.ev # {} => txs[h].id = <<b, m>>]_mvars

\* h waits for nothing but its timers: a client transaction, or an answered server transaction.
MustEnd(h) == /\ h \in DOMAIN txs
              /\ \/ txs[h].type \in ClientType
                 \/ txs[h].m.state \in {"Completed", "Confirmed", "Terminated"}

\* The tables do not leak: a client transaction is removed whatever the network
\* does, a server transaction once its user has answered.  (No handle comes back.)
NoLeak == []<>(\A h \in Handles : ~MustEnd(h))

\* What the comment on the ACK branch of handle_request says: an ACK for a
\* non-2xx is handled by the INVITE server transaction of its branch.
AckReachesTransaction ==
    [][\A b \in Remote : handle_request(b, "ACK") =>
          \A h \in DOMAIN txs :
             txs[h].id = <<b, "INVITE">> /\ txs[h].m.state = "Completed" =>
                txs'[h].m.state # "Completed"]_mvars
=============================================================================
