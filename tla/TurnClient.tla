----------------------------- MODULE TurnClient -----------------------------
(***************************************************************************)
(* ice/turn.rs: a TurnClient that allocates a relay address, refreshes the *)
(* allocation and creates permissions, over UDP, and the TURN server       *)
(* (external).  A request is sent again when its answer does not come in   *)
(* time, and the first datagram that arrives is taken for its answer:      *)
(* parse_allocate_response compares the transaction identifier,            *)
(* parse_refresh_response and parse_permission_response do not.            *)
(* Left out: addresses, the realm and MESSAGE-INTEGRITY (a request is      *)
(* authentic exactly when it carries the nonce of the server).             *)
(***************************************************************************)
EXTENDS Integers, FiniteSets

CONSTANTS
    Retries,      \* retries: times a request is sent (3 in the code)
    Lifetimes,    \* lifetimes asked for in a refresh; 0 releases the allocation
    Default,      \* lifetime the server grants an allocation
    RelayPeers,   \* peers that permissions are created for
    MaxTxns,      \* bound: requests with an identifier of their own
    MaxNonces     \* bound: nonces the server hands out

ASSUME TurnAssumption ==
    /\ Retries \in Nat \ {0} /\ Default \in Nat \ {0} /\ Lifetimes \subseteq Nat
    /\ MaxTxns \in Nat /\ MaxNonces \in Nat

VARIABLES
    turn,       \* the TurnClient: allocation (lifetime -1 before one), nonce, transaction_id
    asking,     \* the request send_raw waits with, or NoRequestOpen
    tries,      \* times it has been sent
    permitted,  \* peers whose create_permission has returned Ok
    relay,      \* external: the server's allocation, permissions and nonce
    up_link, down_link,  \* datagrams to the server and to the client
    unsure      \* history: a call began while datagrams of an earlier one were under way,
                \* ended without an answer of the server or with the refusal of a repeated
                \* request, whose first copy may have been granted, or the allocation ran out

turnVars == <<turn, asking, tries, permitted, relay, up_link, down_link, unsure>>

NoNonceYet == 0
NoRequestOpen == [kind |-> "none", txn |-> 0, nonce |-> NoNonceYet, arg |-> 0]

TurnInit ==
    /\ turn = [lifetime |-> -1, nonce |-> NoNonceYet, txn |-> 0]
    /\ asking = NoRequestOpen /\ tries = 0 /\ permitted = {}
    /\ relay = [lifetime |-> 0, owner |-> 0, perms |-> {}, nonce |-> 1]
    /\ up_link = {} /\ down_link = {} /\ unsure = FALSE

-----------------------------------------------------------------------------
(* The calls of the application.  Each takes &mut self: one at a time.     *)

\* A new transaction_id, and the first send of send_raw.
Ask(kind, nonce, arg) ==
    LET q == [kind |-> kind, txn |-> turn.txn + 1, nonce |-> nonce, arg |-> arg]
    IN /\ turn.txn < MaxTxns
       /\ turn' = [turn EXCEPT !.txn = @ + 1]
       /\ asking' = q /\ tries' = 1
       /\ up_link' = up_link \cup {q}

\* Bound: no call follows once the client is unsure, for nothing is claimed from then on.
Call(kind, nonce, arg) ==
    /\ asking = NoRequestOpen /\ ~unsure
    /\ Ask(kind, nonce, arg)
    /\ unsure' = (unsure \/ up_link # {} \/ down_link # {})
    /\ UNCHANGED <<permitted, relay, down_link>>

\* allocate asks without credentials first.
allocate == Call("allocate", NoNonceYet, 0)

refresh(lifetime) == turn.lifetime # -1 /\ Call("refresh", turn.nonce, lifetime)

create_permission(peer) == turn.lifetime # -1 /\ Call("permission", turn.nonce, peer)

\* recv_data: whatever is in the socket is taken, and is an error unless it is data.
recv_data == \E m \in down_link :
    /\ asking = NoRequestOpen
    /\ down_link' = down_link \ {m}
    /\ UNCHANGED <<turn, asking, tries, permitted, relay, up_link, unsure>>

-----------------------------------------------------------------------------
(* The answer.                                                             *)

\* The call returns, with or without an answer of the server.
Return(known) ==
    /\ asking' = NoRequestOpen /\ tries' = 0
    /\ unsure' = (unsure \/ ~known)

\* allocate: parse_allocate_response and, after the first challenge, a request with credentials.
\* The nonce kept is the one of the challenge, none if the server asked for none.
AllocateAnswer(m) ==
    CASE m.kind = "allocate" /\ m.txn # asking.txn ->   \* Transaction ID mismatch
           Return(FALSE) /\ UNCHANGED <<turn, permitted, up_link>>
      [] m.kind = "allocate" /\ m.txn = asking.txn /\ m.code = 200 ->
           /\ turn' = [turn EXCEPT !.lifetime = m.arg, !.nonce = asking.nonce]
           /\ permitted' = {}
           /\ Return(TRUE) /\ UNCHANGED up_link
      [] m.kind = "allocate" /\ m.txn = asking.txn /\ m.code = 401 /\ asking.nonce = NoNonceYet ->
           Ask("allocate", m.nonce, 0) /\ UNCHANGED <<permitted, unsure>>
      [] m.kind = "allocate" /\ m.txn = asking.txn /\ m.code # 200
             /\ ~(m.code = 401 /\ asking.nonce = NoNonceYet) ->
           Return(tries = 1) /\ UNCHANGED <<turn, permitted, up_link>>
      [] OTHER ->   \* Unexpected message type
           Return(FALSE) /\ UNCHANGED <<turn, permitted, up_link>>

\* Whether m has the type of a success answer to the kind of request that is open.
IsSuccess(m) == m.kind = asking.kind /\ m.code = 200

\* refresh: parse_refresh_response looks at the message type only.
RefreshAnswer(m) ==
    /\ turn' = IF IsSuccess(m) THEN [turn EXCEPT !.lifetime = m.arg] ELSE turn
    /\ Return(IsSuccess(m) \/ (m.kind = asking.kind /\ tries = 1))
    /\ UNCHANGED <<permitted, up_link>>

\* Mutant: the type of the message is not looked at, an error answer counts too.
PermissionAnswer_AnyType(m) ==
    /\ permitted' = permitted \cup {asking.arg}
    /\ Return(TRUE)
    /\ UNCHANGED <<turn, up_link>>

\* create_permission: parse_permission_response looks at the message type only.
PermissionAnswer(m) ==
    /\ permitted' = IF IsSuccess(m) THEN permitted \cup {asking.arg} ELSE permitted
    /\ Return(IsSuccess(m) \/ (m.kind = asking.kind /\ tries = 1))
    /\ UNCHANGED <<turn, up_link>>

Answered(m) ==
    /\ m \in down_link /\ asking # NoRequestOpen
    /\ down_link' = down_link \ {m}
    /\ \/ asking.kind = "allocate" /\ AllocateAnswer(m)
       \/ asking.kind = "refresh" /\ RefreshAnswer(m)
       \/ asking.kind = "permission" /\ PermissionAnswer(m)
    /\ UNCHANGED relay

\* The timeout of send_raw: the same request again, or TurnError::Timeout.
send_raw_timeout ==
    /\ asking # NoRequestOpen
    /\ \/ /\ tries < Retries
          /\ tries' = tries + 1
          /\ up_link' = up_link \cup {asking}
          /\ UNCHANGED <<asking, unsure>>
       \/ /\ tries = Retries
          /\ Return(FALSE)
          /\ UNCHANGED up_link
    /\ UNCHANGED <<turn, permitted, relay, down_link>>

-----------------------------------------------------------------------------
(* The server (external) and the network.                                  *)

\* The answer the server gives to q: 401 without a nonce, 438 for an old one, 437 when the
\* allocation does not match the request.
CodeFor(q) ==
    CASE q.nonce = NoNonceYet -> 401
      [] q.nonce \notin {NoNonceYet, relay.nonce} -> 438
      [] q.nonce = relay.nonce /\ q.kind = "allocate"
             /\ relay.lifetime # 0 /\ relay.owner # q.txn -> 437
      [] q.nonce = relay.nonce /\ q.kind # "allocate" /\ relay.lifetime = 0 -> 437
      [] OTHER -> 200

\* The allocation after a request that was granted.
Granted(q) ==
    CASE q.kind = "allocate"   -> [relay EXCEPT !.lifetime = Default, !.owner = q.txn]
      [] q.kind = "refresh"    -> [relay EXCEPT !.lifetime = q.arg,
                                                !.perms = IF q.arg = 0 THEN {} ELSE @]
      [] q.kind = "permission" -> [relay EXCEPT !.perms = @ \cup {q.arg}]

\* The request is answered; a copy of it may still be under way.
Serve(q) ==
    LET code == CodeFor(q) IN
    /\ q \in up_link
    /\ relay' = IF code = 200 THEN Granted(q) ELSE relay
    /\ down_link' = down_link \cup {[kind |-> q.kind, txn |-> q.txn, code |-> code,
                                     nonce |-> relay.nonce,
                                     arg |-> IF q.kind = "allocate" THEN Default ELSE q.arg]}
    /\ \/ up_link' = up_link \ {q}
       \/ tries > 1 /\ q = asking /\ UNCHANGED up_link
    /\ UNCHANGED <<turn, asking, tries, permitted, unsure>>

\* Data of a peer that has a permission.
Relayed(peer) ==
    /\ peer \in relay.perms
    /\ down_link' = down_link \cup {[kind |-> "data", txn |-> 0, code |-> 0,
                                     nonce |-> NoNonceYet, arg |-> peer]}
    /\ UNCHANGED <<turn, asking, tries, permitted, relay, up_link, unsure>>

RunsOut ==
    /\ relay.lifetime # 0
    /\ relay' = [relay EXCEPT !.lifetime = 0, !.perms = {}]
    /\ unsure' = TRUE
    /\ UNCHANGED <<turn, asking, tries, permitted, up_link, down_link>>

NewNonce ==
    /\ relay.nonce < MaxNonces
    /\ relay' = [relay EXCEPT !.nonce = @ + 1]
    /\ UNCHANGED <<turn, asking, tries, permitted, up_link, down_link, unsure>>

LoseDatagram ==
    /\ \/ \E q \in up_link : up_link' = up_link \ {q} /\ UNCHANGED down_link
       \/ \E m \in down_link : down_link' = down_link \ {m} /\ UNCHANGED up_link
    /\ UNCHANGED <<turn, asking, tries, permitted, relay, unsure>>

-----------------------------------------------------------------------------
TurnNext ==
    \/ allocate \/ recv_data \/ send_raw_timeout
    \/ \E n \in Lifetimes : refresh(n)
    \/ \E p \in RelayPeers : create_permission(p) \/ Relayed(p)
    \/ \E m \in down_link : Answered(m)
    \/ \E q \in up_link : Serve(q)
    \/ RunsOut \/ NewNonce \/ LoseDatagram

TurnSpec == TurnInit /\ [][TurnNext]_turnVars

-----------------------------------------------------------------------------
\* The client knows what it has at the server: through challenges, changed nonces, refusals,
\* losses, retransmissions and copies of requests that are granted twice, an idle client whose
\* calls were all answered has the lifetime it believes in and every permission it was told of
\* (allocate, refresh and create_permission of turn.rs).  The calls that begin with an answer of
\* an earlier one under way are left out: refresh and create_permission would take it.
RelayIsAsTold ==
    asking = NoRequestOpen /\ ~unsure /\ turn.lifetime # -1 =>
        /\ relay.lifetime = turn.lifetime
        /\ turn.lifetime # 0 => permitted \subseteq relay.perms
=============================================================================
