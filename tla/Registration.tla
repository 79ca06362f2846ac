---------------------------- MODULE Registration ----------------------------
(***************************************************************************)
(* session/registration.rs: the registration manager, the driver           *)
(* (register, unregister and run_request) that sends its requests over UDP *)
(* and reads the answers, and the registrar (external), which challenges,  *)
(* accepts or refuses.                                                     *)
(*                                                                         *)
(* The driver sends every request once and does not compare the CSeq of an *)
(* answer with the request it waits for: the socket may still hold the     *)
(* answers to a call that has timed out.                                   *)
(***************************************************************************)
EXTENDS Integers

CONSTANTS MaxCseq,   \* bound: the requests of one manager
          MaxNonce   \* bound: the nonces the registrar hands out

VARIABLES
    reg,        \* the RegistrationManager
    drv,        \* the call of register or unregister that is running
    requests, responses,    \* datagrams under way
    registrar,  \* external: the binding, the last CSeq and the nonce with its last nc
    late        \* history: a call gave up while its answer could still come

regVars == <<reg, drv, requests, responses, registrar, late>>

NoNonce == 0

RegInit ==
    /\ reg = [state |-> "unregistered", cseq |-> 1, challenge |-> NoNonce, nc |-> 0]
    /\ drv = [pc |-> "idle", attempts |-> 0]
    /\ requests = {} /\ responses = {}
    /\ registrar = [bound |-> FALSE, cseq |-> 0, nonce |-> 1, nc |-> 0]
    /\ late = FALSE

\* A REGISTER as it leaves: Authorization with the nonce and its count, or none.
Request(r, expires, authorized) ==
    [cseq |-> r.cseq, expires |-> expires,
     nonce |-> IF authorized THEN r.challenge ELSE NoNonce,
     nc |-> IF authorized THEN r.nc ELSE 0]

-----------------------------------------------------------------------------
(* The calls of the application.                                           *)

\* register: create_register and the first send of run_request.  It carries no credentials,
\* even when a challenge is known.
Register ==
    LET r == [reg EXCEPT !.state = IF @ = "registered" THEN "refreshing" ELSE "registering",
                         !.cseq = @ + 1]
    IN /\ drv.pc = "idle" /\ reg.cseq < MaxCseq
       /\ reg' = r
       /\ requests' = requests \cup {Request(r, TRUE, FALSE)}
       /\ drv' = [pc |-> "waiting", attempts |-> 0]
       /\ UNCHANGED <<responses, registrar, late>>

\* unregister: create_unregister, with credentials when a challenge is known.
Unregister ==
    LET known == reg.challenge # NoNonce
        r == [reg EXCEPT !.state = "unregistering", !.cseq = @ + 1,
                         !.nc = IF known THEN @ + 1 ELSE @]
    IN /\ drv.pc = "idle" /\ reg.cseq < MaxCseq
       /\ reg' = r
       /\ requests' = requests \cup {Request(r, FALSE, known)}
       /\ drv' = [pc |-> "waiting", attempts |-> 0]
       /\ UNCHANGED <<responses, registrar, late>>

\* reset, after a connection loss.
Reset ==
    /\ drv.pc = "idle"
    /\ reg' = [reg EXCEPT !.state = "unregistered", !.challenge = NoNonce, !.nc = 0]
    /\ UNCHANGED <<drv, requests, responses, registrar, late>>

-----------------------------------------------------------------------------
(* run_request: one datagram of the socket goes through handle_response.   *)

ReturnedTo == [drv EXCEPT !.pc = "idle"]

\* Mutant: every 200 is taken for the answer to a registration.
HandleOk_Registered(m) ==
    /\ m.code = "ok"
    /\ reg' = [reg EXCEPT !.state = "registered"]
    /\ drv' = ReturnedTo
    /\ UNCHANGED requests

\* 200: the manager believes it belongs to what it is doing.
HandleOk(m) ==
    /\ m.code = "ok"
    /\ reg' = [reg EXCEPT !.state = IF @ = "unregistering" THEN "unregistered" ELSE "registered"]
    /\ drv' = ReturnedTo
    /\ UNCHANGED requests

\* 401 or 407: the challenge is kept and a request with credentials is built, which always asks
\* for the configured expiry; the driver sends it unless it has done so before.  A challenge
\* with an algorithm or qop that is not supported is kept too, and the call returns.
HandleChallenge(m) ==
    LET r == [reg EXCEPT !.challenge = m.nonce, !.cseq = @ + 1, !.nc = @ + 1] IN
    /\ m.code = "challenge" /\ reg.cseq < MaxCseq
    /\ reg' = r
    /\ \/ /\ drv.attempts = 0
          /\ drv' = [drv EXCEPT !.attempts = 1]
          /\ requests' = requests \cup {Request(r, TRUE, TRUE)}
       \/ drv' = ReturnedTo /\ UNCHANGED requests

HandleError(m) ==
    /\ m.code = "error"
    /\ reg' = [reg EXCEPT !.state = "failed"]
    /\ drv' = ReturnedTo
    /\ UNCHANGED requests

HandleProvisional(m) == m.code = "trying" /\ UNCHANGED <<reg, drv, requests>>

\* Any other final answer, a challenge that cannot be parsed, a datagram that is no response:
\* the call returns, and the state of the manager stays as it is.
HandleOther(m) ==
    /\ m.code = "other"
    /\ drv' = ReturnedTo
    /\ UNCHANGED <<reg, requests>>

HandleResponse(m) ==
    HandleOk(m) \/ HandleChallenge(m) \/ HandleError(m) \/ HandleProvisional(m) \/ HandleOther(m)

Receive == \E m \in responses :
    /\ drv.pc = "waiting"
    /\ HandleResponse(m)
    /\ responses' = responses \ {m}
    /\ UNCHANGED <<registrar, late>>

\* recv_timeout or total_timeout: the state of the manager stays as it is.
GiveUp ==
    /\ drv.pc = "waiting"
    /\ drv' = ReturnedTo
    /\ late' = TRUE
    /\ UNCHANGED <<reg, requests, responses, registrar>>

-----------------------------------------------------------------------------
(* The registrar (external): a nonce is good for rising counts, a request  *)
(* for a rising CSeq; a request it cannot authenticate is challenged.      *)

Authenticated(q) == q.nonce = registrar.nonce /\ q.nc > registrar.nc

Answers(q, code, nonce) ==
    \E progress \in BOOLEAN :
        responses' = responses \cup {[code |-> code, cseq |-> q.cseq, nonce |-> nonce]}
                         \cup IF progress THEN {[code |-> "trying", cseq |-> q.cseq, nonce |-> NoNonce]}
                              ELSE {}

RegistrarAccepts == \E q \in requests :
    /\ Authenticated(q) /\ q.cseq > registrar.cseq
    /\ registrar' = [registrar EXCEPT !.bound = q.expires, !.cseq = q.cseq, !.nc = q.nc]
    /\ Answers(q, "ok", NoNonce)
    /\ requests' = requests \ {q}
    /\ UNCHANGED <<reg, drv, late>>

RegistrarRefuses == \E q \in requests, code \in {"error", "other"} :
    /\ Answers(q, code, NoNonce)
    /\ requests' = requests \ {q}
    /\ UNCHANGED <<reg, drv, registrar, late>>

\* Any request may meet a fresh nonce; one without valid credentials may also be shown the old.
RegistrarChallenges == \E q \in requests :
    /\ \/ /\ registrar.nonce < MaxNonce
          /\ registrar' = [registrar EXCEPT !.nonce = @ + 1, !.nc = 0]
       \/ ~Authenticated(q) /\ UNCHANGED registrar
    /\ Answers(q, "challenge", registrar'.nonce)
    /\ requests' = requests \ {q}
    /\ UNCHANGED <<reg, drv, late>>

-----------------------------------------------------------------------------
RegNext ==
    \/ Register \/ Unregister \/ Reset
    \/ Receive \/ GiveUp
    \/ RegistrarAccepts \/ RegistrarRefuses \/ RegistrarChallenges

RegSpec == RegInit /\ [][RegNext]_regVars

-----------------------------------------------------------------------------
(* Properties.                                                             *)

\* A manager that says it is registered has a binding at the registrar, whatever challenges,
\* refusals, provisional answers and losses it met, as long as no call gave up with an answer
\* outstanding (handle_response takes the 200 of any request for its own).
RegisteredMeansBound == reg.state = "registered" /\ ~late => registrar.bound

\* unregister "drives an unREGISTER (Expires: 0) to completion ... otherwise the driver handles
\* a single 401/407 retry": when it returned with the state Unregistered, the registrar has
\* removed the binding.
UnregisteredMeansUnbound ==
    [][(drv.pc = "waiting" /\ reg.state = "unregistering" /\ reg'.state = "unregistered" /\ ~late)
           => ~registrar.bound]_regVars
=============================================================================
