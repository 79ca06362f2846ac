------------------------------ MODULE Transfer ------------------------------
(***************************************************************************)
(* Call transfer (session/transfer.rs): the TransferManager entry of one   *)
(* call at each of its two parties, which may REFER each other, and the    *)
(* REFERs, their responses and the NOTIFYs on the way.  Messages of one    *)
(* party overtake each other: the responses and the NOTIFYs of a REFER are *)
(* separate transactions, and neither handle_refer_response nor            *)
(* handle_notify looks at the state they are applied to.                   *)
(***************************************************************************)
EXTENDS Naturals, FiniteSets

CONSTANT MaxRefers  \* REFERs sent in all

ASSUME TransferAssumption == MaxRefers \in Nat

Parties == {"a", "b"}
OtherParty(p) == IF p = "a" THEN "b" ELSE "a"
Absent == [state |-> "None", role |-> "none"]

VARIABLES
    transfer,\* per party: its TransferInfo, or Absent
    flight,  \* messages on the way: [to, refer, kind, code]
    calls,   \* per REFER: what became of the call of the transferee to the target
    refers,  \* number of REFERs sent
    from     \* per REFER: the party that sent it

trVars == <<transfer, flight, calls, refers, from>>

TrInit ==
    /\ transfer = [p \in Parties |-> Absent]
    /\ flight = {}
    /\ calls = [r \in 1..MaxRefers |-> "none"]
    /\ refers = 0
    /\ from = [r \in 1..MaxRefers |-> "none"]

Flight(p, r, kind, code) == [to |-> p, refer |-> r, kind |-> kind, code |-> code]

-----------------------------------------------------------------------------
\* initiate_blind_transfer and initiate_attended_transfer, which differ in
\* the header they build; refused unless the state is None.
InitiateTransfer(p) ==
    /\ transfer[p].state = "None" /\ refers < MaxRefers
    /\ refers' = refers + 1
    /\ from' = [from EXCEPT ![refers'] = p]
    /\ transfer' = [transfer EXCEPT ![p] = [state |-> "Pending", role |-> "Transferor"]]
    /\ flight' = flight \cup {Flight(OtherParty(p), refers', "REFER", 0)}
    /\ UNCHANGED calls

\* handle_incoming_refer, after which the application accepts the REFER and
\* calls the target; it does not look at the state it overwrites.
HandleIncomingRefer(p, m) ==
    /\ m \in flight /\ m.kind = "REFER" /\ m.to = p
    /\ transfer' = [transfer EXCEPT ![p] = [state |-> "InProgress", role |-> "Transferee"]]
    /\ calls' = [calls EXCEPT ![m.refer] = "calling"]
    /\ flight' = (flight \ {m}) \cup {Flight(OtherParty(p), m.refer, "response", 202),
                                Flight(OtherParty(p), m.refer, "NOTIFY", 180)}
    /\ UNCHANGED <<refers, from>>

\* The application refuses the REFER and leaves the entry alone.
RefuseRefer(p, m) ==
    /\ m \in flight /\ m.kind = "REFER" /\ m.to = p
    /\ flight' = (flight \ {m}) \cup {Flight(OtherParty(p), m.refer, "response", 603)}
    /\ calls' = [calls EXCEPT ![m.refer] = "refused"]
    /\ UNCHANGED <<transfer, refers, from>>

\* The call to the target succeeds or fails, and a final NOTIFY says so.
CallEnds(r, code) ==
    /\ calls[r] = "calling"
    /\ calls' = [calls EXCEPT ![r] = IF code = 200 THEN "succeeded" ELSE "failed"]
    /\ flight' = flight \cup {Flight(from[r], r, "NOTIFY", code)}
    /\ UNCHANGED <<transfer, refers, from>>

\* The state a response to the REFER leads to.
AfterResponse(state, code) ==
    CASE code \in 200..299 -> "Accepted"
      [] code >= 400       -> "Failed"
      [] OTHER             -> state

HandleReferResponse(p, m) ==
    /\ m \in flight /\ m.kind = "response" /\ m.to = p
    /\ flight' = flight \ {m}
    /\ transfer' = IF transfer[p] = Absent THEN transfer   \* CallNotFound
               ELSE [transfer EXCEPT ![p].state = AfterResponse(@, m.code)]
    /\ UNCHANGED <<calls, refers, from>>

\* Mutant: every final NOTIFY is a success.
AfterNotify_AnyFinal(code) == IF code >= 200 THEN "Completed" ELSE "InProgress"

\* The state a NOTIFY leads to: is_success, final_ or neither.
AfterNotify(code) ==
    CASE code \in 200..299 -> "Completed"
      [] code >= 300       -> "Failed"
      [] OTHER             -> "InProgress"

HandleNotify(p, m) ==
    /\ m \in flight /\ m.kind = "NOTIFY" /\ m.to = p
    /\ flight' = flight \ {m}
    /\ transfer' = IF transfer[p] = Absent THEN transfer   \* CallNotFound
               ELSE [transfer EXCEPT ![p].state = AfterNotify(m.code)]
    /\ UNCHANGED <<calls, refers, from>>

Clear(p) ==
    /\ transfer[p] # Absent
    /\ transfer' = [transfer EXCEPT ![p] = Absent]
    /\ UNCHANGED <<flight, calls, refers, from>>

Drop(m) ==
    /\ flight' = flight \ {m}
    /\ UNCHANGED <<transfer, calls, refers, from>>

TrNext ==
    \/ \E p \in Parties :
          \/ InitiateTransfer(p) \/ Clear(p)
          \/ \E m \in flight : \/ HandleIncomingRefer(p, m) \/ RefuseRefer(p, m)
                            \/ HandleReferResponse(p, m) \/ HandleNotify(p, m)
    \/ \E r \in 1..refers, code \in {200, 486} : CallEnds(r, code)
    \/ \E m \in flight : Drop(m)

TrSpec == TrInit /\ [][TrNext]_trVars

-----------------------------------------------------------------------------
(* A party that shows a transfer as Completed or Failed is right: one of   *)
(* the REFERs it sent had that end.  Responses and NOTIFYs may overtake    *)
(* each other, be lost, and cross a REFER of the other party               *)
(* (transfer.rs handle_refer_response, handle_notify).                     *)
OutcomeIsTrue ==
    \A p \in Parties :
       LET ends == {calls[r] : r \in {r \in 1..refers : from[r] = p}}
       IN  /\ transfer[p].state = "Completed" => "succeeded" \in ends
           /\ transfer[p].state = "Failed" => ends \cap {"failed", "refused"} # {}
=============================================================================
