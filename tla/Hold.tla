-------------------------------- MODULE Hold --------------------------------
(***************************************************************************)
(* Hold and resume (session/hold.rs): the HoldManager entry of one call on *)
(* each of its two sides, and the re-INVITEs between them.  The            *)
(* application sends the re-INVITE that create_hold_request or             *)
(* create_resume_request returns a direction for, answers the peer's with  *)
(* the local direction handle_remote_hold leaves, and reports a 2xx to     *)
(* handle_hold_response and a failure or a timeout to cancel_pending.      *)
(* Nothing in HoldManager keeps the two re-INVITEs from crossing.          *)
(***************************************************************************)
EXTENDS Naturals

Ends == {"a", "b"}
OtherEnd(s) == IF s = "a" THEN "b" ELSE "a"

Directions == {"sendrecv", "sendonly", "recvonly", "inactive"}
NoDirection == "none"

CanSend(d) == d \in {"sendrecv", "sendonly"}
CanRecv(d) == d \in {"sendrecv", "recvonly"}

\* Mutant: an answer repeats the direction of the offer.
Mirror_Same(d) == d

\* MediaDirection::remote_direction
Mirror(d) == CASE d = "sendonly" -> "recvonly"
               [] d = "recvonly" -> "sendonly"
               [] OTHER          -> d

\* compute_hold_state
HoldState(local, remote) ==
    LET holding(d) == d \in {"sendonly", "inactive"}
    IN  CASE holding(local) /\ holding(remote)  -> "BothHold"
          [] holding(local) /\ ~holding(remote) -> "LocalHold"
          [] ~holding(local) /\ holding(remote) -> "RemoteHold"
          [] OTHER                              -> "Active"

CONSTANT MaxExchanges  \* re-INVITEs sent in all

ASSUME HoldAssumption == MaxExchanges \in Nat

VARIABLES
    info,    \* per side: its CallHoldInfo; pending is NoDirection or a direction
    request, \* per side: its re-INVITE on the way, <<number, direction>> or <<>>
    answer,  \* per side: the answer on its way to it, a direction, "refused" or NoDirection
    current, \* per side: the number of its open re-INVITE, 0 if none is open
    count,   \* number of re-INVITEs sent so far
    source   \* per side: the re-INVITE its directions come from

holdVars == <<info, request, answer, current, count, source>>

HoldInit ==
    /\ info = [s \in Ends |-> [state |-> "Active", local |-> "sendrecv",
                                remote |-> "sendrecv", pending |-> NoDirection]]
    /\ request = [s \in Ends |-> <<>>]
    /\ answer = [s \in Ends |-> NoDirection]
    /\ current = [s \in Ends |-> 0]
    /\ count = 0
    /\ source = [s \in Ends |-> 0]

-----------------------------------------------------------------------------
\* The entry of a call whose directions are now local and remote.
WithDirections(i, local, remote) ==
    [i EXCEPT !.local = local, !.remote = remote, !.state = HoldState(local, remote)]

\* The application sends the re-INVITE, one at a time.
Send(s, d) ==
    /\ current[s] = 0 /\ request[s] = <<>> /\ count < MaxExchanges
    /\ count' = count + 1
    /\ current' = [current EXCEPT ![s] = count']
    /\ request' = [request EXCEPT ![s] = <<count', d>>]
    /\ info' = [info EXCEPT ![s].pending = d]
    /\ UNCHANGED <<answer, source>>

CreateHoldRequest(s, inactive) ==
    /\ info[s].state \notin {"LocalHold", "BothHold"}
    /\ Send(s, IF inactive THEN "inactive" ELSE "sendonly")

CreateResumeRequest(s) ==
    /\ info[s].state \in {"LocalHold", "BothHold"}
    /\ Send(s, "sendrecv")

\* handle_remote_hold: the re-INVITE of the peer of s, which s accepts.  The
\* answer is of no use to a peer that has given the re-INVITE up.
HandleRemoteHold(s) ==
    LET p == OtherEnd(s)
    IN  /\ request[p] # <<>>
        /\ LET n == request[p][1]
               d == request[p][2]
               i == WithDirections(info[s], Mirror(d), d)
           IN  /\ info' = [info EXCEPT ![s] = i]
               /\ source' = [source EXCEPT ![s] = n]
               /\ answer' = [answer EXCEPT ![p] = IF current[p] = n THEN i.local ELSE @]
        /\ request' = [request EXCEPT ![p] = <<>>]
        /\ UNCHANGED <<current, count>>

\* The application of s refuses it instead, and nothing of s changes.
Refuse(s) ==
    LET p == OtherEnd(s)
    IN  /\ request[p] # <<>>
        /\ answer' = [answer EXCEPT ![p] = IF current[p] = request[p][1] THEN "refused" ELSE @]
        /\ request' = [request EXCEPT ![p] = <<>>]
        /\ UNCHANGED <<info, current, count, source>>

HandleHoldResponse(s) ==
    /\ answer[s] \in Directions
    /\ info' = [info EXCEPT ![s] =
                  WithDirections([@ EXCEPT !.pending = NoDirection], @.pending, answer[s])]
    /\ source' = [source EXCEPT ![s] = current[s]]
    /\ answer' = [answer EXCEPT ![s] = NoDirection]
    /\ current' = [current EXCEPT ![s] = 0]
    /\ UNCHANGED <<request, count>>

\* cancel_pending: the re-INVITE was refused, or timed out with the request
\* or the answer still on the way.
CancelPending(s) ==
    /\ current[s] # 0
    /\ info' = [info EXCEPT ![s].pending = NoDirection]
    /\ answer' = [answer EXCEPT ![s] = NoDirection]
    /\ current' = [current EXCEPT ![s] = 0]
    /\ UNCHANGED <<request, count, source>>

\* The network loses a re-INVITE that was given up.
LoseReInvite(s) ==
    /\ request[s] # <<>> /\ current[s] = 0
    /\ request' = [request EXCEPT ![s] = <<>>]
    /\ UNCHANGED <<info, answer, current, count, source>>

HoldNext ==
    \E s \in Ends :
       \/ \E inactive \in BOOLEAN : CreateHoldRequest(s, inactive)
       \/ CreateResumeRequest(s) \/ HandleRemoteHold(s) \/ Refuse(s)
       \/ HandleHoldResponse(s) \/ CancelPending(s) \/ LoseReInvite(s)

HoldSpec == HoldInit /\ [][HoldNext]_holdVars

-----------------------------------------------------------------------------
(* Whatever re-INVITEs crossed, failed or were given up before, once the   *)
(* directions of both sides come from the same re-INVITE the two sides     *)
(* agree about the media: each side knows the direction of the other, one  *)
(* sends exactly when the other receives, and one believes to hold the     *)
(* other exactly when that believes to be held (hold.rs handle_remote_hold *)
(* and handle_hold_response).                                              *)
MediaAgrees ==
    source["a"] = source["b"] =>
       \A s \in Ends :
          LET mine == info[s]
              theirs == info[OtherEnd(s)]
          IN  /\ mine.remote = theirs.local
              /\ CanSend(mine.local) <=> CanRecv(theirs.local)
              /\ mine.state \in {"LocalHold", "BothHold"} <=>
                    theirs.state \in {"RemoteHold", "BothHold"}
=============================================================================
