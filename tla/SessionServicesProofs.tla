------------------------ MODULE SessionServicesProofs ------------------------
(***************************************************************************)
(* Proofs about the services of a session that run on top of its dialog:   *)
(* hold and resume (Hold) and call transfer (Transfer), about the          *)
(* registration (Registration), and about the framing of the TCP stream    *)
(* that carries their messages (StreamTransport).  Each part states an     *)
(* inductive invariant, shows that every action keeps it, and derives the  *)
(* property the model checker looks at on a small instance.                *)
(***************************************************************************)
EXTENDS Hold, Transfer, Registration, StreamTransport, WellFoundedInduction,
        SequenceTheorems, TLAPS

-----------------------------------------------------------------------------
(* Hold and resume.                                                        *)

HoldStates == {"Active", "LocalHold", "RemoteHold", "BothHold"}

HoldTypeOK ==
    /\ info \in [Ends -> [state : HoldStates, local : Directions, remote : Directions,
                           pending : Directions \cup {NoDirection}]]
    /\ request \in [Ends -> {<<>>} \cup (Nat \X Directions)]
    /\ answer \in [Ends -> Directions \cup {"refused", NoDirection}]
    /\ current \in [Ends -> Nat]
    /\ count \in Nat
    /\ source \in [Ends -> Nat]

\* Every number in use was given to a re-INVITE before.
NumbersAreKnown ==
    \A s \in Ends :
       /\ current[s] <= count
       /\ source[s] <= count
       /\ request[s] # <<>> => request[s][1] \in 1..count

\* A re-INVITE on the way is the open one of its sender, unless that has
\* given it up; it carries the pending direction, and nobody has applied it.
RequestIsOpen ==
    \A s \in Ends :
       /\ current[s] # 0 => info[s].pending \in Directions /\ source[s] # current[s]
       /\ request[s] # <<>> =>
             /\ current[s] # 0 => request[s] = <<current[s], info[s].pending>>
             /\ answer[s] = NoDirection
             /\ \A e \in Ends : source[e] # request[s][1]

\* The two sides use different numbers.
NumbersAreApart ==
    \A s \in Ends :
       LET p == OtherEnd(s)
       IN  /\ current[s] # 0 => current[p] # current[s]
           /\ request[s] # <<>> =>
                 /\ current[p] # request[s][1]
                 /\ request[p] # <<>> => request[p][1] # request[s][1]

\* An answer on the way belongs to the open re-INVITE, and a side that
\* follows a re-INVITE the other has still open has mirrored its direction.
AnswerFits ==
    \A s \in Ends :
       LET p == OtherEnd(s)
       IN  /\ answer[s] # NoDirection => current[s] # 0
           /\ answer[s] \in Directions => answer[s] = Mirror(info[s].pending)
           /\ current[s] # 0 /\ source[p] = current[s] =>
                 /\ info[p].local = Mirror(info[s].pending)
                 /\ info[p].remote = info[s].pending

\* The hold state follows from the directions, and sides that follow the same
\* re-INVITE have mirrored directions.
SidesAgree ==
    /\ \A s \in Ends : info[s].state = HoldState(info[s].local, info[s].remote)
    /\ source["a"] = source["b"] =>
          \A s \in Ends : /\ info[s].remote = info[OtherEnd(s)].local
                          /\ info[s].local = Mirror(info[s].remote)

HoldInv ==
    /\ HoldTypeOK
    /\ NumbersAreKnown
    /\ RequestIsOpen
    /\ NumbersAreApart
    /\ AnswerFits
    /\ SidesAgree

\* Mirroring stays within the directions and is its own inverse.
LEMMA MirrorFacts ==
    ASSUME NEW d \in Directions
    PROVE  Mirror(d) \in Directions /\ Mirror(Mirror(d)) = d
BY DEF Mirror, Directions

LEMMA HoldStateType ==
    ASSUME NEW l, NEW r
    PROVE  HoldState(l, r) \in HoldStates
BY DEF HoldState, HoldStates

LEMMA OtherEndFacts ==
    ASSUME NEW s \in Ends
    PROVE  /\ OtherEnd(s) \in Ends /\ OtherEnd(s) # s /\ OtherEnd(OtherEnd(s)) = s
           /\ \A e \in Ends : e = s \/ e = OtherEnd(s)
BY DEF Ends, OtherEnd

LEMMA HoldInitInv == HoldInit => HoldInv
<1> SUFFICES ASSUME HoldInit PROVE HoldInv
  OBVIOUS
<1> USE DEF HoldInit
<1>1. HoldTypeOK
  BY DEF HoldTypeOK, HoldStates, Directions
<1>2. NumbersAreKnown /\ RequestIsOpen
  BY DEF NumbersAreKnown, RequestIsOpen
<1>3. NumbersAreApart /\ AnswerFits
  BY OtherEndFacts DEF NumbersAreApart, AnswerFits, Directions, NoDirection
<1>4. SidesAgree
  BY OtherEndFacts DEF SidesAgree, HoldState, Mirror, Ends
<1> QED
  BY <1>1, <1>2, <1>3, <1>4 DEF HoldInv

\* Sending a re-INVITE uses a number that is new everywhere.
LEMMA SendInv ==
    ASSUME HoldInv, NEW s \in Ends, NEW d \in Directions, Send(s, d)
    PROVE  HoldInv'
<1> DEFINE p == OtherEnd(s)
<1> USE DEF HoldInv, HoldTypeOK
<1>0. p \in Ends /\ p # s /\ OtherEnd(p) = s /\ \A e \in Ends : e = s \/ e = p
  BY OtherEndFacts
<1>a. /\ current[s] = 0 /\ request[s] = <<>>
      /\ count' = count + 1
      /\ current' = [current EXCEPT ![s] = count + 1]
      /\ request' = [request EXCEPT ![s] = <<count + 1, d>>]
      /\ info' = [info EXCEPT ![s].pending = d]
      /\ answer' = answer /\ source' = source
  BY DEF Send
<1>b. /\ info'[s].pending = d /\ info'[p] = info[p]
      /\ info'[s].local = info[s].local /\ info'[s].remote = info[s].remote
      /\ info'[s].state = info[s].state
  BY <1>0, <1>a
<1>1. HoldTypeOK'
  <2>1. info' \in [Ends -> [state : HoldStates, local : Directions, remote : Directions,
                           pending : Directions \cup {NoDirection}]]
    BY <1>a
  <2>2. <<count + 1, d>> \in Nat \X Directions
    OBVIOUS
  <2> QED
    BY <1>a, <2>1, <2>2
<1>2. NumbersAreKnown'
  BY <1>a DEF NumbersAreKnown
<1>3. RequestIsOpen'
  BY <1>a DEF RequestIsOpen, NumbersAreKnown, AnswerFits
<1>4. NumbersAreApart'
  BY <1>0, <1>a DEF NumbersAreApart, NumbersAreKnown
<1>5. AnswerFits'
  <2>1. source[p] # count + 1 /\ answer[s] = NoDirection /\ current[p] # count + 1
    BY <1>0, <1>a DEF NumbersAreKnown, AnswerFits
  <2> QED
    BY <1>0, <1>a, <1>b, <2>1 DEF AnswerFits, Directions, NoDirection
<1>6. SidesAgree'
  BY <1>0, <1>a DEF SidesAgree
<1> QED
  BY <1>1, <1>2, <1>3, <1>4, <1>5, <1>6

LEMMA HandleRemoteHoldInv ==
    ASSUME HoldInv, NEW s \in Ends, HandleRemoteHold(s)
    PROVE  HoldInv'
<1> DEFINE p == OtherEnd(s)
           n == request[p][1]
           d == request[p][2]
           i == WithDirections(info[s], Mirror(d), d)
<1> USE DEF HoldInv, HoldTypeOK
<1>0. p \in Ends /\ p # s /\ OtherEnd(p) = s /\ \A e \in Ends : e = s \/ e = p
  BY OtherEndFacts
<1>a. /\ request[p] # <<>>
      /\ info' = [info EXCEPT ![s] = i]
      /\ source' = [source EXCEPT ![s] = n]
      /\ answer' = [answer EXCEPT ![p] = IF current[p] = n THEN i.local ELSE @]
      /\ request' = [request EXCEPT ![p] = <<>>]
      /\ current' = current /\ count' = count
  BY DEF HandleRemoteHold
<1>b. n \in Nat /\ d \in Directions /\ n \in 1..count /\ request[p] = <<n, d>>
  BY <1>0, <1>a DEF NumbersAreKnown
<1>c. /\ i.local = Mirror(d) /\ i.remote = d /\ i.pending = info[s].pending
      /\ i.state = HoldState(Mirror(d), d)
      /\ i \in [state : HoldStates, local : Directions, remote : Directions,
                pending : Directions \cup {NoDirection}]
  BY ZenonT(40), <1>b, MirrorFacts, HoldStateType DEF WithDirections
<1> HIDE DEF i
<1>1. HoldTypeOK'
  BY <1>0, <1>a, <1>b, <1>c, MirrorFacts
<1>2. NumbersAreKnown'
  BY <1>0, <1>a, <1>b DEF NumbersAreKnown
<1>3. RequestIsOpen'
  BY <1>0, <1>a, <1>b, <1>c DEF RequestIsOpen, NumbersAreApart
<1>4. NumbersAreApart'
  BY <1>0, <1>a DEF NumbersAreApart
<1>5. AnswerFits'
  BY <1>0, <1>a, <1>b, <1>c DEF AnswerFits, RequestIsOpen, NumbersAreApart
<1>6. SidesAgree'
  BY <1>0, <1>a, <1>b, <1>c DEF SidesAgree, RequestIsOpen, Ends
<1> QED
  BY <1>1, <1>2, <1>3, <1>4, <1>5, <1>6

LEMMA HandleHoldResponseInv ==
    ASSUME HoldInv, NEW s \in Ends, HandleHoldResponse(s)
    PROVE  HoldInv'
<1> DEFINE p == OtherEnd(s)
           i == WithDirections([info[s] EXCEPT !.pending = NoDirection],
                               info[s].pending, answer[s])
<1> USE DEF HoldInv, HoldTypeOK
<1>0. p \in Ends /\ p # s /\ OtherEnd(p) = s /\ \A e \in Ends : e = s \/ e = p
  BY OtherEndFacts
<1>a. /\ answer[s] \in Directions
      /\ info' = [info EXCEPT ![s] = i]
      /\ source' = [source EXCEPT ![s] = current[s]]
      /\ answer' = [answer EXCEPT ![s] = NoDirection]
      /\ current' = [current EXCEPT ![s] = 0]
      /\ request' = request /\ count' = count
  BY DEF HandleHoldResponse
<1>b. /\ current[s] # 0 /\ info[s].pending \in Directions
      /\ answer[s] = Mirror(info[s].pending) /\ request[s] = <<>>
  BY <1>a DEF AnswerFits, RequestIsOpen, Directions, NoDirection
<1>c. /\ i.local = info[s].pending /\ i.remote = answer[s] /\ i.pending = NoDirection
      /\ i.state = HoldState(info[s].pending, answer[s])
      /\ i \in [state : HoldStates, local : Directions, remote : Directions,
                pending : Directions \cup {NoDirection}]
  BY <1>a, <1>b, HoldStateType DEF WithDirections
<1> HIDE DEF i
<1>1. HoldTypeOK'
  BY <1>a, <1>b, <1>c
<1>2. NumbersAreKnown'
  BY <1>0, <1>a, <1>b DEF NumbersAreKnown
<1>3. RequestIsOpen'
  BY <1>0, <1>a, <1>b, <1>c DEF RequestIsOpen, NumbersAreApart
<1>4. NumbersAreApart'
  BY <1>0, <1>a DEF NumbersAreApart, NumbersAreKnown
<1>5. AnswerFits'
  BY <1>0, <1>a, <1>b, <1>c DEF AnswerFits, NumbersAreApart, Directions, NoDirection
<1>6. SidesAgree'
  BY <1>0, <1>a, <1>b, <1>c, MirrorFacts DEF SidesAgree, AnswerFits, Ends
<1> QED
  BY <1>1, <1>2, <1>3, <1>4, <1>5, <1>6

\* The steps that only drop a request, an answer or the pending direction.
LEMMA GiveUpInv ==
    ASSUME HoldInv, NEW s \in Ends, Refuse(s) \/ CancelPending(s) \/ LoseReInvite(s)
    PROVE  HoldInv'
<1> DEFINE p == OtherEnd(s)
<1> USE DEF HoldInv, HoldTypeOK
<1>0. p \in Ends /\ p # s /\ OtherEnd(p) = s /\ \A e \in Ends : e = s \/ e = p
  BY OtherEndFacts
<1>1. CASE Refuse(s)
  <2>1. HoldTypeOK'
    BY <1>0, <1>1 DEF Refuse
  <2>2. NumbersAreKnown' /\ RequestIsOpen' /\ NumbersAreApart'
    BY <1>0, <1>1 DEF Refuse, NumbersAreKnown, RequestIsOpen, NumbersAreApart
  <2>3. AnswerFits' /\ SidesAgree'
    BY <1>0, <1>1 DEF Refuse, AnswerFits, SidesAgree, NumbersAreKnown, Directions, NoDirection
  <2> QED
    BY <2>1, <2>2, <2>3
<1>2. CASE CancelPending(s)
  <2>1. HoldTypeOK'
    BY <1>2 DEF CancelPending
  <2>2. NumbersAreKnown' /\ RequestIsOpen' /\ NumbersAreApart'
    BY <1>0, <1>2 DEF CancelPending, NumbersAreKnown, RequestIsOpen, NumbersAreApart
  <2>3. AnswerFits' /\ SidesAgree'
    BY <1>0, <1>2 DEF CancelPending, AnswerFits, SidesAgree, Directions, NoDirection
  <2> QED
    BY <2>1, <2>2, <2>3
<1>3. CASE LoseReInvite(s)
  BY <1>0, <1>3 DEF LoseReInvite, NumbersAreKnown, RequestIsOpen, NumbersAreApart,
                    AnswerFits, SidesAgree
<1> QED
  BY <1>1, <1>2, <1>3

LEMMA HoldNextInv == HoldInv /\ [HoldNext]_holdVars => HoldInv'
<1> SUFFICES ASSUME HoldInv, [HoldNext]_holdVars PROVE HoldInv'
  OBVIOUS
<1>1. CASE UNCHANGED holdVars
  BY <1>1 DEF holdVars, HoldInv, HoldTypeOK, NumbersAreKnown, RequestIsOpen,
              NumbersAreApart, AnswerFits, SidesAgree
<1>2. ASSUME NEW s \in Ends, NEW inactive \in BOOLEAN, CreateHoldRequest(s, inactive)
      PROVE  HoldInv'
  <2> DEFINE d == IF inactive THEN "inactive" ELSE "sendonly"
  <2>1. d \in Directions /\ Send(s, d)
    BY <1>2 DEF CreateHoldRequest, Directions
  <2> QED
    BY <2>1, SendInv
<1>3. ASSUME NEW s \in Ends, CreateResumeRequest(s)
      PROVE  HoldInv'
  <2>1. "sendrecv" \in Directions /\ Send(s, "sendrecv")
    BY <1>3 DEF CreateResumeRequest, Directions
  <2> QED
    BY <2>1, SendInv
<1> QED
  BY <1>1, <1>2, <1>3, HandleRemoteHoldInv, HandleHoldResponseInv, GiveUpInv DEF HoldNext

\* Sides with mirrored directions agree on who sends, who receives and who
\* holds whom.
LEMMA SidesAgreeMedia == HoldInv => MediaAgrees
<1> SUFFICES ASSUME HoldInv, source["a"] = source["b"], NEW s \in Ends
             PROVE  LET mine == info[s]
                        theirs == info[OtherEnd(s)]
                    IN  /\ mine.remote = theirs.local
                        /\ CanSend(mine.local) <=> CanRecv(theirs.local)
                        /\ mine.state \in {"LocalHold", "BothHold"} <=>
                              theirs.state \in {"RemoteHold", "BothHold"}
  BY DEF MediaAgrees
<1> DEFINE l == info[s].local
           r == info[s].remote
           t == info[OtherEnd(s)]
<1>1. /\ l \in Directions /\ r \in Directions /\ t.local = r /\ t.remote = l
      /\ l = Mirror(r)
      /\ info[s].state = HoldState(l, r) /\ t.state = HoldState(r, l)
  BY OtherEndFacts DEF HoldInv, HoldTypeOK, SidesAgree
<1> HIDE DEF l, r, t
<1>2. CanSend(l) <=> CanRecv(r)
  BY <1>1 DEF CanSend, CanRecv, Mirror, Directions
<1>3. HoldState(l, r) \in {"LocalHold", "BothHold"} <=>
         HoldState(r, l) \in {"RemoteHold", "BothHold"}
  BY <1>1 DEF HoldState
<1> QED
  BY <1>1, <1>2, <1>3 DEF l, r, t

(* However many re-INVITEs the two sides of a call send, and whichever of  *)
(* them cross, are refused, lost or given up, two sides that follow the    *)
(* same re-INVITE agree about the media (hold.rs handle_remote_hold and    *)
(* handle_hold_response).                                                  *)
THEOREM HoldAgreement == HoldSpec => []MediaAgrees
<1>1. HoldInit => HoldInv
  BY HoldInitInv
<1>2. HoldInv /\ [HoldNext]_holdVars => HoldInv'
  BY HoldNextInv
<1>3. HoldInv => MediaAgrees
  BY SidesAgreeMedia
<1> QED
  BY <1>1, <1>2, <1>3, PTL DEF HoldSpec

-----------------------------------------------------------------------------
(* Transfer.                                                               *)

TransferStates ==
    {"None", "Pending", "InProgress", "Accepted", "Completed", "Failed"}

TrTypeOK ==
    /\ transfer \in [Parties -> [state : TransferStates,
                                 role : {"none", "Transferor", "Transferee"}]]
    /\ flight \subseteq [to : Parties, refer : 1..refers,
                         kind : {"REFER", "response", "NOTIFY"}, code : Nat]
    /\ calls \in [1..MaxRefers -> {"none", "calling", "refused", "succeeded", "failed"}]
    /\ refers \in 0..MaxRefers
    /\ from \in [1..MaxRefers -> Parties \cup {"none"}]
    /\ \A r \in 1..refers : from[r] \in Parties
    /\ \A r \in 1..MaxRefers : r \notin 1..refers => calls[r] = "none"

\* A REFER on the way has not been taken up; its answers go to its sender,
\* and what they report as the end of the call is its end.
MessagesAreTrue ==
    \A m \in flight :
       /\ m.kind = "REFER" =>
             m.code = 0 /\ m.to = OtherParty(from[m.refer]) /\ calls[m.refer] = "none"
       /\ m.kind = "response" =>
             /\ m.to = from[m.refer]
             /\ m.code = 202 \/ (m.code = 603 /\ calls[m.refer] = "refused")
       /\ m.kind = "NOTIFY" =>
             /\ m.to = from[m.refer]
             /\ \/ m.code = 180
                \/ m.code = 200 /\ calls[m.refer] = "succeeded"
                \/ m.code = 486 /\ calls[m.refer] = "failed"

\* What a party shows was the end of a REFER it sent.
ShownIsTrue ==
    \A p \in Parties :
       /\ transfer[p].state = "Completed" =>
             \E r \in 1..refers : from[r] = p /\ calls[r] = "succeeded"
       /\ transfer[p].state = "Failed" =>
             \E r \in 1..refers : from[r] = p /\ calls[r] \in {"failed", "refused"}

TrInv == TrTypeOK /\ MessagesAreTrue /\ ShownIsTrue

LEMMA OtherPartyFacts ==
    ASSUME NEW p \in Parties
    PROVE  OtherParty(p) \in Parties /\ OtherParty(OtherParty(p)) = p /\ OtherParty(p) # p
BY DEF Parties, OtherParty

\* A message of the flight, field by field.
LEMMA FlightFields ==
    ASSUME NEW p, NEW r, NEW k, NEW c
    PROVE  /\ Flight(p, r, k, c).to = p /\ Flight(p, r, k, c).refer = r
           /\ Flight(p, r, k, c).kind = k /\ Flight(p, r, k, c).code = c
BY DEF Flight

LEMMA InitiateTransferInv ==
    ASSUME TrInv, NEW p \in Parties, InitiateTransfer(p)
    PROVE  TrInv'
<1> DEFINE m == Flight(OtherParty(p), refers + 1, "REFER", 0)
<1> USE TransferAssumption DEF TrInv
<1>a. /\ refers < MaxRefers /\ refers' = refers + 1 /\ calls' = calls
      /\ from' = [from EXCEPT ![refers + 1] = p]
      /\ transfer' = [transfer EXCEPT ![p] = [state |-> "Pending", role |-> "Transferor"]]
      /\ flight' = flight \cup {m}
  BY DEF InitiateTransfer
<1>b. /\ refers \in Nat /\ MaxRefers \in Nat /\ 1..refers \subseteq 1..refers'
      /\ refers' \in 0..MaxRefers /\ refers + 1 \in 1..MaxRefers
      /\ refers + 1 \notin 1..refers /\ 1..refers' = 1..refers \cup {refers + 1}
  BY <1>a DEF TrTypeOK
<1>c. m \in [to : Parties, refer : 1..refers', kind : {"REFER", "response", "NOTIFY"}, code : Nat]
  BY <1>b, OtherPartyFacts DEF Flight
<1>1. TrTypeOK'
  BY <1>a, <1>b, <1>c DEF TrTypeOK, TransferStates
<1>2. MessagesAreTrue'
  <2>1. calls[refers + 1] = "none"
    BY <1>b DEF TrTypeOK
  <2> QED
    BY <1>a, <1>b, <2>1, FlightFields DEF MessagesAreTrue, TrTypeOK
<1>3. ShownIsTrue'
  BY SMTT(30), <1>a, <1>b DEF ShownIsTrue, TrTypeOK
<1> QED
  BY <1>1, <1>2, <1>3

\* A REFER is taken up or refused: from then on its call is no longer "none",
\* and no other REFER message bears its number.
LEMMA TakeReferInv ==
    ASSUME TrInv, NEW p \in Parties, NEW m \in flight,
           HandleIncomingRefer(p, m) \/ RefuseRefer(p, m)
    PROVE  TrInv'
<1> DEFINE r == m.refer
           q == OtherParty(p)
           M == [to : Parties, refer : 1..refers, kind : {"REFER", "response", "NOTIFY"}, code : Nat]
<1> USE TransferAssumption DEF TrInv
<1>a. /\ m.kind = "REFER" /\ m.to = p /\ m.code = 0 /\ r \in 1..refers /\ r \in 1..MaxRefers
      /\ calls[r] = "none" /\ q \in Parties /\ from[r] = q
      /\ m = [to |-> p, refer |-> r, kind |-> "REFER", code |-> 0]
  BY OtherPartyFacts DEF HandleIncomingRefer, RefuseRefer, MessagesAreTrue, TrTypeOK
<1>b. \A o \in flight : o.kind = "REFER" /\ o.refer = r => o = m
  BY <1>a DEF MessagesAreTrue, TrTypeOK
<1>c. \A o \in flight : o.kind # "REFER" /\ o.refer = r =>
         (o.kind = "response" /\ o.code = 202) \/ (o.kind = "NOTIFY" /\ o.code = 180)
  BY <1>a DEF MessagesAreTrue, TrTypeOK
<1>1. CASE HandleIncomingRefer(p, m)
  <2>a. /\ transfer' = [transfer EXCEPT ![p] = [state |-> "InProgress", role |-> "Transferee"]]
        /\ calls' = [calls EXCEPT ![r] = "calling"]
        /\ flight' = (flight \ {m}) \cup {Flight(q, r, "response", 202), Flight(q, r, "NOTIFY", 180)}
        /\ refers' = refers /\ from' = from
    BY <1>1 DEF HandleIncomingRefer
  <2>b. Flight(q, r, "response", 202) \in M /\ Flight(q, r, "NOTIFY", 180) \in M
    BY <1>a DEF Flight
  <2>1. TrTypeOK'
    BY <1>a, <2>a, <2>b DEF TrTypeOK, TransferStates
  <2>2. MessagesAreTrue'
    BY <1>a, <1>b, <1>c, <2>a, FlightFields DEF MessagesAreTrue, TrTypeOK
  <2>3. ShownIsTrue'
    BY SMTT(30), <1>a, <2>a DEF ShownIsTrue, TrTypeOK
  <2> QED
    BY <2>1, <2>2, <2>3
<1>2. CASE RefuseRefer(p, m)
  <2>a. /\ transfer' = transfer /\ refers' = refers /\ from' = from
        /\ calls' = [calls EXCEPT ![r] = "refused"]
        /\ flight' = (flight \ {m}) \cup {Flight(q, r, "response", 603)}
    BY <1>2 DEF RefuseRefer
  <2>b. Flight(q, r, "response", 603) \in M
    BY <1>a DEF Flight
  <2>1. TrTypeOK'
    BY <1>a, <2>a, <2>b DEF TrTypeOK
  <2>2. MessagesAreTrue'
    BY <1>a, <1>b, <1>c, <2>a, FlightFields DEF MessagesAreTrue, TrTypeOK
  <2>3. ShownIsTrue'
    BY <1>a, <2>a DEF ShownIsTrue, TrTypeOK
  <2> QED
    BY <2>1, <2>2, <2>3
<1> QED
  BY <1>1, <1>2

LEMMA CallEndsInv ==
    ASSUME TrInv, NEW r \in 1..refers, NEW code \in {200, 486}, CallEnds(r, code)
    PROVE  TrInv'
<1> DEFINE m == Flight(from[r], r, "NOTIFY", code)
           end == IF code = 200 THEN "succeeded" ELSE "failed"
<1> USE TransferAssumption DEF TrInv
<1>a. /\ r \in 1..MaxRefers /\ calls[r] = "calling" /\ from[r] \in Parties
      /\ calls' = [calls EXCEPT ![r] = end]
      /\ flight' = flight \cup {m}
      /\ transfer' = transfer /\ refers' = refers /\ from' = from
  BY DEF CallEnds, TrTypeOK
<1>b. m \in [to : Parties, refer : 1..refers, kind : {"REFER", "response", "NOTIFY"}, code : Nat]
  BY <1>a DEF Flight
<1>1. TrTypeOK'
  BY <1>a, <1>b DEF TrTypeOK
<1>2. MessagesAreTrue'
  BY <1>a, FlightFields DEF MessagesAreTrue, TrTypeOK
<1>3. ShownIsTrue'
  BY SMTT(30), <1>a DEF ShownIsTrue, TrTypeOK
<1> QED
  BY <1>1, <1>2, <1>3

\* A response or a NOTIFY is applied to whatever state the party is in.
LEMMA ApplyAnswerInv ==
    ASSUME TrInv, NEW p \in Parties, NEW m \in flight,
           HandleReferResponse(p, m) \/ HandleNotify(p, m)
    PROVE  TrInv'
<1> USE TransferAssumption DEF TrInv
<1>a. /\ m.to = p /\ m.refer \in 1..refers /\ from[m.refer] = p
      /\ flight' = flight \ {m} /\ calls' = calls /\ refers' = refers /\ from' = from
  BY DEF HandleReferResponse, HandleNotify, MessagesAreTrue, TrTypeOK
<1>b. MessagesAreTrue'
  BY <1>a DEF MessagesAreTrue
<1>1. CASE transfer' = transfer
  <2>1. TrTypeOK'
    BY <1>1, <1>a DEF TrTypeOK
  <2>2. ShownIsTrue'
    BY <1>1, <1>a DEF ShownIsTrue
  <2> QED
    BY <1>b, <2>1, <2>2
<1>2. ASSUME NEW st \in TransferStates,
             transfer' = [transfer EXCEPT ![p].state = st],
             st = "Completed" => calls[m.refer] = "succeeded",
             st = "Failed" => calls[m.refer] \in {"failed", "refused"} \/ transfer[p].state = "Failed"
      PROVE  TrInv'
  <2>0. transfer'[p].state = st /\ \A q \in Parties \ {p} : transfer'[q] = transfer[q]
    BY <1>2 DEF TrTypeOK
  <2>1. TrTypeOK'
    BY <1>2, <1>a DEF TrTypeOK
  <2>2. ShownIsTrue'
    BY <1>2, <1>a, <2>0 DEF ShownIsTrue
  <2> QED
    BY <1>b, <2>1, <2>2
<1>3. CASE HandleReferResponse(p, m)
  <2> DEFINE st == AfterResponse(transfer[p].state, m.code)
  <2>1. m.code = 202 \/ (m.code = 603 /\ calls[m.refer] = "refused")
    BY <1>3 DEF HandleReferResponse, MessagesAreTrue
  <2>2. st = "Accepted" \/ (st = "Failed" /\ calls[m.refer] = "refused")
    BY <2>1 DEF AfterResponse
  <2>3. transfer' = transfer \/ transfer' = [transfer EXCEPT ![p].state = st]
    BY <1>3 DEF HandleReferResponse
  <2> HIDE DEF st
  <2> QED
    BY <1>1, <1>2, <2>2, <2>3 DEF TransferStates
<1>4. CASE HandleNotify(p, m)
  <2> DEFINE st == AfterNotify(m.code)
  <2>1. \/ m.code = 180
        \/ m.code = 200 /\ calls[m.refer] = "succeeded"
        \/ m.code = 486 /\ calls[m.refer] = "failed"
    BY <1>4 DEF HandleNotify, MessagesAreTrue
  <2>2. \/ st = "InProgress"
        \/ st = "Completed" /\ calls[m.refer] = "succeeded"
        \/ st = "Failed" /\ calls[m.refer] = "failed"
    BY <2>1 DEF AfterNotify
  <2>3. transfer' = transfer \/ transfer' = [transfer EXCEPT ![p].state = st]
    BY <1>4 DEF HandleNotify
  <2> HIDE DEF st
  <2> QED
    BY <1>1, <1>2, <2>2, <2>3 DEF TransferStates
<1> QED
  BY <1>3, <1>4

LEMMA TrInitInv == TrInit => TrInv
BY TransferAssumption DEF TrInit, TrInv, TrTypeOK, MessagesAreTrue, ShownIsTrue,
                          Absent, TransferStates

LEMMA TrNextInv == TrInv /\ [TrNext]_trVars => TrInv'
<1> SUFFICES ASSUME TrInv, [TrNext]_trVars PROVE TrInv'
  OBVIOUS
<1>1. CASE UNCHANGED trVars
  BY <1>1 DEF trVars, TrInv, TrTypeOK, MessagesAreTrue, ShownIsTrue
<1>2. ASSUME NEW p \in Parties, Clear(p)
      PROVE  TrInv'
  BY <1>2 DEF Clear, TrInv, TrTypeOK, MessagesAreTrue, ShownIsTrue, Absent, TransferStates
<1>3. ASSUME NEW m \in flight, Drop(m)
      PROVE  TrInv'
  BY <1>3 DEF Drop, TrInv, TrTypeOK, MessagesAreTrue, ShownIsTrue
<1> QED
  BY <1>1, <1>2, <1>3, InitiateTransferInv, TakeReferInv, CallEndsInv, ApplyAnswerInv
  DEF TrNext

(* For any number of REFERs of the two parties, and however their          *)
(* responses and NOTIFYs overtake each other, are lost or meet an entry    *)
(* that was cleared or overwritten, a transfer shown as Completed or       *)
(* Failed is one that ended so (transfer.rs handle_refer_response and      *)
(* handle_notify).                                                         *)
THEOREM TransferOutcome == TrSpec => []OutcomeIsTrue
<1>1. TrInit => TrInv
  BY TrInitInv
<1>2. TrInv /\ [TrNext]_trVars => TrInv'
  BY TrNextInv
<1>3. TrInv => OutcomeIsTrue
  BY DEF TrInv, ShownIsTrue, OutcomeIsTrue
<1> QED
  BY <1>1, <1>2, <1>3, PTL DEF TrSpec

-----------------------------------------------------------------------------
(* Registration.                                                           *)

RegStates ==
    {"unregistered", "registering", "registered", "refreshing", "unregistering", "failed"}

Codes == {"ok", "challenge", "error", "trying", "other"}

RegTypeOK ==
    /\ reg \in [state : RegStates, cseq : Nat, challenge : Nat, nc : Nat]
    /\ drv \in [pc : {"idle", "waiting"}, attempts : {0, 1}]
    /\ requests \subseteq [cseq : Nat, expires : BOOLEAN, nonce : Nat, nc : Nat]
    /\ responses \subseteq [code : Codes, cseq : Nat, nonce : Nat]
    /\ registrar \in [bound : BOOLEAN, cseq : Nat, nonce : Nat, nc : Nat]
    /\ late \in BOOLEAN

\* The answers that end or continue a call; "trying" does neither.
Finals == {m \in responses : m.code # "trying"}

\* While no call gave up, the datagrams under way are one request or one
\* answer to it, and none when no call is running.
OneOutstanding ==
    /\ drv.pc = "idle" => requests = {} /\ Finals = {}
    /\ \A q1, q2 \in requests : q1 = q2
    /\ \A m1, m2 \in Finals : m1 = m2
    /\ requests # {} => Finals = {}

\* A call that registers has only asked for a binding, and is told "ok" only
\* when there is one; "registered" is left behind before the next call asks.
AskedForBinding ==
    /\ drv.pc = "waiting" => reg.state \in {"registering", "refreshing", "unregistering"}
    /\ drv.pc = "waiting" /\ reg.state # "unregistering" =>
          /\ \A q \in requests : q.expires
          /\ (\E m \in responses : m.code = "ok") => registrar.bound
    /\ reg.state = "registered" => registrar.bound

RegInv == RegTypeOK /\ (~late => OneOutstanding /\ AskedForBinding)

LEMMA RegInitInv == RegInit => RegInv
<1> SUFFICES ASSUME RegInit PROVE RegInv
  OBVIOUS
<1>1. RegTypeOK
  BY DEF RegInit, RegTypeOK, RegStates, NoNonce
<1>2. OneOutstanding /\ AskedForBinding
  BY DEF RegInit, OneOutstanding, AskedForBinding, Finals
<1> QED
  BY <1>1, <1>2 DEF RegInv

\* register and unregister start from an idle driver, with nothing under way.
LEMMA CallInv ==
    ASSUME RegInv, Register \/ Unregister
    PROVE  RegInv'
<1> USE DEF RegInv
<1>1. /\ drv.pc = "idle" /\ drv' = [pc |-> "waiting", attempts |-> 0]
      /\ responses' = responses /\ registrar' = registrar /\ late' = late
  BY DEF Register, Unregister
<1>2. reg' \in [state : RegStates, cseq : Nat, challenge : Nat, nc : Nat]
  <2>0. /\ reg \in [state : RegStates, cseq : Nat, challenge : Nat, nc : Nat]
        /\ reg.cseq + 1 \in Nat /\ reg.nc \in Nat /\ reg.nc + 1 \in Nat
    BY DEF RegTypeOK
  <2>1. CASE Register
    <3> DEFINE st == IF reg.state = "registered" THEN "refreshing" ELSE "registering"
    <3>1. reg' = [reg EXCEPT !.state = st, !.cseq = reg.cseq + 1]
      BY <2>1 DEF Register
    <3>2. st \in RegStates
      BY DEF RegStates
    <3> HIDE DEF st
    <3> QED
      BY <2>0, <3>1, <3>2
  <2>2. CASE Unregister
    <3> DEFINE n == IF reg.challenge # NoNonce THEN reg.nc + 1 ELSE reg.nc
    <3>1. reg' = [reg EXCEPT !.state = "unregistering", !.cseq = reg.cseq + 1, !.nc = n]
      BY <2>2 DEF Unregister
    <3>2. n \in Nat /\ "unregistering" \in RegStates
      BY <2>0 DEF RegStates
    <3> HIDE DEF n
    <3> QED
      BY <2>0, <3>1, <3>2
  <2> QED
    BY <2>1, <2>2
<1>3. PICK expires \in BOOLEAN, known \in BOOLEAN :
         /\ requests' = requests \cup {Request(reg', expires, known)}
         /\ reg'.state \in {"registering", "refreshing", "unregistering"}
         /\ reg'.state # "unregistering" => expires
  <2>1. CASE Register
    BY <2>1 DEF Register, RegTypeOK
  <2>2. CASE Unregister
    BY <2>2 DEF Unregister, RegTypeOK
  <2> QED
    BY <2>1, <2>2
<1>4. /\ Request(reg', expires, known) \in [cseq : Nat, expires : BOOLEAN, nonce : Nat, nc : Nat]
      /\ Request(reg', expires, known).expires = expires
  BY <1>2 DEF Request, NoNonce
<1>5. RegTypeOK'
  BY <1>1, <1>2, <1>3, <1>4 DEF RegTypeOK
<1>6. ASSUME ~late' PROVE OneOutstanding' /\ AskedForBinding'
  <2>1. requests = {} /\ Finals = {} /\ Finals' = Finals
    BY <1>1, <1>6 DEF OneOutstanding, Finals
  <2>2. OneOutstanding'
    BY <1>1, <1>3, <2>1 DEF OneOutstanding
  <2>3. \A m \in responses : m.code # "ok"
    BY <2>1 DEF Finals
  <2>4. AskedForBinding'
    BY <1>1, <1>3, <1>4, <2>1, <2>3 DEF AskedForBinding
  <2> QED
    BY <2>2, <2>4
<1> QED
  BY <1>5, <1>6

\* The driver reads an answer.
LEMMA ReceiveInv ==
    ASSUME RegInv, Receive
    PROVE  RegInv'
<1> USE DEF RegInv
<1>1. PICK m \in responses : /\ drv.pc = "waiting" /\ HandleResponse(m)
                             /\ responses' = responses \ {m}
                             /\ registrar' = registrar /\ late' = late
  BY DEF Receive
<1>2. Finals' = Finals \ {m}
  BY <1>1 DEF Finals
<1>3. CASE HandleOk(m)
  <2>1. RegTypeOK'
    BY <1>1, <1>3 DEF HandleOk, ReturnedTo, RegTypeOK, RegStates
  <2>2. ASSUME ~late' PROVE OneOutstanding' /\ AskedForBinding'
    <3>1. m \in Finals /\ requests = {} /\ Finals' = {}
      BY <1>1, <1>2, <1>3, <2>2 DEF HandleOk, OneOutstanding, Finals
    <3>2. OneOutstanding'
      BY <1>3, <3>1 DEF HandleOk, OneOutstanding
    <3>3. AskedForBinding'
      BY <1>1, <1>3, <2>2, <3>1 DEF HandleOk, ReturnedTo, AskedForBinding, RegTypeOK
    <3> QED
      BY <3>2, <3>3
  <2> QED
    BY <2>1, <2>2
<1>4. CASE HandleChallenge(m)
  <2> DEFINE q == Request(reg', TRUE, TRUE)
  <2>0. /\ reg' = [reg EXCEPT !.challenge = m.nonce, !.cseq = @ + 1, !.nc = @ + 1]
        /\ \/ drv' = [drv EXCEPT !.attempts = 1] /\ requests' = requests \cup {q}
           \/ drv' = [drv EXCEPT !.pc = "idle"] /\ requests' = requests
        /\ m.code = "challenge"
    BY <1>4 DEF HandleChallenge, ReturnedTo
  <2>1. reg' \in [state : RegStates, cseq : Nat, challenge : Nat, nc : Nat] /\ reg'.state = reg.state
    <3>1. m.nonce \in Nat /\ reg.cseq + 1 \in Nat /\ reg.nc + 1 \in Nat
      BY DEF RegTypeOK
    <3> QED
      BY <2>0, <3>1 DEF RegTypeOK
  <2>2. q \in [cseq : Nat, expires : BOOLEAN, nonce : Nat, nc : Nat] /\ q.expires
    BY <2>1 DEF Request
  <2> HIDE DEF q
  <2>3. RegTypeOK'
    BY <1>1, <2>0, <2>1, <2>2 DEF RegTypeOK
  <2>4. ASSUME ~late' PROVE OneOutstanding' /\ AskedForBinding'
    <3>1. m \in Finals /\ requests = {} /\ Finals' = {}
      BY <1>1, <1>2, <2>0, <2>4 DEF OneOutstanding, Finals
    <3>2. OneOutstanding'
      <4>1. drv'.pc = "waiting" \/ (drv'.pc = "idle" /\ requests' = requests)
        BY <1>1, <2>0 DEF RegTypeOK
      <4> QED
        BY <2>0, <3>1, <4>1 DEF OneOutstanding
    <3>3. AskedForBinding'
      BY <1>1, <2>0, <2>1, <2>2, <2>4, <3>1 DEF AskedForBinding, RegTypeOK
    <3> QED
      BY <3>2, <3>3
  <2> QED
    BY <2>3, <2>4
<1>5. CASE HandleError(m) \/ HandleOther(m)
  <2>0. /\ reg' = reg \/ reg' = [reg EXCEPT !.state = "failed"]
        /\ drv' = [drv EXCEPT !.pc = "idle"] /\ requests' = requests
        /\ m.code # "trying"
    BY <1>5 DEF HandleError, HandleOther, ReturnedTo
  <2>1. RegTypeOK'
    BY <1>1, <2>0 DEF RegTypeOK, RegStates
  <2>2. ASSUME ~late' PROVE OneOutstanding' /\ AskedForBinding'
    <3>1. m \in Finals /\ requests = {} /\ Finals' = {}
      BY <1>1, <1>2, <2>0, <2>2 DEF OneOutstanding, Finals
    <3>2. OneOutstanding'
      BY <2>0, <3>1 DEF OneOutstanding
    <3>3. AskedForBinding'
      BY <1>1, <2>0, <2>2 DEF AskedForBinding, RegTypeOK
    <3> QED
      BY <3>2, <3>3
  <2> QED
    BY <2>1, <2>2
<1>6. CASE HandleProvisional(m)
  <2>1. RegTypeOK'
    BY <1>1, <1>6 DEF HandleProvisional, RegTypeOK
  <2>2. ASSUME ~late' PROVE OneOutstanding' /\ AskedForBinding'
    BY <1>1, <1>2, <1>6, <2>2 DEF HandleProvisional, OneOutstanding, AskedForBinding
  <2> QED
    BY <2>1, <2>2
<1> QED
  BY <1>1, <1>3, <1>4, <1>5, <1>6 DEF HandleResponse

\* The registrar answers a request: the request leaves, one final answer comes.
LEMMA RegistrarInv ==
    ASSUME RegInv, RegistrarAccepts \/ RegistrarRefuses \/ RegistrarChallenges
    PROVE  RegInv'
<1> USE DEF RegInv
<1>1. PICK q \in requests, code \in Codes \ {"trying"}, nonce \in Nat :
         /\ Answers(q, code, nonce) /\ requests' = requests \ {q}
         /\ reg' = reg /\ drv' = drv /\ late' = late
         /\ registrar' \in [bound : BOOLEAN, cseq : Nat, nonce : Nat, nc : Nat]
         /\ \/ registrar'.bound = registrar.bound /\ code # "ok"
            \/ registrar'.bound = q.expires
  <2>1. CASE RegistrarAccepts
    <3>1. PICK q \in requests :
             /\ registrar' = [registrar EXCEPT !.bound = q.expires, !.cseq = q.cseq, !.nc = q.nc]
             /\ Answers(q, "ok", NoNonce)
             /\ requests' = requests \ {q}
             /\ reg' = reg /\ drv' = drv /\ late' = late
      BY <2>1 DEF RegistrarAccepts
    <3> QED
      BY <3>1 DEF RegTypeOK, Codes, NoNonce
  <2>2. CASE RegistrarRefuses
    BY <2>2 DEF RegistrarRefuses, RegTypeOK, Codes, NoNonce
  <2>3. CASE RegistrarChallenges
    <3>1. PICK q \in requests :
             /\ \/ registrar' = [registrar EXCEPT !.nonce = @ + 1, !.nc = 0]
                \/ registrar' = registrar
             /\ Answers(q, "challenge", registrar'.nonce)
             /\ requests' = requests \ {q}
             /\ reg' = reg /\ drv' = drv /\ late' = late
      BY <2>3 DEF RegistrarChallenges
    <3>2. /\ registrar' \in [bound : BOOLEAN, cseq : Nat, nonce : Nat, nc : Nat]
          /\ registrar'.bound = registrar.bound
      <4>1. /\ registrar \in [bound : BOOLEAN, cseq : Nat, nonce : Nat, nc : Nat]
            /\ registrar.nonce + 1 \in Nat
        BY DEF RegTypeOK
      <4>2. CASE registrar' = [registrar EXCEPT !.nonce = @ + 1, !.nc = 0]
        <5>1. registrar'.bound = registrar.bound
          BY <4>1, <4>2
        <5>2. registrar' \in [bound : BOOLEAN, cseq : Nat, nonce : Nat, nc : Nat]
          BY <4>1, <4>2
        <5> QED
          BY <5>1, <5>2
      <4> QED
        BY <3>1, <4>1, <4>2
    <3>3. registrar'.nonce \in Nat /\ "challenge" \in Codes \ {"trying"}
      BY <3>2 DEF Codes
    <3> QED
      BY <3>1, <3>2, <3>3
  <2> QED
    BY <2>1, <2>2, <2>3
<1> DEFINE a == [code |-> code, cseq |-> q.cseq, nonce |-> nonce]
           t == [code |-> "trying", cseq |-> q.cseq, nonce |-> NoNonce]
<1>2. /\ responses' = responses \cup {a} \/ responses' = responses \cup {a, t}
      /\ a.code = code /\ t.code = "trying" /\ a # t
  BY <1>1 DEF Answers
<1>3. RegTypeOK'
  <2>1. a \in [code : Codes, cseq : Nat, nonce : Nat] /\ t \in [code : Codes, cseq : Nat, nonce : Nat]
    BY DEF RegTypeOK, Codes, NoNonce
  <2> QED
    BY <1>1, <1>2, <2>1 DEF RegTypeOK
<1> HIDE DEF a, t
<1>4. Finals' = Finals \cup {a}
  BY <1>1, <1>2 DEF Finals
<1>5. ASSUME ~late' PROVE OneOutstanding' /\ AskedForBinding'
  <2>1. drv.pc = "waiting" /\ Finals = {} /\ requests' = {}
    BY <1>1, <1>5 DEF OneOutstanding, RegTypeOK
  <2>2. OneOutstanding'
    BY <1>1, <1>4, <2>1 DEF OneOutstanding
  <2>3. \A m \in responses : m.code # "ok"
    BY <2>1 DEF Finals
  <2>4. AskedForBinding'
    BY <1>1, <1>2, <1>5, <2>1, <2>3 DEF AskedForBinding
  <2> QED
    BY <2>2, <2>4
<1> QED
  BY <1>3, <1>5

LEMMA RegNextInv == RegInv /\ [RegNext]_regVars => RegInv'
<1> SUFFICES ASSUME RegInv, [RegNext]_regVars PROVE RegInv'
  OBVIOUS
<1>1. CASE UNCHANGED regVars
  BY <1>1 DEF regVars, RegInv, RegTypeOK, OneOutstanding, AskedForBinding, Finals
<1>2. CASE Reset
  BY <1>2 DEF Reset, RegInv, RegTypeOK, OneOutstanding, AskedForBinding, Finals, RegStates, NoNonce
<1>3. CASE GiveUp
  BY <1>3 DEF GiveUp, ReturnedTo, RegInv, RegTypeOK
<1> QED
  BY <1>1, <1>2, <1>3, CallInv, ReceiveInv, RegistrarInv DEF RegNext

(* For any number of requests and nonces, and whichever requests are       *)
(* challenged, refused or answered provisionally: a manager that says it   *)
(* is registered has its binding at the registrar, as long as no call gave *)
(* up with an answer still to come (registration.rs handle_response, which *)
(* does not compare the CSeq).                                             *)
THEOREM RegisteredIsBound == RegSpec => []RegisteredMeansBound
<1>1. RegInit => RegInv
  BY RegInitInv
<1>2. RegInv /\ [RegNext]_regVars => RegInv'
  BY RegNextInv
<1>3. RegInv => RegisteredMeansBound
  BY DEF RegInv, AskedForBinding, RegisteredMeansBound
<1> QED
  BY <1>1, <1>2, <1>3, PTL DEF RegSpec

-----------------------------------------------------------------------------
(* The framing of the TCP byte stream.  What the peer has sent and the     *)
(* application has not got yet, in the buffer of the read loop and on the  *)
(* wire, is a sequence of line ends and whole messages: a numbering of its *)
(* boundaries says how many messages come before each.  Stripping line     *)
(* ends and cutting off a frame go from boundary to boundary, however the  *)
(* stream is split into reads.                                             *)

Chars == {CR, LF, "h0", "h2"}

\* Position b of stream s is a boundary before a line end that stands alone.
LineAt(s, N, b) ==
    b + 2 <= Len(s) /\ s[b + 1] = CR /\ s[b + 2] = LF /\ N[b + 2] = N[b]

\* Position b is a boundary before message number N[b] + 1 of q.
MessageAt(s, q, N, b) ==
    /\ N[b] + 1 \in 1..Len(q)
    /\ \E i \in Messages :
          /\ i = q[N[b] + 1]
          /\ b + Len(Bytes[i]) <= Len(s)
          /\ \A k \in 1..Len(Bytes[i]) : s[b + k] = Bytes[i][k]
          /\ N[b + Len(Bytes[i])] = N[b] + 1

\* Stream s consists of line ends and of the messages of q after the first d.
\* N numbers the boundaries between them: N[b] of the messages come before
\* position b, and N[b] is -1 where b is not a boundary.
Marked(s, q, d, N) ==
    /\ N \in [0..Len(s) -> Int]
    /\ N[0] = d /\ N[Len(s)] = Len(q) /\ d \in Nat
    /\ \A b \in 0..Len(s) - 1 : N[b] # -1 => LineAt(s, N, b) \/ MessageAt(s, q, N, b)

Framed(s, q, d) == \E N : Marked(s, q, d, N)

\* A concatenation of two pieces, by position.
LEMMA ConcatIs ==
    ASSUME NEW s \in Seq(Chars), NEW t \in Seq(Chars), NEW u, u = s \o t
    PROVE  /\ u \in Seq(Chars) /\ Len(u) = Len(s) + Len(t)
           /\ \A k \in 1..Len(s) : u[k] = s[k]
           /\ \A k \in 1..Len(t) : u[Len(s) + k] = t[k]
OBVIOUS

\* A stream with a line end behind it, by position.
LEMMA WithLine ==
    ASSUME NEW s \in Seq(Chars), NEW u, u = s \o CRLF
    PROVE  /\ u \in Seq(Chars) /\ Len(u) = Len(s) + 2
           /\ \A k \in 1..Len(s) : u[k] = s[k]
           /\ u[Len(s) + 1] = CR /\ u[Len(s) + 2] = LF
<1>1. PICK c : c = CRLF
  OBVIOUS
<1>2. c \in Seq(Chars) /\ Len(c) = 2 /\ c[1] = CR /\ c[2] = LF
  BY <1>1 DEF CRLF, Chars
<1>3. /\ u \in Seq(Chars) /\ Len(u) = Len(s) + Len(c)
      /\ \A k \in 1..Len(s) : u[k] = s[k]
      /\ \A k \in 1..Len(c) : u[Len(s) + k] = c[k]
  <2>1. u = s \o c /\ c \in Seq(Chars)
    BY <1>1, <1>2
  <2> QED
    BY <2>1, ConcatIs
<1>4. 1 \in 1..Len(c) /\ 2 \in 1..Len(c)
  BY <1>2
<1> QED
  BY <1>2, <1>3, <1>4

\* A message is a header block, an empty line, and the body that the header
\* block announces.
LEMMA HeaderIs ==
    ASSUME NEW x \in Chars, NEW h, h = (<<x>> \o CRLF) \o CRLF
    PROVE  /\ h \in Seq(Chars) /\ Len(h) = 5 /\ h[1] = x
           /\ h[2] = CR /\ h[3] = LF /\ h[4] = CR /\ h[5] = LF
<1>1. PICK f, g : f = <<x>> /\ g = f \o CRLF
  OBVIOUS
<1>2. f \in Seq(Chars) /\ Len(f) = 1 /\ f[1] = x
  BY <1>1
<1>3. /\ g \in Seq(Chars) /\ Len(g) = Len(f) + 2 /\ \A k \in 1..Len(f) : g[k] = f[k]
      /\ g[Len(f) + 1] = CR /\ g[Len(f) + 2] = LF
  BY <1>1, <1>2, WithLine
<1>4. Len(g) = 3 /\ g[1] = x /\ g[2] = CR /\ g[3] = LF
  BY <1>2, <1>3
<1>5. /\ h \in Seq(Chars) /\ Len(h) = Len(g) + 2 /\ \A k \in 1..Len(g) : h[k] = g[k]
      /\ h[Len(g) + 1] = CR /\ h[Len(g) + 2] = LF
  BY <1>1, <1>3, WithLine
<1> QED
  BY <1>4, <1>5

\* The bytes of the two kinds of messages.
LEMMA MessageFacts ==
    ASSUME NEW i \in Messages
    PROVE  /\ Bytes[i] \in Seq(Chars) /\ Len(Bytes[i]) \in Nat
           /\ Bytes[i][1] \in {"h0", "h2"}
           /\ Bytes[i][2] = CR /\ Bytes[i][3] = LF /\ Bytes[i][4] = CR /\ Bytes[i][5] = LF
           /\ Len(Bytes[i]) = IF Bytes[i][1] = "h2" THEN 7 ELSE 5
<1>0. "h0" \in Chars /\ "h2" \in Chars /\ "h0" # "h2"
  BY DEF Chars
<1>1. CASE i = "empty"
  <2>1. PICK h : h = (<<"h0">> \o CRLF) \o CRLF
    OBVIOUS
  <2>2. Bytes[i] = h
    BY <1>1, <2>1 DEF Bytes
  <2>3. /\ h \in Seq(Chars) /\ Len(h) = 5 /\ h[1] = "h0"
        /\ h[2] = CR /\ h[3] = LF /\ h[4] = CR /\ h[5] = LF
    BY <1>0, <2>1, HeaderIs
  <2> QED
    BY <1>0, <2>2, <2>3
<1>2. CASE i = "body"
  <2>1. PICK h : h = (<<"h2">> \o CRLF) \o CRLF
    OBVIOUS
  <2>2. Bytes[i] = h \o CRLF
    BY <1>2, <2>1 DEF Bytes
  <2>3. /\ h \in Seq(Chars) /\ Len(h) = 5 /\ h[1] = "h2"
        /\ h[2] = CR /\ h[3] = LF /\ h[4] = CR /\ h[5] = LF
    BY <1>0, <2>1, HeaderIs
  <2>4. /\ Bytes[i] \in Seq(Chars) /\ Len(Bytes[i]) = Len(h) + 2
        /\ \A k \in 1..Len(h) : Bytes[i][k] = h[k]
    BY <2>2, <2>3, WithLine
  <2> QED
    BY <1>0, <2>3, <2>4
<1> QED
  BY <1>1, <1>2 DEF Messages

\* What is left of a stream from a boundary on.
LEMMA FromBoundary ==
    ASSUME NEW s \in Seq(Chars), NEW q \in Seq(Messages), NEW d, NEW N, Marked(s, q, d, N),
           NEW k \in 0..Len(s), N[k] \in Nat
    PROVE  Framed(SubSeq(s, k + 1, Len(s)), q, N[k])
<1>1. PICK t : t = SubSeq(s, k + 1, Len(s))
  OBVIOUS
<1>2. Len(s) \in Nat /\ Len(q) \in Nat
  OBVIOUS
<1>3. t \in Seq(Chars) /\ Len(t) = Len(s) - k /\ \A j \in 1..Len(t) : t[j] = s[k + j]
  BY <1>1, <1>2
<1>4. PICK M : M = [b \in 0..Len(t) |-> N[b + k]]
  OBVIOUS
<1>5. /\ M \in [0..Len(t) -> Int] /\ \A b \in 0..Len(t) : M[b] = N[b + k]
  BY <1>2, <1>3, <1>4 DEF Marked
<1>6. M[0] = N[k] /\ M[Len(t)] = Len(q)
  BY <1>2, <1>3, <1>5 DEF Marked
<1>7. ASSUME NEW b \in 0..Len(t) - 1, M[b] # -1
      PROVE  LineAt(t, M, b) \/ MessageAt(t, q, M, b)
  <2>1. PICK c : c = b + k
    OBVIOUS
  <2>2. c \in 0..Len(s) - 1 /\ M[b] = N[c] /\ N[c] # -1
    BY <1>2, <1>3, <1>5, <1>7, <2>1
  <2>3. CASE LineAt(s, N, c)
    <3>1. c + 2 <= Len(s) /\ s[c + 1] = CR /\ s[c + 2] = LF /\ N[c + 2] = N[c]
      BY <2>3 DEF LineAt
    <3>2. b + 2 <= Len(t) /\ b + 2 \in 0..Len(t) /\ b + 1 \in 1..Len(t) /\ b + 2 \in 1..Len(t)
      BY <1>2, <1>3, <2>1, <2>2, <3>1
    <3>3. k + (b + 1) = c + 1 /\ k + (b + 2) = c + 2 /\ (b + 2) + k = c + 2
      BY <2>1, <2>2
    <3>4. t[b + 1] = CR /\ t[b + 2] = LF /\ M[b + 2] = N[c + 2]
      <4>1. t[b + 1] = s[k + (b + 1)] /\ t[b + 2] = s[k + (b + 2)]
        BY <1>3, <3>2
      <4>2. M[b + 2] = N[(b + 2) + k]
        BY <1>5, <3>2
      <4> QED
        BY <3>1, <3>3, <4>1, <4>2
    <3> QED
      BY <2>2, <3>1, <3>2, <3>4 DEF LineAt
  <2>4. CASE MessageAt(s, q, N, c)
    <3>1. PICK i \in Messages :
             /\ i = q[N[c] + 1]
             /\ c + Len(Bytes[i]) <= Len(s)
             /\ \A j \in 1..Len(Bytes[i]) : s[c + j] = Bytes[i][j]
             /\ N[c + Len(Bytes[i])] = N[c] + 1
      BY <2>4 DEF MessageAt
    <3>2. PICK n \in Nat : n = Len(Bytes[i])
      BY MessageFacts
    <3>3. b + n <= Len(t) /\ b + n \in 0..Len(t) /\ (b + n) + k = c + n
      <4>1. c + n <= Len(s)
        BY <3>1, <3>2
      <4>2. Len(t) = Len(s) - k /\ Len(t) \in Int /\ b \in Int /\ b >= 0 /\ k \in Int
        BY <1>2, <1>3
      <4>3. (b + n) + k = c + n /\ b + n \in Int /\ b + n >= 0
        BY <2>1, <4>2
      <4> QED
        BY <1>2, <4>1, <4>2, <4>3
    <3>4. ASSUME NEW j \in 1..n PROVE t[b + j] = Bytes[i][j]
      <4>1. b + j \in 1..Len(t) /\ k + (b + j) = c + j
        BY <1>2, <1>3, <2>1, <2>2, <3>2, <3>3
      <4>2. t[b + j] = s[c + j]
        BY <1>3, <4>1
      <4> QED
        BY <3>1, <3>2, <4>2
    <3>5. M[b + n] = M[b] + 1
      BY <1>5, <2>2, <3>1, <3>2, <3>3
    <3> QED
      BY <2>2, <2>4, <3>1, <3>2, <3>3, <3>4, <3>5 DEF MessageAt
  <2> QED
    BY <2>2, <2>3, <2>4 DEF Marked
<1>8. Marked(t, q, N[k], M)
  BY <1>5, <1>6, <1>7 DEF Marked
<1> QED
  BY <1>1, <1>8 DEF Framed

Extends(s, u) == Len(s) <= Len(u) /\ \A k \in 1..Len(s) : u[k] = s[k]

SameMarks(N, M, n) == \A x \in 0..n : M[x] = N[x]

\* A boundary stays one when the stream and the messages grow at their ends.
LEMMA OldBoundary ==
    ASSUME NEW s \in Seq(Chars), NEW u \in Seq(Chars), Extends(s, u),
           NEW q \in Seq(Messages), NEW r \in Seq(Messages), Extends(q, r),
           NEW N, NEW M, SameMarks(N, M, Len(s)),
           NEW b \in 0..Len(s) - 1, LineAt(s, N, b) \/ MessageAt(s, q, N, b)
    PROVE  LineAt(u, M, b) \/ MessageAt(u, r, M, b)
<1>1. Len(s) \in Nat /\ Len(u) \in Nat /\ Len(q) \in Nat /\ Len(r) \in Nat
  OBVIOUS
<1>2. /\ Len(s) <= Len(u) /\ \A k \in 1..Len(s) : u[k] = s[k]
      /\ Len(q) <= Len(r) /\ \A k \in 1..Len(q) : r[k] = q[k]
  BY DEF Extends
<1>3. b \in Nat /\ b < Len(s) /\ M[b] = N[b]
  BY <1>1 DEF SameMarks
<1>4. CASE LineAt(s, N, b)
  <2>1. b + 2 <= Len(s) /\ s[b + 1] = CR /\ s[b + 2] = LF /\ N[b + 2] = N[b]
    BY <1>4 DEF LineAt
  <2>2. b + 1 \in 1..Len(s) /\ b + 2 \in 1..Len(s) /\ b + 2 \in 0..Len(s) /\ b + 2 <= Len(u)
    BY <1>1, <1>2, <1>3, <2>1
  <2>3. u[b + 1] = CR /\ u[b + 2] = LF /\ M[b + 2] = M[b]
    BY <1>2, <1>3, <2>1, <2>2 DEF SameMarks
  <2> QED
    BY <2>2, <2>3 DEF LineAt
<1>5. CASE MessageAt(s, q, N, b)
  <2>1. PICK i \in Messages :
           /\ i = q[N[b] + 1]
           /\ b + Len(Bytes[i]) <= Len(s)
           /\ \A j \in 1..Len(Bytes[i]) : s[b + j] = Bytes[i][j]
           /\ N[b + Len(Bytes[i])] = N[b] + 1
    BY <1>5 DEF MessageAt
  <2>2. PICK n \in Nat : n = Len(Bytes[i])
    BY MessageFacts
  <2>3. N[b] + 1 \in 1..Len(q)
    BY <1>5 DEF MessageAt
  <2>4. N[b] + 1 \in 1..Len(r) /\ r[N[b] + 1] = i
    <3>1. PICK m \in 1..Len(q) : m = N[b] + 1
      BY <2>3
    <3>2. m \in 1..Len(r) /\ r[m] = q[m]
      BY <1>1, <1>2
    <3> QED
      BY <2>1, <3>1, <3>2
  <2>5. b + n <= Len(s)
    BY <2>1, <2>2
  <2>6. b + n \in 0..Len(s) /\ b + n <= Len(u)
    BY <1>1, <1>2, <1>3, <2>5
  <2>7. M[b + n] = M[b] + 1
    BY <1>3, <2>1, <2>2, <2>6 DEF SameMarks
  <2>8. ASSUME NEW j \in 1..n PROVE u[b + j] = Bytes[i][j]
    <3>1. b + j \in 1..Len(s)
      BY <1>1, <1>3, <2>5
    <3>2. u[b + j] = s[b + j]
      BY <1>2, <3>1
    <3> QED
      BY <2>1, <2>2, <3>2
  <2>9. /\ M[b] + 1 \in 1..Len(r) /\ i = r[M[b] + 1] /\ b + Len(Bytes[i]) <= Len(u)
        /\ \A j \in 1..Len(Bytes[i]) : u[b + j] = Bytes[i][j]
        /\ M[b + Len(Bytes[i])] = M[b] + 1
    BY <1>3, <2>2, <2>4, <2>6, <2>7, <2>8
  <2> QED
    BY <2>9 DEF MessageAt
<1> QED
  BY <1>4, <1>5

\* The marks of a stream to which something is added that ends after message
\* number e.
Longer(s, u, N, e) ==
    [x \in 0..Len(u) |-> IF x <= Len(s) THEN N[x] ELSE IF x = Len(u) THEN e ELSE -1]

\* The numbering of a stream with a piece behind it.
LEMMA AddedMarks ==
    ASSUME NEW s \in Seq(Chars), NEW u \in Seq(Chars), Extends(s, u), Len(s) < Len(u),
           NEW q \in Seq(Messages), NEW r \in Seq(Messages), Extends(q, r),
           NEW d, NEW N, Marked(s, q, d, N), NEW M, M = Longer(s, u, N, Len(r)),
           LineAt(u, M, Len(s)) \/ MessageAt(u, r, M, Len(s))
    PROVE  Framed(u, r, d)
<1>1. Len(s) \in Nat /\ Len(u) \in Nat /\ Len(q) \in Nat /\ Len(r) \in Nat
  OBVIOUS
<1>2. \A x \in 0..Len(u) :
         M[x] = IF x <= Len(s) THEN N[x] ELSE IF x = Len(u) THEN Len(r) ELSE -1
  BY DEF Longer
<1>3. \A x \in 0..Len(s) : x \in 0..Len(u) /\ M[x] = N[x] /\ N[x] \in Int
  <2>1. N \in [0..Len(s) -> Int] /\ Len(s) <= Len(u)
    BY <1>1 DEF Marked
  <2> SUFFICES ASSUME NEW x \in 0..Len(s)
               PROVE  x \in 0..Len(u) /\ M[x] = N[x] /\ N[x] \in Int
    OBVIOUS
  <2>2. x \in 0..Len(u) /\ x <= Len(s)
    BY <1>1, <2>1
  <2> QED
    BY <1>2, <2>1, <2>2
<1>4. M \in [0..Len(u) -> Int]
  <2>1. \A x \in 0..Len(u) : M[x] \in Int
    <3> SUFFICES ASSUME NEW x \in 0..Len(u) PROVE M[x] \in Int
      OBVIOUS
    <3>1. CASE x <= Len(s)
      <4>1. x \in 0..Len(s)
        BY <1>1, <3>1
      <4> QED
        BY <1>3, <4>1
    <3>2. CASE ~(x <= Len(s))
      BY <1>1, <1>2, <3>2
    <3> QED
      BY <3>1, <3>2
  <2> QED
    BY <2>1 DEF Longer
<1>5. M[0] = d /\ d \in Nat
  BY <1>1, <1>3 DEF Marked
<1>6. M[Len(u)] = Len(r)
  BY <1>1, <1>2
<1>7. ASSUME NEW b \in 0..Len(u) - 1, M[b] # -1
      PROVE  LineAt(u, M, b) \/ MessageAt(u, r, M, b)
  <2>1. b <= Len(s)
    BY <1>1, <1>2, <1>7
  <2>2. CASE b = Len(s)
    BY <2>2
  <2>3. CASE b < Len(s)
    <3>0. b \in 0..Len(s) /\ b \in 0..Len(s) - 1
      BY <1>1, <2>3
    <3>1. N[b] # -1
      BY <1>3, <1>7, <3>0
    <3>2. LineAt(s, N, b) \/ MessageAt(s, q, N, b)
      BY <3>0, <3>1 DEF Marked
    <3>3. SameMarks(N, M, Len(s))
      BY <1>3 DEF SameMarks
    <3> QED
      BY <3>0, <3>2, <3>3, OldBoundary
  <2> QED
    BY <1>1, <2>1, <2>2, <2>3
<1>8. Marked(u, r, d, M)
  BY <1>4, <1>5, <1>6, <1>7 DEF Marked
<1> QED
  BY <1>8 DEF Framed

\* A line end behind the stream.
LEMMA AddLine ==
    ASSUME NEW s \in Seq(Chars), NEW q \in Seq(Messages), NEW d, Framed(s, q, d)
    PROVE  Framed(s \o CRLF, q, d)
<1>1. PICK N : Marked(s, q, d, N)
  BY DEF Framed
<1>2. PICK u : u = s \o CRLF
  OBVIOUS
<1>3. /\ u \in Seq(Chars) /\ Len(u) = Len(s) + 2 /\ Extends(s, u) /\ Len(s) \in Nat
      /\ u[Len(s) + 1] = CR /\ u[Len(s) + 2] = LF
  <2>1. /\ u \in Seq(Chars) /\ Len(u) = Len(s) + 2 /\ \A k \in 1..Len(s) : u[k] = s[k]
        /\ u[Len(s) + 1] = CR /\ u[Len(s) + 2] = LF
    BY <1>2, WithLine
  <2>2. Len(s) \in Nat
    OBVIOUS
  <2> QED
    BY <2>1, <2>2 DEF Extends
<1>4. PICK M : M = Longer(s, u, N, Len(q))
  OBVIOUS
<1>5. M[Len(s)] = N[Len(s)] /\ M[Len(s) + 2] = Len(q) /\ N[Len(s)] = Len(q)
  BY <1>1, <1>3, <1>4 DEF Longer, Marked
<1>6. LineAt(u, M, Len(s))
  BY <1>3, <1>5 DEF LineAt
<1>7. Extends(q, q) /\ Len(s) < Len(u)
  BY <1>3 DEF Extends
<1> QED
  BY <1>1, <1>2, <1>3, <1>4, <1>6, <1>7, AddedMarks

\* A message behind the stream.
LEMMA AddMessage ==
    ASSUME NEW s \in Seq(Chars), NEW q \in Seq(Messages), NEW d, Framed(s, q, d),
           NEW i \in Messages
    PROVE  Framed(s \o Bytes[i], Append(q, i), d)
<1>1. PICK N : Marked(s, q, d, N)
  BY DEF Framed
<1>2. PICK u, r : u = s \o Bytes[i] /\ r = Append(q, i)
  OBVIOUS
<1>3. PICK t, n : t = Bytes[i] /\ n = Len(t)
  OBVIOUS
<1>4. t \in Seq(Chars) /\ n \in Nat /\ n > 0
  BY <1>3, MessageFacts
<1>5. /\ u \in Seq(Chars) /\ Len(u) = Len(s) + n /\ Len(s) \in Nat
      /\ \A k \in 1..Len(s) : u[k] = s[k]
      /\ \A k \in 1..n : u[Len(s) + k] = t[k]
  BY <1>2, <1>3, <1>4, ConcatIs
<1>6. /\ r \in Seq(Messages) /\ Len(r) = Len(q) + 1 /\ Len(q) \in Nat
      /\ \A k \in 1..Len(q) : r[k] = q[k]
      /\ r[Len(q) + 1] = i
  BY <1>2
<1>7. Extends(s, u) /\ Extends(q, r) /\ Len(s) < Len(u)
  BY <1>4, <1>5, <1>6 DEF Extends
<1>8. PICK M : M = Longer(s, u, N, Len(r))
  OBVIOUS
<1>9. M[Len(s)] = Len(q) /\ M[Len(s) + n] = Len(q) + 1
  BY <1>1, <1>4, <1>5, <1>6, <1>8 DEF Longer, Marked
<1>10. MessageAt(u, r, M, Len(s))
  <2>1. M[Len(s)] + 1 \in 1..Len(r)
    BY <1>6, <1>9
  <2>2. i = r[M[Len(s)] + 1] /\ Len(s) + Len(Bytes[i]) <= Len(u)
    BY <1>3, <1>5, <1>6, <1>9
  <2>3. /\ \A k \in 1..Len(Bytes[i]) : u[Len(s) + k] = Bytes[i][k]
        /\ M[Len(s) + Len(Bytes[i])] = M[Len(s)] + 1
    BY <1>3, <1>5, <1>9
  <2> QED
    BY <2>1, <2>2, <2>3 DEF MessageAt
<1> QED
  BY <1>1, <1>2, <1>5, <1>6, <1>7, <1>8, <1>10, AddedMarks

StartsWithLine(b) == Len(b) >= 2 /\ b[1] = CR /\ b[2] = LF

\* A piece of a buffer, by position.
LEMMA PieceIs ==
    ASSUME NEW b \in Seq(Chars), NEW m \in Nat, NEW e \in Nat, m + 1 <= e + 1, e <= Len(b),
           NEW t, t = SubSeq(b, m + 1, e)
    PROVE  /\ t \in Seq(Chars) /\ Len(t) = e - m
           /\ \A j \in 1..(e - m) : t[j] = b[m + j]
OBVIOUS

\* A pair of characters is a line end when it reads so.
LEMMA PairIs ==
    ASSUME NEW b \in Seq(Chars), NEW m \in Nat, 1 <= m, m + 1 <= Len(b)
    PROVE  (SubSeq(b, m, m + 1) = CRLF) <=> (b[m] = CR /\ b[m + 1] = LF)
<1>1. PICK t : t = SubSeq(b, m, m + 1)
  OBVIOUS
<1>2. t \in Seq(Chars) /\ Len(t) = 2 /\ t[1] = b[m] /\ t[2] = b[m + 1]
  <2>1. PICK k \in Nat : m = k + 1 /\ k + 1 <= (m + 1) + 1 /\ (m + 1) - k = 2
    <3>1. m - 1 \in Nat /\ m = (m - 1) + 1 /\ (m - 1) + 1 <= (m + 1) + 1 /\ (m + 1) - (m - 1) = 2
      OBVIOUS
    <3> QED
      BY <3>1
  <2>2. /\ t \in Seq(Chars) /\ Len(t) = (m + 1) - k
        /\ \A j \in 1..((m + 1) - k) : t[j] = b[k + j]
    BY <1>1, <2>1, PieceIs
  <2>3. 1 \in 1..2 /\ 2 \in 1..2 /\ k + 1 = m /\ k + 2 = m + 1
    BY <2>1
  <2> QED
    BY <2>1, <2>2, <2>3
<1>3. PICK c : c = CRLF
  OBVIOUS
<1>4. c \in Seq(Chars) /\ Len(c) = 2 /\ c[1] = CR /\ c[2] = LF
  BY <1>3 DEF CRLF, Chars
<1>5. ASSUME t[1] = c[1], t[2] = c[2] PROVE t = c
  <2>1. \A k \in 1..Len(t) : t[k] = c[k]
    BY <1>2, <1>4, <1>5
  <2> QED
    BY <1>2, <1>4, <2>1, SeqEqual
<1> QED
  BY <1>1, <1>2, <1>3, <1>4, <1>5

\* The largest of a set of numbers up to h.
LEMMA LargestIs ==
    ASSUME NEW h \in Nat, NEW S, S \subseteq 0..h, NEW z, z \in S
    PROVE  Max(S) \in S /\ \A y \in S : Max(S) >= y
<1>1. PICK F : F = {h - x : x \in S}
  OBVIOUS
<1>2. F \subseteq Nat /\ F # {}
  BY <1>1
<1>3. PICK f \in F : \A g \in F : ~(<<g, f>> \in OpToRel(<, Nat))
  BY <1>2, NatLessThanWellFounded, WFMin
<1>4. PICK x \in S : f = h - x
  BY <1>1
<1>5. \A y \in S : x >= y
  <2> SUFFICES ASSUME NEW y \in S, ~(x >= y) PROVE FALSE
    OBVIOUS
  <2>1. x \in 0..h /\ y \in 0..h
    OBVIOUS
  <2>2. h - y \in F /\ h - y \in Nat /\ f \in Nat /\ h - y < f
    BY <1>1, <1>2, <1>4, <2>1
  <2>3. <<h - y, f>> \in OpToRel(<, Nat)
    BY <2>2 DEF OpToRel
  <2> QED
    BY <1>3, <2>2, <2>3
<1> QED
  BY <1>5 DEF Max

\* Stripping ends before the first pair that is no line end.
LEMMA LeadingIs ==
    ASSUME NEW b \in Seq(Chars), NEW n, n = LeadingCrlfs(b)
    PROVE  /\ n \in Nat /\ 2 * n <= Len(b)
           /\ \A i \in 1..n : b[2 * i - 1] = CR /\ b[2 * i] = LF
           /\ ~StartsWithLine(Stripped(b))
<1>0. Len(b) \in Nat
  OBVIOUS
<1>1. PICK h \in Nat : h = Len(b) \div 2 /\ 2 * h <= Len(b) /\ Len(b) <= 2 * h + 1
  BY <1>0
<1>2. PICK S : S = {k \in 0..h : \A i \in 1..k : SubSeq(b, 2 * i - 1, 2 * i) = CRLF}
  OBVIOUS
<1>3. n = Max(S)
  BY <1>1, <1>2 DEF LeadingCrlfs
<1>4. 0 \in S /\ S \subseteq 0..h
  BY <1>1, <1>2
<1>5. n \in S /\ \A y \in S : n >= y
  BY <1>3, <1>4, LargestIs
<1>6. n \in 0..h /\ \A i \in 1..n : SubSeq(b, 2 * i - 1, 2 * i) = CRLF
  BY <1>2, <1>5
<1>7. n \in Nat /\ 2 * n <= Len(b)
  BY <1>0, <1>1, <1>6
<1>8. ASSUME NEW i \in Nat, i >= 1, 2 * i <= Len(b)
      PROVE  (SubSeq(b, 2 * i - 1, 2 * i) = CRLF) <=> (b[2 * i - 1] = CR /\ b[2 * i] = LF)
  <2>1. PICK m \in Nat : m = 2 * i - 1 /\ 1 <= m /\ m + 1 = 2 * i /\ m + 1 <= Len(b)
    BY <1>0, <1>8
  <2>2. (SubSeq(b, m, m + 1) = CRLF) <=> (b[m] = CR /\ b[m + 1] = LF)
    BY <2>1, PairIs
  <2> QED
    BY <2>1, <2>2
<1>9. ASSUME NEW i \in 1..n PROVE b[2 * i - 1] = CR /\ b[2 * i] = LF
  <2>1. i \in Nat /\ i >= 1 /\ 2 * i <= Len(b)
    BY <1>0, <1>7
  <2> QED
    BY <1>6, <1>8, <2>1
<1>10. ASSUME StartsWithLine(Stripped(b)) PROVE FALSE
  <2>1. PICK t : t = SubSeq(b, 2 * n + 1, Len(b))
    OBVIOUS
  <2>2. Len(t) >= 2 /\ t[1] = CR /\ t[2] = LF
    BY <1>10, <2>1 DEF StartsWithLine, Stripped
  <2>2a. PICK m \in Nat : m = 2 * n /\ m <= Len(b)
    BY <1>0, <1>7
  <2>2b. Len(t) = Len(b) - m /\ \A j \in 1..(Len(b) - m) : t[j] = b[m + j]
    BY <1>0, <2>1, <2>2a, PieceIs
  <2>2c. m + 2 <= Len(b) /\ 1 \in 1..(Len(b) - m) /\ 2 \in 1..(Len(b) - m)
    BY <1>0, <2>2, <2>2a, <2>2b
  <2>3. 2 * n + 2 <= Len(b)
    BY <2>2a, <2>2c
  <2>4. t[1] = b[2 * n + 1] /\ t[2] = b[2 * n + 2]
    BY <2>2a, <2>2b, <2>2c
  <2>5. PICK k \in Nat : k = n + 1 /\ k >= 1 /\ 2 * k <= Len(b) /\ 2 * k - 1 = 2 * n + 1
                         /\ 2 * k = 2 * n + 2 /\ k \in 0..h
    <3>1. PICK k \in Nat : k = n + 1
      BY <1>7
    <3>2. /\ k >= 1 /\ 2 * k <= Len(b) /\ 2 * k - 1 = 2 * n + 1
          /\ 2 * k = 2 * n + 2
      BY <1>7, <2>3, <3>1
    <3>3. k <= h
      BY <1>0, <1>1, <3>2
    <3> QED
      BY <3>1, <3>2, <3>3
  <2>6. SubSeq(b, 2 * k - 1, 2 * k) = CRLF
    <3>1. (SubSeq(b, 2 * k - 1, 2 * k) = CRLF) <=> (b[2 * k - 1] = CR /\ b[2 * k] = LF)
      BY <1>8, <2>5
    <3>2. b[2 * k - 1] = CR /\ b[2 * k] = LF
      BY <2>2, <2>4, <2>5
    <3> QED
      BY <3>1, <3>2
  <2>7. \A i \in 1..k : SubSeq(b, 2 * i - 1, 2 * i) = CRLF
    <3> SUFFICES ASSUME NEW i \in 1..k PROVE SubSeq(b, 2 * i - 1, 2 * i) = CRLF
      OBVIOUS
    <3>1. i = k \/ i \in 1..n
      BY <1>7, <2>5
    <3> QED
      BY <1>6, <2>6, <3>1
  <2>8. k \in S
    BY <1>2, <2>5, <2>7
  <2> QED
    BY <1>5, <1>7, <2>5, <2>8
<1> QED
  BY <1>7, <1>9, <1>10

\* Cutting the front of the buffer cuts the front of what is unread.
LEMMA CutFront ==
    ASSUME NEW b \in Seq(Chars), NEW w \in Seq(Chars), NEW k \in 0..Len(b)
    PROVE  /\ SubSeq(b, k + 1, Len(b)) \in Seq(Chars)
           /\ SubSeq(b, k + 1, Len(b)) \o w = SubSeq(b \o w, k + 1, Len(b \o w))
<1>1. PICK s, t : s = b \o w /\ t = SubSeq(b, k + 1, Len(b))
  OBVIOUS
<1>2. Len(b) \in Nat /\ Len(w) \in Nat /\ Len(s) = Len(b) + Len(w) /\ s \in Seq(Chars)
      /\ k \in Nat /\ k <= Len(b) /\ Len(s) \in Nat /\ k <= Len(s)
  <2>1. Len(b) \in Nat /\ Len(w) \in Nat
    OBVIOUS
  <2>2. Len(s) = Len(b) + Len(w) /\ s \in Seq(Chars)
    BY <1>1, ConcatIs
  <2> QED
    BY <2>1, <2>2
<1>3. t \in Seq(Chars) /\ Len(t) = Len(b) - k /\ \A j \in 1..Len(t) : t[j] = b[k + j]
  <2>1. /\ t \in Seq(Chars) /\ Len(t) = Len(b) - k
        /\ \A j \in 1..(Len(b) - k) : t[j] = b[k + j]
    BY <1>1, <1>2, PieceIs
  <2> QED
    BY <2>1
<1>4. PICK u, v : u = t \o w /\ v = SubSeq(s, k + 1, Len(s))
  OBVIOUS
<1>5. /\ u \in Seq(Chars) /\ Len(u) = Len(t) + Len(w) /\ \A j \in 1..Len(t) : u[j] = t[j]
      /\ \A j \in 1..Len(w) : u[Len(t) + j] = w[j]
  <2>1. t \in Seq(Chars) /\ u = t \o w
    BY <1>3, <1>4
  <2> QED
    BY <2>1, ConcatIs
<1>6. v \in Seq(Chars) /\ Len(v) = Len(s) - k /\ \A j \in 1..Len(v) : v[j] = s[k + j]
  <2>1. /\ v \in Seq(Chars) /\ Len(v) = Len(s) - k
        /\ \A j \in 1..(Len(s) - k) : v[j] = s[k + j]
    BY <1>2, <1>4, PieceIs
  <2> QED
    BY <2>1
<1>7. /\ \A j \in 1..Len(b) : s[j] = b[j]
      /\ \A j \in 1..Len(w) : s[Len(b) + j] = w[j]
  BY <1>1, ConcatIs
<1>8. ASSUME NEW j \in 1..Len(u) PROVE u[j] = v[j]
  <2>0. j \in 1..Len(v)
    BY <1>2, <1>3, <1>5, <1>6
  <2>1. CASE j <= Len(t)
    <3>1. j \in 1..Len(t) /\ k + j \in 1..Len(b)
      BY <1>2, <1>3, <2>1
    <3> QED
      BY <1>3, <1>5, <1>6, <1>7, <2>0, <3>1
  <2>2. CASE j > Len(t)
    <3>1. PICK m \in 1..Len(w) : j = Len(t) + m
      <4>1. j - Len(t) \in 1..Len(w) /\ j = Len(t) + (j - Len(t))
        BY <1>2, <1>3, <1>5, <2>2
      <4> QED
        BY <4>1
    <3>2. k + j = Len(b) + m
      BY <1>2, <1>3, <3>1
    <3>3. u[j] = w[m] /\ v[j] = s[Len(b) + m] /\ s[Len(b) + m] = w[m]
      BY <1>5, <1>6, <1>7, <2>0, <3>1, <3>2
    <3> QED
      BY <3>3
  <2> QED
    BY <1>2, <1>3, <1>5, <2>1, <2>2
<1>9. Len(u) = Len(v)
  BY <1>2, <1>3, <1>5, <1>6
<1>10. u = v
  BY <1>5, <1>6, <1>8, <1>9, SeqEqual
<1> QED
  BY <1>1, <1>3, <1>4, <1>10

\* A line end at a boundary stands alone: no message starts with one.
LEMMA StripKeeps ==
    ASSUME NEW b \in Seq(Chars), NEW w \in Seq(Chars), NEW q \in Seq(Messages), NEW d,
           Framed(b \o w, q, d)
    PROVE  Stripped(b) \in Seq(Chars) /\ Framed(Stripped(b) \o w, q, d)
<1>1. PICK s, n : s = b \o w /\ n = LeadingCrlfs(b)
  OBVIOUS
<1>2. /\ n \in Nat /\ 2 * n <= Len(b)
      /\ \A i \in 1..n : b[2 * i - 1] = CR /\ b[2 * i] = LF
  BY <1>1, LeadingIs
<1>3. PICK N : Marked(s, q, d, N)
  BY <1>1 DEF Framed
<1>4. /\ s \in Seq(Chars) /\ Len(s) \in Nat /\ Len(b) \in Nat /\ Len(b) <= Len(s)
      /\ \A j \in 1..Len(b) : s[j] = b[j]
  <2>1. /\ s \in Seq(Chars) /\ Len(s) = Len(b) + Len(w)
        /\ \A j \in 1..Len(b) : s[j] = b[j]
    BY <1>1, ConcatIs
  <2>2. Len(b) \in Nat /\ Len(w) \in Nat
    OBVIOUS
  <2> QED
    BY <2>1, <2>2
<1>5. /\ N[0] = d /\ d \in Nat
      /\ \A x \in 0..Len(s) - 1 : N[x] # -1 => LineAt(s, N, x) \/ MessageAt(s, q, N, x)
  BY <1>3 DEF Marked
<1>6. ASSUME NEW j \in Nat, j < n, N[2 * j] = d
      PROVE  N[2 * (j + 1)] = d
  <2>1. PICK x \in Nat : x = 2 * j /\ x + 2 = 2 * (j + 1) /\ x + 2 <= Len(b) /\ x + 1 \in 1..Len(b)
                         /\ x \in 0..Len(s) - 1
    BY <1>2, <1>4, <1>6
  <2>2. j + 1 \in 1..n /\ 2 * (j + 1) - 1 = x + 1
    BY <1>2, <1>6, <2>1
  <2>3. s[x + 1] = CR
    BY <1>2, <1>4, <2>1, <2>2
  <2>4. ~MessageAt(s, q, N, x)
    <3> SUFFICES ASSUME MessageAt(s, q, N, x) PROVE FALSE
      OBVIOUS
    <3>1. PICK i \in Messages : \A k \in 1..Len(Bytes[i]) : s[x + k] = Bytes[i][k]
      BY DEF MessageAt
    <3>2. Bytes[i][1] \in {"h0", "h2"} /\ Len(Bytes[i]) \in Nat /\ Len(Bytes[i]) >= 1
      BY MessageFacts
    <3>3. s[x + 1] = Bytes[i][1]
      BY <3>1, <3>2
    <3> QED
      BY <2>3, <3>2, <3>3 DEF CR
  <2>5. N[x] # -1
    BY <1>5, <1>6, <2>1
  <2>6. LineAt(s, N, x)
    BY <1>5, <2>1, <2>4, <2>5
  <2> QED
    BY <1>6, <2>1, <2>6 DEF LineAt
<1>7. N[2 * n] = d
  <2>1. PICK F : F = {j \in 0..n : N[2 * j] # d}
    OBVIOUS
  <2> SUFFICES ASSUME N[2 * n] # d PROVE FALSE
    OBVIOUS
  <2>2. F \subseteq Nat /\ F # {}
    <3>1. \A j \in 0..n : N[2 * j] # d => j \in F
      BY <2>1
    <3>2. n \in 0..n
      BY <1>2
    <3>3. n \in F
      <4>1. n \in Nat
        BY <1>2
      <4> QED
        BY <3>1, <3>2, <4>1
    <3>4. F \subseteq Nat
      <4>1. n \in Nat
        BY <1>2
      <4> QED
        BY <2>1, <4>1
    <3> QED
      BY <3>3, <3>4
  <2>3. PICK f \in F : \A g \in F : ~(<<g, f>> \in OpToRel(<, Nat))
    BY <2>2, NatLessThanWellFounded, WFMin
  <2>4. f \in 0..n /\ N[2 * f] # d
    BY <2>1
  <2>5. f # 0
    <3>1. 2 * 0 = 0
      OBVIOUS
    <3> QED
      BY <1>5, <2>4, <3>1
  <2>6. PICK j \in Nat : f = j + 1 /\ j < n /\ j \in 0..n /\ j < f
    <3>1. f - 1 \in Nat /\ f = (f - 1) + 1 /\ f - 1 < n /\ f - 1 \in 0..n /\ f - 1 < f
      BY <1>2, <2>4, <2>5
    <3> QED
      BY <3>1
  <2>7. ~(j \in F)
    <3>1. <<j, f>> \in OpToRel(<, Nat)
      BY <2>2, <2>6 DEF OpToRel
    <3> QED
      BY <2>3, <3>1
  <2>8. N[2 * j] = d
    BY <2>1, <2>6, <2>7
  <2> QED
    BY <1>6, <2>4, <2>6, <2>8
<1>8. PICK k \in Nat : k = 2 * n /\ k <= Len(b) /\ k \in 0..Len(b) /\ k \in 0..Len(s)
  BY <1>2, <1>4
<1>9. Framed(SubSeq(s, k + 1, Len(s)), q, d)
  BY <1>3, <1>4, <1>5, <1>7, <1>8, FromBoundary
<1>10. Stripped(b) = SubSeq(b, k + 1, Len(b))
  BY <1>1, <1>8 DEF Stripped
<1>11. /\ SubSeq(b, k + 1, Len(b)) \in Seq(Chars)
       /\ SubSeq(b, k + 1, Len(b)) \o w = SubSeq(s, k + 1, Len(s))
  BY <1>1, <1>8, CutFront
<1> QED
  BY <1>9, <1>10, <1>11

Blank == CRLF \o CRLF

\* The empty line after the header block of a message that b starts with.
LEMMA HeaderEndIs ==
    ASSUME NEW b \in Seq(Chars), HeaderEnd(b) # 0, b[1] \in {"h0", "h2"},
           Len(b) >= 5 => b[2] = CR /\ b[3] = LF /\ b[4] = CR /\ b[5] = LF
    PROVE  HeaderEnd(b) = 5 /\ Len(b) >= 5
<1>0. Len(b) \in Nat
  OBVIOUS
<1>1. PICK ends : ends = {i \in 4..Len(b) : SubSeq(b, i - 3, i) = Blank}
  OBVIOUS
<1>2. HeaderEnd(b) = IF ends = {} THEN 0 ELSE Min(ends)
  BY <1>1 DEF HeaderEnd, Blank
<1>3. PICK e \in ends : TRUE
  BY <1>2
<1>4. PICK v : v = Blank
  OBVIOUS
<1>5. v \in Seq(Chars) /\ Len(v) = 4 /\ v[1] = CR /\ v[2] = LF /\ v[3] = CR /\ v[4] = LF
  <2>1. PICK c : c = CRLF
    OBVIOUS
  <2>2. c \in Seq(Chars) /\ Len(c) = 2 /\ c[1] = CR /\ c[2] = LF
    BY <2>1 DEF CRLF, Chars
  <2>3. /\ v \in Seq(Chars) /\ Len(v) = Len(c) + 2 /\ \A k \in 1..Len(c) : v[k] = c[k]
        /\ v[Len(c) + 1] = CR /\ v[Len(c) + 2] = LF
    BY <1>4, <2>1, <2>2, WithLine DEF Blank
  <2> QED
    BY <2>2, <2>3
<1>6. ~(4 \in ends)
  <2> SUFFICES ASSUME 4 \in ends PROVE FALSE
    OBVIOUS
  <2>1. 4 <= Len(b) /\ SubSeq(b, 4 - 3, 4) = v
    BY <1>1, <1>4
  <2>2. PICK t : t = SubSeq(b, 0 + 1, 4)
    OBVIOUS
  <2>3. t = v /\ 4 - 3 = 0 + 1
    BY <2>1, <2>2
  <2>4. \A j \in 1..(4 - 0) : t[j] = b[0 + j]
    BY <1>0, <2>1, <2>2, PieceIs
  <2>5. t[1] = b[1]
    BY <2>4
  <2> QED
    BY <1>5, <2>3, <2>5 DEF CR
<1>7. e \in 4..Len(b) /\ e # 4
  BY <1>1, <1>3, <1>6
<1>8. Len(b) >= 5
  BY <1>0, <1>7
<1>9. 5 \in ends
  <2>1. PICK t : t = SubSeq(b, 1 + 1, 5)
    OBVIOUS
  <2>2. t \in Seq(Chars) /\ Len(t) = 5 - 1 /\ \A j \in 1..(5 - 1) : t[j] = b[1 + j]
    BY <1>0, <1>8, <2>1, PieceIs
  <2>3. Len(t) = 4 /\ t[1] = b[2] /\ t[2] = b[3] /\ t[3] = b[4] /\ t[4] = b[5]
    BY <2>2
  <2>4. \A k \in 1..Len(t) : t[k] = v[k]
    BY <1>5, <1>8, <2>3
  <2>5. t = v
    BY <1>5, <2>2, <2>3, <2>4, SeqEqual
  <2>6. 5 \in 4..Len(b) /\ SubSeq(b, 5 - 3, 5) = Blank
    BY <1>0, <1>4, <1>8, <2>1, <2>5
  <2> QED
    BY <1>1, <2>6
<1>10. \A y \in ends : 5 <= y
  BY <1>0, <1>1, <1>6
<1>11. Min(ends) = 5
  <2>1. \A x \in ends : (\A y \in ends : x <= y) => x = 5
    <3> SUFFICES ASSUME NEW x \in ends, \A y \in ends : x <= y PROVE x = 5
      OBVIOUS
    <3>1. x <= 5 /\ 5 <= x
      BY <1>9, <1>10
    <3>2. x \in Int
      BY <1>0, <1>1
    <3> QED
      BY <3>1, <3>2
  <2> QED
    BY <1>9, <1>10, <2>1 DEF Min
<1> QED
  BY <1>2, <1>8, <1>9, <1>11

\* The length that the header block of a message announces.
LEMMA AnnouncedIs ==
    ASSUME NEW b \in Seq(Chars), Len(b) >= 5, b[1] \in {"h0", "h2"},
           b[2] = CR /\ b[3] = LF /\ b[4] = CR /\ b[5] = LF
    PROVE  ContentLength(SubSeq(b, 1, 5)) = IF b[1] = "h2" THEN 2 ELSE 0
<1>1. PICK t : t = SubSeq(b, 0 + 1, 5)
  OBVIOUS
<1>2. t \in Seq(Chars) /\ Len(t) = 5 - 0 /\ \A j \in 1..(5 - 0) : t[j] = b[0 + j]
  BY <1>1, PieceIs
<1>3. DOMAIN t = 1..5 /\ \A j \in 1..5 : t[j] = b[j]
  BY <1>2
<1>4. ToSet(t) = {b[1], CR, LF}
  BY <1>3 DEF ToSet
<1>5. t = SubSeq(b, 1, 5)
  BY <1>1
<1>6. CASE b[1] = "h2"
  BY <1>4, <1>5, <1>6 DEF ContentLength
<1>7. CASE b[1] = "h0"
  BY <1>4, <1>5, <1>7 DEF ContentLength, CR, LF
<1> QED
  BY <1>6, <1>7

\* A complete message in a buffer that starts at a boundary, and not with a
\* line end, is the next one of the peer.
LEMMA FrameIs ==
    ASSUME NEW b \in Seq(Chars), NEW w \in Seq(Chars), NEW q \in Seq(Messages), NEW d,
           Framed(b \o w, q, d), ~StartsWithLine(b), FrameLength(b) > 0,
           NEW n, n = FrameLength(b)
    PROVE  /\ d + 1 \in 1..Len(q) /\ SubSeq(b, 1, n) = Bytes[q[d + 1]]
           /\ SubSeq(b, n + 1, Len(b)) \in Seq(Chars)
           /\ Framed(SubSeq(b, n + 1, Len(b)) \o w, q, d + 1)
<1>1. PICK s, end, total : /\ s = b \o w /\ end = HeaderEnd(b)
                           /\ total = end + ContentLength(SubSeq(b, 1, end))
  OBVIOUS
<1>2. n = IF end = 0 \/ Len(b) < total THEN 0 ELSE total
  BY <1>1 DEF FrameLength
<1>3. end # 0 /\ ~(Len(b) < total) /\ n = total
  BY <1>2
<1>4. PICK N : Marked(s, q, d, N)
  BY <1>1 DEF Framed
<1>5. /\ s \in Seq(Chars) /\ Len(s) \in Nat /\ Len(b) \in Nat /\ Len(b) <= Len(s)
      /\ \A j \in 1..Len(b) : s[j] = b[j]
  <2>1. /\ s \in Seq(Chars) /\ Len(s) = Len(b) + Len(w)
        /\ \A j \in 1..Len(b) : s[j] = b[j]
    BY <1>1, ConcatIs
  <2>2. Len(b) \in Nat /\ Len(w) \in Nat
    OBVIOUS
  <2> QED
    BY <2>1, <2>2
<1>6. Len(b) >= 4
  <2>1. PICK ends : ends = {i \in 4..Len(b) : SubSeq(b, i - 3, i) = CRLF \o CRLF}
    OBVIOUS
  <2>2. HeaderEnd(b) = IF ends = {} THEN 0 ELSE Min(ends)
    BY <2>1 DEF HeaderEnd
  <2>3. ends # {}
    BY <1>1, <1>3, <2>2
  <2> QED
    BY <1>5, <2>1, <2>3
<1>7. /\ N[0] = d /\ d \in Nat
      /\ \A x \in 0..Len(s) - 1 : N[x] # -1 => LineAt(s, N, x) \/ MessageAt(s, q, N, x)
  BY <1>4 DEF Marked
<1>8. ~LineAt(s, N, 0)
  <2> SUFFICES ASSUME LineAt(s, N, 0) PROVE FALSE
    OBVIOUS
  <2>1. s[1] = CR /\ s[2] = LF
    BY DEF LineAt
  <2>2. b[1] = CR /\ b[2] = LF
    BY <1>5, <1>6, <2>1
  <2> QED
    BY <1>5, <1>6, <2>2 DEF StartsWithLine
<1>9. MessageAt(s, q, N, 0)
  <2>1. 0 \in 0..Len(s) - 1 /\ N[0] # -1
    BY <1>5, <1>6, <1>7
  <2> QED
    BY <1>7, <1>8, <2>1
<1>10. PICK i \in Messages :
          /\ i = q[N[0] + 1]
          /\ 0 + Len(Bytes[i]) <= Len(s)
          /\ \A k \in 1..Len(Bytes[i]) : s[0 + k] = Bytes[i][k]
          /\ N[0 + Len(Bytes[i])] = N[0] + 1
  BY <1>9 DEF MessageAt
<1>11. d + 1 \in 1..Len(q) /\ i = q[d + 1]
  BY <1>7, <1>9, <1>10 DEF MessageAt
<1>12. PICK t, m : t = Bytes[i] /\ m = Len(t)
  OBVIOUS
<1>13. /\ t \in Seq(Chars) /\ m \in Nat /\ t[1] \in {"h0", "h2"}
       /\ t[2] = CR /\ t[3] = LF /\ t[4] = CR /\ t[5] = LF
       /\ m = IF t[1] = "h2" THEN 7 ELSE 5
  BY <1>12, MessageFacts
<1>14. m \in 0..Len(s) /\ N[m] = d + 1 /\ \A k \in 1..m : s[k] = t[k]
  <2>1. 0 + m <= Len(s) /\ N[0 + m] = N[0] + 1 /\ 0 + m = m
    BY <1>10, <1>12, <1>13
  <2>2. ASSUME NEW k \in 1..m PROVE s[k] = t[k]
    <3>1. 0 + k = k
      BY <1>13
    <3>2. s[0 + k] = t[k]
      BY <1>10, <1>12
    <3> QED
      BY <3>1, <3>2
  <2> QED
    BY <1>5, <1>7, <1>13, <2>1, <2>2
<1>15. \A k \in 1..m : k <= Len(b) => b[k] = t[k]
  BY <1>5, <1>13, <1>14
<1>16. b[1] = t[1] /\ (Len(b) >= 5 => b[2] = CR /\ b[3] = LF /\ b[4] = CR /\ b[5] = LF)
  <2>1. \A k \in {1, 2, 3, 4, 5} : k \in 1..m
    BY <1>13
  <2>2. b[1] = t[1]
    <3>1. 1 \in 1..m
      BY <2>1
    <3>2. 1 <= Len(b)
      BY <1>5, <1>6
    <3> QED
      BY <1>15, <3>1, <3>2
  <2>3. ASSUME Len(b) >= 5 PROVE b[2] = CR /\ b[3] = LF /\ b[4] = CR /\ b[5] = LF
    <3>1. 2 <= Len(b) /\ 3 <= Len(b) /\ 4 <= Len(b) /\ 5 <= Len(b)
      BY <1>5, <2>3
    <3>2. b[2] = t[2] /\ b[3] = t[3] /\ b[4] = t[4] /\ b[5] = t[5]
      BY <1>15, <2>1, <3>1
    <3> QED
      BY <1>13, <3>2
  <2> QED
    BY <2>2, <2>3
<1>17. end = 5 /\ Len(b) >= 5
  BY <1>1, <1>3, <1>13, <1>16, HeaderEndIs
<1>18. ContentLength(SubSeq(b, 1, end)) = IF t[1] = "h2" THEN 2 ELSE 0
  BY <1>13, <1>16, <1>17, AnnouncedIs
<1>19. n = m /\ m <= Len(b)
  <2>1. total = IF t[1] = "h2" THEN 7 ELSE 5
    BY <1>1, <1>17, <1>18
  <2> QED
    BY <1>3, <1>5, <1>13, <2>1
<1>20. SubSeq(b, 1, n) = t
  <2>1. PICK u : u = SubSeq(b, 0 + 1, m)
    OBVIOUS
  <2>2. u \in Seq(Chars) /\ Len(u) = m - 0 /\ \A j \in 1..(m - 0) : u[j] = b[0 + j]
    BY <1>5, <1>13, <1>19, <2>1, PieceIs
  <2>3. \A j \in 1..m : u[j] = b[j]
    BY <1>13, <2>2
  <2>4. Len(u) = Len(t) /\ \A j \in 1..Len(u) : u[j] = t[j]
    BY <1>5, <1>12, <1>13, <1>15, <1>19, <2>2, <2>3
  <2>5. u = t
    BY <1>13, <2>2, <2>4, SeqEqual
  <2> QED
    BY <1>19, <2>1, <2>5
<1>21. Framed(SubSeq(s, m + 1, Len(s)), q, d + 1)
  BY <1>4, <1>5, <1>7, <1>14, FromBoundary
<1>22. m \in 0..Len(b)
  BY <1>5, <1>13, <1>19
<1>23. /\ SubSeq(b, m + 1, Len(b)) \in Seq(Chars)
       /\ SubSeq(b, m + 1, Len(b)) \o w = SubSeq(s, m + 1, Len(s))
  BY <1>1, <1>22, CutFront
<1> QED
  BY <1>11, <1>12, <1>19, <1>20, <1>21, <1>23

-----------------------------------------------------------------------------
(* The invariant of a connection, and what each operation on it keeps.     *)

ReadStates == {"none", "parse", "pong", "read", "ping", "deliver", "remove", "done"}

\* One connection with buffer b, unread bytes w, messages q sent and dl
\* delivered, read loop at rd and channel ch.  While the application listens,
\* what is unread starts at a boundary, after the messages delivered.
StreamOK(b, w, q, dl, rd, ch) ==
    /\ b \in Seq(Chars) /\ w \in Seq(Chars) /\ q \in Seq(Messages)
    /\ dl \in Seq(Seq(Chars)) /\ Len(dl) <= Len(q)
    /\ \A k \in 1..Len(dl) : dl[k] = Bytes[q[k]]
    /\ ch # Dropped => Framed(b \o w, q, Len(dl))
    /\ rd \in ReadStates
    /\ rd \in {"pong", "deliver"} => ~StartsWithLine(b)
    /\ rd = "deliver" => FrameLength(b) > 0

PerConn(f) == f = [c \in Conns |-> f[c]]

StreamInv ==
    transport = "tcp" =>
       /\ PerConn(wire) /\ PerConn(sent) /\ PerConn(buf) /\ PerConn(delivered)
       /\ PerConn(reader)
       /\ \A c \in Conns :
             StreamOK(buf[c], wire[c], sent[c], delivered[c], reader[c], channel)

Updated(g, f, k, v) == g = [f EXCEPT ![k] = v]

\* A function on the connections, updated at one of them.
LEMMA PerConnExcept ==
    ASSUME NEW f, PerConn(f), NEW k, NEW v, NEW g, Updated(g, f, k, v)
    PROVE  PerConn(g) /\ \A x \in Conns : g[x] = IF x = k THEN v ELSE f[x]
<1>1. PICK D : D = Conns
  OBVIOUS
<1>2. f = [c \in D |-> f[c]]
  BY <1>1 DEF PerConn
<1>3. g = [c \in D |-> g[c]] /\ \A x \in D : g[x] = IF x = k THEN v ELSE f[x]
  BY <1>2 DEF Updated
<1> QED
  BY <1>1, <1>3 DEF PerConn

\* Bytes that arrive behind the wire arrive behind what is unread.
LEMMA Shift ==
    ASSUME NEW b \in Seq(Chars), NEW w \in Seq(Chars), NEW x \in Seq(Chars)
    PROVE  w \o x \in Seq(Chars) /\ (b \o w) \o x = b \o (w \o x)
<1>1. w \o x \in Seq(Chars)
  OBVIOUS
<1>2. (b \o w) \o x = b \o (w \o x)
  BY ConcatAssociative
<1> QED
  BY <1>1, <1>2

\* The peer sends a message or a keep-alive.
LEMMA OkSend ==
    ASSUME NEW b, NEW w, NEW q, NEW dl, NEW rd, NEW ch, StreamOK(b, w, q, dl, rd, ch),
           NEW i \in DOMAIN Bytes
    PROVE  StreamOK(b, w \o Bytes[i], IF i \in Messages THEN Append(q, i) ELSE q, dl, rd, ch)
<1>1. PICK v, r : v = w \o Bytes[i] /\ r = IF i \in Messages THEN Append(q, i) ELSE q
  OBVIOUS
<1>2. /\ b \in Seq(Chars) /\ w \in Seq(Chars) /\ q \in Seq(Messages)
      /\ dl \in Seq(Seq(Chars)) /\ Len(dl) <= Len(q)
      /\ \A k \in 1..Len(dl) : dl[k] = Bytes[q[k]]
  BY DEF StreamOK
<1>3. PICK s : s = b \o w
  OBVIOUS
<1>4. s \in Seq(Chars) /\ CRLF \in Seq(Chars)
  BY <1>2, <1>3, ConcatIs DEF CRLF, Chars
<1>5. CASE i \in Messages
  <2>1. Bytes[i] \in Seq(Chars)
    BY <1>5, MessageFacts
  <2>2. v \in Seq(Chars) /\ b \o v = s \o Bytes[i]
    BY <1>1, <1>2, <1>3, <2>1, Shift
  <2>3. r \in Seq(Messages) /\ Len(r) = Len(q) + 1 /\ \A k \in 1..Len(q) : r[k] = q[k]
    BY <1>1, <1>2, <1>5
  <2>4. Len(dl) \in Nat /\ Len(q) \in Nat
    BY <1>2
  <2>5. Len(dl) <= Len(r) /\ \A k \in 1..Len(dl) : dl[k] = Bytes[r[k]]
    <3>1. \A k \in 1..Len(dl) : k \in 1..Len(q)
      BY <1>2, <2>4
    <3> QED
      BY <1>2, <2>3, <2>4, <3>1
  <2>6. ch # Dropped => Framed(b \o v, r, Len(dl))
    <3>1. r = Append(q, i)
      BY <1>1, <1>5
    <3>2. ch # Dropped => Framed(s, q, Len(dl))
      BY <1>3 DEF StreamOK
    <3> QED
      BY <1>2, <1>4, <1>5, <2>2, <3>1, <3>2, AddMessage
  <2>7. StreamOK(b, v, r, dl, rd, ch)
    BY <1>2, <2>2, <2>3, <2>5, <2>6 DEF StreamOK
  <2> QED
    BY <1>1, <2>7
<1>6. CASE i \in {"ping", "pong"}
  <2>1. r = q
    BY <1>1, <1>6 DEF Messages
  <2>2. v \in Seq(Chars) /\ (ch # Dropped => Framed(b \o v, q, Len(dl)))
    <3>1. ch # Dropped => Framed(s, q, Len(dl))
      BY <1>3 DEF StreamOK
    <3>2. s \o CRLF \in Seq(Chars) /\ (ch # Dropped => Framed(s \o CRLF, q, Len(dl)))
      BY <1>2, <1>4, <3>1, AddLine
    <3>3. CASE i = "pong"
      <4>1. Bytes[i] = CRLF
        BY <3>3 DEF Bytes, KEEPALIVE_PONG
      <4>2. v \in Seq(Chars) /\ b \o v = s \o CRLF
        BY <1>1, <1>2, <1>3, <1>4, <4>1, Shift
      <4> QED
        BY <3>2, <4>2
    <3>4. CASE i = "ping"
      <4>1. Bytes[i] = CRLF \o CRLF
        BY <3>4 DEF Bytes, KEEPALIVE_PING
      <4>2. CRLF \o CRLF \in Seq(Chars)
        BY <1>4, ConcatIs
      <4>3. v \in Seq(Chars) /\ b \o v = s \o (CRLF \o CRLF)
        <5>1. PICK x : x = CRLF \o CRLF
          OBVIOUS
        <5>2. v = w \o x /\ x \in Seq(Chars)
          BY <1>1, <4>1, <4>2, <5>1
        <5>3. v \in Seq(Chars) /\ b \o v = s \o x
          BY <1>2, <1>3, <5>2, Shift
        <5> QED
          BY <5>1, <5>3
      <4>4. s \o (CRLF \o CRLF) = (s \o CRLF) \o CRLF
        BY <1>4, Shift
      <4>5. ch # Dropped => Framed((s \o CRLF) \o CRLF, q, Len(dl))
        BY <1>2, <3>2, AddLine
      <4> QED
        BY <4>3, <4>4, <4>5
    <3> QED
      BY <1>6, <3>3, <3>4
  <2>3. StreamOK(b, v, q, dl, rd, ch)
    BY <1>2, <2>2 DEF StreamOK
  <2> QED
    BY <1>1, <2>1, <2>3
<1>7. i \in {"empty", "body", "ping", "pong"}
  BY DEF Bytes
<1> QED
  BY <1>5, <1>6, <1>7 DEF Messages

\* The read loop strips the line ends at the front of its buffer.
LEMMA OkStrip ==
    ASSUME NEW b, NEW w, NEW q, NEW dl, NEW rd, NEW ch, StreamOK(b, w, q, dl, rd, ch),
           NEW to \in {"pong", AfterParse(Stripped(b))}
    PROVE  StreamOK(Stripped(b), w, q, dl, to, ch)
<1>1. /\ b \in Seq(Chars) /\ w \in Seq(Chars) /\ q \in Seq(Messages)
      /\ ch # Dropped => Framed(b \o w, q, Len(dl))
  BY DEF StreamOK
<1>2. PICK t : t = Stripped(b)
  OBVIOUS
<1>3. PICK n : n = LeadingCrlfs(b)
  OBVIOUS
<1>4. n \in Nat /\ 2 * n <= Len(b) /\ ~StartsWithLine(t)
  BY <1>1, <1>2, <1>3, LeadingIs
<1>5. t \in Seq(Chars)
  <2>1. PICK m \in 0..Len(b) : m = 2 * n
    BY <1>1, <1>4
  <2>2. SubSeq(b, m + 1, Len(b)) \in Seq(Chars)
    BY <1>1, CutFront
  <2> QED
    BY <1>2, <1>3, <2>1, <2>2 DEF Stripped
<1>6. ch # Dropped => Framed(t \o w, q, Len(dl))
  BY <1>1, <1>2, StripKeeps
<1>7. to \in ReadStates /\ (to = "deliver" => FrameLength(t) > 0)
  BY <1>2 DEF AfterParse, ReadStates
<1>8. StreamOK(t, w, q, dl, to, ch)
  BY <1>4, <1>5, <1>6, <1>7 DEF StreamOK
<1> QED
  BY <1>2, <1>8

\* The read loop goes where nothing is known of its buffer.
LEMMA OkMove ==
    ASSUME NEW b, NEW w, NEW q, NEW dl, NEW rd, NEW ch, StreamOK(b, w, q, dl, rd, ch),
           NEW to \in ReadStates, to \notin {"pong", "deliver"}
    PROVE  StreamOK(b, w, q, dl, to, ch)
BY DEF StreamOK

\* The read loop has answered the pings and looks for a message.
LEMMA OkPong ==
    ASSUME NEW b, NEW w, NEW q, NEW dl, NEW ch, StreamOK(b, w, q, dl, "pong", ch)
    PROVE  StreamOK(b, w, q, dl, AfterParse(b), ch)
<1>1. PICK to : to = AfterParse(b)
  OBVIOUS
<1>2. to \in ReadStates /\ (to = "deliver" => FrameLength(b) > 0)
  BY <1>1 DEF AfterParse, ReadStates
<1>3. StreamOK(b, w, q, dl, to, ch)
  BY <1>2 DEF StreamOK
<1> QED
  BY <1>1, <1>3

\* The read returns a piece of the wire of any length.
LEMMA OkRead ==
    ASSUME NEW b, NEW w, NEW q, NEW dl, NEW rd, NEW ch, StreamOK(b, w, q, dl, rd, ch),
           NEW n \in 1..Len(w), NEW to \in {"parse", "remove"}
    PROVE  StreamOK(b \o SubSeq(w, 1, n), SubSeq(w, n + 1, Len(w)), q, dl, to, ch)
<1>1. b \in Seq(Chars) /\ w \in Seq(Chars)
  BY DEF StreamOK
<1>2. PICK x, y : x = SubSeq(w, 1, n) /\ y = SubSeq(w, n + 1, Len(w))
  OBVIOUS
<1>3. x \in Seq(Chars) /\ y \in Seq(Chars) /\ x \o y = w
  <2>1. 1 \in 1..Len(w) + 1 /\ n \in 0..Len(w) /\ Len(w) \in 0..Len(w)
    BY <1>1
  <2>2. x \in Seq(Chars) /\ y \in Seq(Chars)
    BY <1>1, <1>2, <2>1
  <2>3. x \o y = SubSeq(w, 1, Len(w))
    BY <1>1, <1>2, <2>1, ConcatAdjacentSubSeq
  <2>4. SubSeq(w, 1, Len(w)) = w
    BY <1>1, SubSeqFull
  <2> QED
    BY <2>2, <2>3, <2>4
<1>4. b \o x \in Seq(Chars) /\ (b \o x) \o y = b \o w
  <2>0. b \in Seq(Chars) /\ x \in Seq(Chars) /\ y \in Seq(Chars)
    BY <1>1, <1>3
  <2>1. b \o x \in Seq(Chars)
    BY <2>0, Shift
  <2>2. (b \o x) \o y = b \o (x \o y)
    BY <2>0, Shift
  <2>3. b \o (x \o y) = b \o w
    BY <1>3, Zenon
  <2> QED
    BY <2>1, <2>2, <2>3, Zenon
<1>5. StreamOK(b \o x, y, q, dl, to, ch)
  BY <1>3, <1>4 DEF StreamOK, ReadStates
<1> QED
  BY <1>2, <1>5

\* The read loop hands the frame at the front of its buffer on.
LEMMA OkDeliver ==
    ASSUME NEW b, NEW w, NEW q, NEW dl, NEW ch, StreamOK(b, w, q, dl, "deliver", ch),
           NEW n, n = FrameLength(b), NEW c, ch # Dropped
    PROVE  StreamOK(SubSeq(b, n + 1, Len(b)), w, q, Append(dl, SubSeq(b, 1, n)), "parse", c)
<1>1. /\ b \in Seq(Chars) /\ w \in Seq(Chars) /\ q \in Seq(Messages)
      /\ dl \in Seq(Seq(Chars)) /\ Len(dl) <= Len(q)
      /\ \A k \in 1..Len(dl) : dl[k] = Bytes[q[k]]
      /\ Framed(b \o w, q, Len(dl))
      /\ ~StartsWithLine(b) /\ FrameLength(b) > 0
  BY DEF StreamOK
<1>2. PICK t, msg, d : t = SubSeq(b, n + 1, Len(b)) /\ msg = SubSeq(b, 1, n) /\ d = Len(dl)
  OBVIOUS
<1>3. /\ d + 1 \in 1..Len(q) /\ msg = Bytes[q[d + 1]]
      /\ t \in Seq(Chars) /\ Framed(t \o w, q, d + 1)
  BY <1>1, <1>2, FrameIs
<1>4. q[d + 1] \in Messages
  BY <1>1, <1>3
<1>5. msg \in Seq(Chars)
  BY <1>3, <1>4, MessageFacts
<1>6. PICK el : el = Append(dl, msg)
  OBVIOUS
<1>7. /\ el \in Seq(Seq(Chars)) /\ Len(el) = d + 1 /\ d \in Nat
      /\ \A k \in 1..d : el[k] = dl[k]
      /\ el[d + 1] = msg
  BY <1>1, <1>2, <1>5, <1>6
<1>8. \A k \in 1..Len(el) : el[k] = Bytes[q[k]]
  <2> SUFFICES ASSUME NEW k \in 1..Len(el) PROVE el[k] = Bytes[q[k]]
    OBVIOUS
  <2>1. k \in 1..d \/ k = d + 1
    BY <1>7
  <2> QED
    BY <1>1, <1>2, <1>3, <1>7, <2>1
<1>9. Len(el) <= Len(q)
  BY <1>1, <1>3, <1>7
<1>10. StreamOK(t, w, q, el, "parse", c)
  <2>1. "parse" \in ReadStates /\ "parse" \notin {"pong", "deliver"}
    BY DEF ReadStates
  <2>2. Framed(t \o w, q, Len(el))
    BY <1>3, <1>7
  <2> QED
    BY <1>1, <1>3, <1>7, <1>8, <1>9, <2>1, <2>2 DEF StreamOK
<1> QED
  BY <1>2, <1>6, <1>10

\* A complete message is no longer than the buffer it is in.
LEMMA FrameSize ==
    ASSUME NEW b \in Seq(Chars), FrameLength(b) > 0
    PROVE  FrameLength(b) \in 0..Len(b)
<1>1. PICK ends : ends = {i \in 4..Len(b) : SubSeq(b, i - 3, i) = CRLF \o CRLF}
  OBVIOUS
<1>2. PICK e, cl : e = HeaderEnd(b) /\ cl = ContentLength(SubSeq(b, 1, e))
  OBVIOUS
<1>3. FrameLength(b) = IF e = 0 \/ Len(b) < e + cl THEN 0 ELSE e + cl
  BY <1>2 DEF FrameLength
<1>4. e # 0 /\ ~(Len(b) < e + cl) /\ FrameLength(b) = e + cl
  BY <1>3
<1>5. e = IF ends = {} THEN 0 ELSE Min(ends)
  BY <1>1, <1>2 DEF HeaderEnd
<1>6. ends \subseteq Nat /\ ends # {}
  <2>1. ends # {}
    BY <1>4, <1>5
  <2>2. \A i \in 4..Len(b) : i \in Nat
    OBVIOUS
  <2> QED
    BY <1>1, <2>1, <2>2
<1>7. PICK x \in ends : \A y \in ends : ~(<<y, x>> \in OpToRel(<, Nat))
  BY <1>6, NatLessThanWellFounded, WFMin
<1>8. \A y \in ends : x <= y
  <2> SUFFICES ASSUME NEW y \in ends, ~(x <= y) PROVE FALSE
    OBVIOUS
  <2>1. x \in Nat /\ y \in Nat /\ y < x
    BY <1>6
  <2>2. <<y, x>> \in OpToRel(<, Nat)
    BY <2>1 DEF OpToRel
  <2> QED
    BY <1>7, <2>2
<1>9. Min(ends) \in ends
  BY <1>8 DEF Min
<1>10. e \in Nat /\ cl \in {0, 2} /\ Len(b) \in Nat
  BY <1>2, <1>5, <1>6, <1>9 DEF ContentLength
<1> QED
  BY <1>4, <1>10

\* The read loop finds that nobody listens.
LEMMA OkDropped ==
    ASSUME NEW b, NEW w, NEW q, NEW dl, StreamOK(b, w, q, dl, "deliver", Dropped),
           NEW n, n = FrameLength(b)
    PROVE  StreamOK(SubSeq(b, n + 1, Len(b)), w, q, dl, "remove", Dropped)
<1>1. b \in Seq(Chars) /\ FrameLength(b) > 0
  BY DEF StreamOK
<1>2. PICK t : t = SubSeq(b, n + 1, Len(b))
  OBVIOUS
<1>3. t \in Seq(Chars)
  <2>1. n \in 0..Len(b)
    BY <1>1, FrameSize
  <2>2. SubSeq(b, n + 1, Len(b)) \in Seq(Chars)
    BY <1>1, <2>1, CutFront
  <2> QED
    BY <1>2, <2>2
<1>4. StreamOK(t, w, q, dl, "remove", Dropped)
  BY <1>3 DEF StreamOK, ReadStates
<1> QED
  BY <1>2, <1>4

\* A step that leaves the streams and the read loops alone.
StreamsKeep == UNCHANGED <<transport, wire, sent, buf, delivered, reader>>

\* The streams stay as they are.
LEMMA KeepOk ==
    ASSUME StreamInv, StreamsKeep, channel # Dropped \/ channel' = channel
    PROVE  StreamInv'
<1> SUFFICES ASSUME transport' = "tcp" PROVE StreamInv'
  BY DEF StreamInv
<1>1. transport = "tcp"
  BY DEF StreamsKeep
<1>2. /\ PerConn(wire) /\ PerConn(sent) /\ PerConn(buf) /\ PerConn(delivered)
      /\ PerConn(reader)
  BY <1>1 DEF StreamInv
<1>3. /\ PerConn(wire') /\ PerConn(sent') /\ PerConn(buf') /\ PerConn(delivered')
      /\ PerConn(reader')
  BY <1>2 DEF StreamsKeep
<1>4. ASSUME NEW c \in Conns
      PROVE  StreamOK(buf'[c], wire'[c], sent'[c], delivered'[c], reader'[c], channel')
  <2>1. StreamOK(buf[c], wire[c], sent[c], delivered[c], reader[c], channel)
    BY <1>1 DEF StreamInv
  <2>2. StreamOK(buf[c], wire[c], sent[c], delivered[c], reader[c], channel')
    BY <2>1 DEF StreamOK
  <2> QED
    BY <2>2 DEF StreamsKeep
<1> QED
  BY <1>3, <1>4 DEF StreamInv, PerConn

\* A step of one connection, after which it has b, w, q, dl and rd.
LEMMA OneOk ==
    ASSUME StreamInv, transport = "tcp", transport' = "tcp",
           NEW c, NEW b, NEW w, NEW q, NEW dl, NEW rd,
           buf' = [buf EXCEPT ![c] = b], wire' = [wire EXCEPT ![c] = w],
           sent' = [sent EXCEPT ![c] = q], delivered' = [delivered EXCEPT ![c] = dl],
           reader' = [reader EXCEPT ![c] = rd],
           channel # Dropped \/ channel' = channel,
           c \in Conns => StreamOK(b, w, q, dl, rd, channel')
    PROVE  StreamInv'
<1>1. /\ PerConn(wire) /\ PerConn(sent) /\ PerConn(buf) /\ PerConn(delivered)
      /\ PerConn(reader)
  BY DEF StreamInv
<1>2. /\ PerConn(buf') /\ \A x \in Conns : buf'[x] = IF x = c THEN b ELSE buf[x]
  <2>1. PICK f, g : f = buf /\ g = buf'
    OBVIOUS
  <2>2. PerConn(f) /\ Updated(g, f, c, b)
    BY <1>1, <2>1 DEF Updated
  <2>3. PerConn(g) /\ \A x \in Conns : g[x] = IF x = c THEN b ELSE f[x]
    BY <2>2, PerConnExcept
  <2> QED
    BY <2>1, <2>3
<1>3. /\ PerConn(wire') /\ \A x \in Conns : wire'[x] = IF x = c THEN w ELSE wire[x]
  <2>1. PICK f, g : f = wire /\ g = wire'
    OBVIOUS
  <2>2. PerConn(f) /\ Updated(g, f, c, w)
    BY <1>1, <2>1 DEF Updated
  <2>3. PerConn(g) /\ \A x \in Conns : g[x] = IF x = c THEN w ELSE f[x]
    BY <2>2, PerConnExcept
  <2> QED
    BY <2>1, <2>3
<1>4. /\ PerConn(sent') /\ \A x \in Conns : sent'[x] = IF x = c THEN q ELSE sent[x]
  <2>1. PICK f, g : f = sent /\ g = sent'
    OBVIOUS
  <2>2. PerConn(f) /\ Updated(g, f, c, q)
    BY <1>1, <2>1 DEF Updated
  <2>3. PerConn(g) /\ \A x \in Conns : g[x] = IF x = c THEN q ELSE f[x]
    BY <2>2, PerConnExcept
  <2> QED
    BY <2>1, <2>3
<1>5. /\ PerConn(delivered')
      /\ \A x \in Conns : delivered'[x] = IF x = c THEN dl ELSE delivered[x]
  <2>1. PICK f, g : f = delivered /\ g = delivered'
    OBVIOUS
  <2>2. PerConn(f) /\ Updated(g, f, c, dl)
    BY <1>1, <2>1 DEF Updated
  <2>3. PerConn(g) /\ \A x \in Conns : g[x] = IF x = c THEN dl ELSE f[x]
    BY <2>2, PerConnExcept
  <2> QED
    BY <2>1, <2>3
<1>6. /\ PerConn(reader') /\ \A x \in Conns : reader'[x] = IF x = c THEN rd ELSE reader[x]
  <2>1. PICK f, g : f = reader /\ g = reader'
    OBVIOUS
  <2>2. PerConn(f) /\ Updated(g, f, c, rd)
    BY <1>1, <2>1 DEF Updated
  <2>3. PerConn(g) /\ \A x \in Conns : g[x] = IF x = c THEN rd ELSE f[x]
    BY <2>2, PerConnExcept
  <2> QED
    BY <2>1, <2>3
<1>7. ASSUME NEW x \in Conns
      PROVE  StreamOK(buf'[x], wire'[x], sent'[x], delivered'[x], reader'[x], channel')
  <2>1. CASE x = c
    <3>1. /\ buf'[x] = b /\ wire'[x] = w /\ sent'[x] = q /\ delivered'[x] = dl
          /\ reader'[x] = rd
      BY <1>2, <1>3, <1>4, <1>5, <1>6, <2>1
    <3> QED
      BY <2>1, <3>1
  <2>2. CASE x # c
    <3>1. /\ buf'[x] = buf[x] /\ wire'[x] = wire[x] /\ sent'[x] = sent[x]
          /\ delivered'[x] = delivered[x] /\ reader'[x] = reader[x]
      BY <1>2, <1>3, <1>4, <1>5, <1>6, <2>2
    <3>2. StreamOK(buf[x], wire[x], sent[x], delivered[x], reader[x], channel)
      BY DEF StreamInv
    <3>3. StreamOK(buf[x], wire[x], sent[x], delivered[x], reader[x], channel')
      BY <3>2 DEF StreamOK
    <3> QED
      BY <3>1, <3>3
  <2> QED
    BY <2>1, <2>2
<1> QED
  BY <1>2, <1>3, <1>4, <1>5, <1>6, <1>7 DEF StreamInv, PerConn

\* A connection that a step leaves alone is, as a function, updated with what
\* it has.
LEMMA Keep ==
    ASSUME NEW f, PerConn(f), NEW k
    PROVE  f = [f EXCEPT ![k] = f[k]]
<1>1. PICK D : D = Conns
  OBVIOUS
<1>2. f = [c \in D |-> f[c]]
  BY <1>1 DEF PerConn
<1>3. PICK g : g = [f EXCEPT ![k] = f[k]]
  OBVIOUS
<1>4. g = [c \in D |-> f[c]]
  BY <1>2, <1>3
<1> QED
  BY <1>2, <1>3, <1>4

\* A step of the read loop of one connection that moves it from buffer to
\* buffer.
LEMMA ReadOk ==
    ASSUME StreamInv, transport = "tcp", NEW c, NEW b, NEW rd,
           buf' = [buf EXCEPT ![c] = b], reader' = [reader EXCEPT ![c] = rd],
           UNCHANGED <<transport, wire, sent, delivered, channel>>,
           c \in Conns => StreamOK(b, wire[c], sent[c], delivered[c], rd, channel)
    PROVE  StreamInv'
<1>1. PerConn(wire) /\ PerConn(sent) /\ PerConn(delivered)
  BY DEF StreamInv
<1>2. /\ wire' = [wire EXCEPT ![c] = wire[c]]
      /\ sent' = [sent EXCEPT ![c] = sent[c]]
      /\ delivered' = [delivered EXCEPT ![c] = delivered[c]]
  BY <1>1, Keep
<1> QED
  BY <1>2, OneOk

\* One read loop moves and its buffer stays.
LEMMA MoveOk ==
    ASSUME StreamInv, transport = "tcp", NEW c, NEW rd,
           reader' = [reader EXCEPT ![c] = rd],
           UNCHANGED <<transport, wire, sent, buf, delivered, channel>>,
           c \in Conns => StreamOK(buf[c], wire[c], sent[c], delivered[c], rd, channel)
    PROVE  StreamInv'
<1>1. PerConn(buf)
  BY DEF StreamInv
<1>2. buf' = [buf EXCEPT ![c] = buf[c]]
  BY <1>1, Keep
<1> QED
  BY <1>2, ReadOk

-----------------------------------------------------------------------------
(* The actions of the transport.                                           *)

\* PeerSend keeps the invariant.
LEMMA SendOk ==
    ASSUME StreamInv, transport = "tcp", NEW c, NEW i \in Items, PeerSend(c, i)
    PROVE  StreamInv'
<1>0. /\ PerConn(wire) /\ PerConn(sent) /\ PerConn(buf) /\ PerConn(delivered)
      /\ PerConn(reader) /\ i \in DOMAIN Bytes
  BY StAssumption DEF StreamInv
<1>1. PICK v, r : /\ v = wire[c] \o Bytes[i]
                  /\ r = IF i \in Messages THEN Append(sent[c], i) ELSE sent[c]
  OBVIOUS
<1>2. /\ wire' = [wire EXCEPT ![c] = v]
      /\ UNCHANGED <<transport, buf, delivered, reader, channel>>
  BY <1>1 DEF PeerSend, readVars, appVars
<1>3. sent' = [sent EXCEPT ![c] = r]
  <2>1. CASE i \in Messages
    BY <1>1, <2>1 DEF PeerSend
  <2>2. CASE i \notin Messages
    <3>1. sent' = sent /\ r = sent[c]
      BY <1>1, <2>2 DEF PeerSend
    <3>2. sent = [sent EXCEPT ![c] = sent[c]]
      BY <1>0, Keep
    <3> QED
      BY <3>1, <3>2
  <2> QED
    BY <2>1, <2>2
<1>4. /\ buf' = [buf EXCEPT ![c] = buf[c]]
      /\ delivered' = [delivered EXCEPT ![c] = delivered[c]]
      /\ reader' = [reader EXCEPT ![c] = reader[c]]
  BY <1>0, <1>2, Keep
<1>5. c \in Conns => StreamOK(buf[c], v, r, delivered[c], reader[c], channel')
  <2> SUFFICES ASSUME c \in Conns
               PROVE  StreamOK(buf[c], v, r, delivered[c], reader[c], channel')
    OBVIOUS
  <2>1. StreamOK(buf[c], wire[c], sent[c], delivered[c], reader[c], channel)
    BY DEF StreamInv
  <2>2. StreamOK(buf[c], v, r, delivered[c], reader[c], channel)
    BY <1>0, <1>1, <2>1, OkSend
  <2> QED
    BY <1>2, <2>2
<1>6. transport' = "tcp" /\ (channel # Dropped \/ channel' = channel)
  BY <1>2
<1>7. PICK b, dl, rd : b = buf[c] /\ dl = delivered[c] /\ rd = reader[c]
  OBVIOUS
<1>8. /\ buf' = [buf EXCEPT ![c] = b] /\ delivered' = [delivered EXCEPT ![c] = dl]
      /\ reader' = [reader EXCEPT ![c] = rd] /\ wire' = [wire EXCEPT ![c] = v]
      /\ (c \in Conns => StreamOK(b, v, r, dl, rd, channel'))
  BY <1>2, <1>4, <1>5, <1>7
<1> QED
  BY <1>3, <1>6, <1>8, OneOk

\* ReadStrip keeps the invariant.
LEMMA StripOk ==
    ASSUME StreamInv, transport = "tcp", NEW c, ReadStrip(c)
    PROVE  StreamInv'
<1>0. PerConn(buf)
  BY DEF StreamInv
<1>1. PICK t : t = Stripped(buf[c])
  OBVIOUS
<1>2. buf' = [buf EXCEPT ![c] = t] /\ UNCHANGED <<transport, wire, sent, delivered, channel>>
  BY <1>1 DEF ReadStrip, connVars, appVars
<1>3. c \in Conns => buf'[c] = t
  <2>1. PICK f, g : f = buf /\ g = buf'
    OBVIOUS
  <2>2. PerConn(f) /\ Updated(g, f, c, t)
    BY <1>0, <1>2, <2>1 DEF Updated
  <2>3. \A x \in Conns : g[x] = IF x = c THEN t ELSE f[x]
    BY <2>2, PerConnExcept
  <2> QED
    BY <2>1, <2>3
<1>4. \E rd \in {"pong", AfterParse(buf'[c])} : reader' = [reader EXCEPT ![c] = rd]
  BY DEF ReadStrip
<1>5. PICK rd \in {"pong", AfterParse(buf'[c])} : reader' = [reader EXCEPT ![c] = rd]
  BY <1>4
<1>6. c \in Conns => StreamOK(t, wire[c], sent[c], delivered[c], rd, channel)
  <2> SUFFICES ASSUME c \in Conns
               PROVE  StreamOK(t, wire[c], sent[c], delivered[c], rd, channel)
    OBVIOUS
  <2>1. StreamOK(buf[c], wire[c], sent[c], delivered[c], reader[c], channel)
    BY DEF StreamInv
  <2>2. rd \in {"pong", AfterParse(Stripped(buf[c]))}
    BY <1>1, <1>3, <1>5
  <2> QED
    BY <1>1, <2>1, <2>2, OkStrip
<1> QED
  BY <1>2, <1>5, <1>6, ReadOk

\* ReadPong keeps the invariant.
LEMMA PongOk ==
    ASSUME StreamInv, transport = "tcp", NEW c, ReadPong(c)
    PROVE  StreamInv'
<1>1. UNCHANGED <<transport, wire, sent, buf, delivered, channel>> /\ reader[c] = "pong"
  BY DEF ReadPong, connVars, appVars
<1>2. \/ reader' = reader
      \/ \E rd \in {AfterParse(buf[c]), "remove"} : reader' = [reader EXCEPT ![c] = rd]
  BY DEF ReadPong
<1>3. CASE reader' = reader
  BY <1>1, <1>3, KeepOk DEF StreamsKeep
<1>4. ASSUME NEW rd \in {AfterParse(buf[c]), "remove"}, reader' = [reader EXCEPT ![c] = rd]
      PROVE  StreamInv'
  <2>1. c \in Conns => StreamOK(buf[c], wire[c], sent[c], delivered[c], rd, channel)
    <3> SUFFICES ASSUME c \in Conns
                 PROVE  StreamOK(buf[c], wire[c], sent[c], delivered[c], rd, channel)
      OBVIOUS
    <3>1. StreamOK(buf[c], wire[c], sent[c], delivered[c], reader[c], channel)
      BY DEF StreamInv
    <3>2. StreamOK(buf[c], wire[c], sent[c], delivered[c], AfterParse(buf[c]), channel)
      BY <1>1, <3>1, OkPong
    <3>3. StreamOK(buf[c], wire[c], sent[c], delivered[c], "remove", channel)
      BY <3>1, OkMove DEF ReadStates
    <3> QED
      BY <1>4, <3>2, <3>3
  <2> QED
    BY <1>1, <1>4, <2>1, MoveOk
<1> QED
  BY <1>2, <1>3, <1>4

\* The steps after which a read loop is at a place where nothing is known of
\* its buffer.
LEMMA LoopOk ==
    ASSUME StreamInv, transport = "tcp", NEW c, NEW rd \in {"parse", "ping", "remove", "done"},
           reader' = [reader EXCEPT ![c] = rd],
           UNCHANGED <<transport, wire, sent, buf, delivered, channel>>
    PROVE  StreamInv'
<1>1. c \in Conns => StreamOK(buf[c], wire[c], sent[c], delivered[c], rd, channel)
  <2> SUFFICES ASSUME c \in Conns
               PROVE  StreamOK(buf[c], wire[c], sent[c], delivered[c], rd, channel)
    OBVIOUS
  <2>1. StreamOK(buf[c], wire[c], sent[c], delivered[c], reader[c], channel)
    BY DEF StreamInv
  <2>2. rd \in ReadStates /\ rd \notin {"pong", "deliver"}
    BY DEF ReadStates
  <2> QED
    BY <2>1, <2>2, OkMove
<1> QED
  BY <1>1, MoveOk

\* ReadBytes keeps the invariant.
LEMMA BytesOk ==
    ASSUME StreamInv, transport = "tcp", NEW c, ReadBytes(c)
    PROVE  StreamInv'
<1>0. PerConn(sent) /\ PerConn(delivered)
  BY DEF StreamInv
<1>1. PICK n \in 1..Len(wire[c]) :
         /\ buf' = [buf EXCEPT ![c] = buf[c] \o SubSeq(wire[c], 1, n)]
         /\ wire' = [wire EXCEPT ![c] = SubSeq(wire[c], n + 1, Len(wire[c]))]
         /\ \E rd \in {"parse", "remove"} : reader' = [reader EXCEPT ![c] = rd]
  <2>1. SplitHalves
    BY DEF SplitHalves
  <2> QED
    BY <2>1 DEF ReadBytes
<1>2. PICK rd \in {"parse", "remove"} : reader' = [reader EXCEPT ![c] = rd]
  BY <1>1
<1>3. UNCHANGED <<transport, sent, delivered, channel>>
  BY DEF ReadBytes, appVars
<1>4. PICK b, w : b = buf[c] \o SubSeq(wire[c], 1, n) /\ w = SubSeq(wire[c], n + 1, Len(wire[c]))
  OBVIOUS
<1>5. buf' = [buf EXCEPT ![c] = b] /\ wire' = [wire EXCEPT ![c] = w]
  BY <1>1, <1>4
<1>6. /\ sent' = [sent EXCEPT ![c] = sent[c]]
      /\ delivered' = [delivered EXCEPT ![c] = delivered[c]]
  BY <1>0, <1>3, Keep
<1>7. c \in Conns => StreamOK(b, w, sent[c], delivered[c], rd, channel')
  <2> SUFFICES ASSUME c \in Conns PROVE StreamOK(b, w, sent[c], delivered[c], rd, channel')
    OBVIOUS
  <2>1. StreamOK(buf[c], wire[c], sent[c], delivered[c], reader[c], channel)
    BY DEF StreamInv
  <2>2. StreamOK(b, w, sent[c], delivered[c], rd, channel)
    BY <1>1, <1>2, <1>4, <2>1, OkRead
  <2> QED
    BY <1>3, <2>2
<1> QED
  BY <1>2, <1>3, <1>5, <1>6, <1>7, OneOk

\* Deliver keeps the invariant.
LEMMA DeliverOk ==
    ASSUME StreamInv, transport = "tcp", NEW c, Deliver(c)
    PROVE  StreamInv'
<1>0. PerConn(sent) /\ PerConn(wire) /\ PerConn(delivered)
  BY DEF StreamInv
<1>1. PICK n, msg, b : /\ n = FrameLength(buf[c]) /\ msg = SubSeq(buf[c], 1, n)
                       /\ b = SubSeq(buf[c], n + 1, Len(buf[c]))
  OBVIOUS
<1>2. /\ reader[c] = "deliver" /\ buf' = [buf EXCEPT ![c] = b]
      /\ UNCHANGED <<transport, wire, sent>>
  BY <1>1 DEF Deliver, connVars
<1>3. \/ /\ channel # Dropped
         /\ delivered' = [delivered EXCEPT ![c] = Append(delivered[c], msg)]
         /\ reader' = [reader EXCEPT ![c] = "parse"]
      \/ /\ channel = Dropped /\ reader' = [reader EXCEPT ![c] = "remove"]
         /\ UNCHANGED <<channel, delivered>>
  <2>1. Top = "parse"
    BY DEF Top, SplitHalves
  <2> QED
    BY <1>1, <2>1 DEF Deliver, appVars
<1>4. c \in Conns => StreamOK(buf[c], wire[c], sent[c], delivered[c], "deliver", channel)
  BY <1>2 DEF StreamInv
<1>5. wire' = [wire EXCEPT ![c] = wire[c]] /\ sent' = [sent EXCEPT ![c] = sent[c]]
  BY <1>0, <1>2, Keep
<1>6. CASE /\ channel # Dropped
           /\ delivered' = [delivered EXCEPT ![c] = Append(delivered[c], msg)]
           /\ reader' = [reader EXCEPT ![c] = "parse"]
  <2>1. PICK dl : dl = Append(delivered[c], msg)
    OBVIOUS
  <2>2. delivered' = [delivered EXCEPT ![c] = dl]
    BY <1>6, <2>1
  <2>3. PICK ch : ch = channel'
    OBVIOUS
  <2>4. c \in Conns => StreamOK(b, wire[c], sent[c], dl, "parse", ch)
    BY <1>1, <1>4, <1>6, <2>1, OkDeliver
  <2>5. c \in Conns => StreamOK(b, wire[c], sent[c], dl, "parse", channel')
    BY <2>3, <2>4
  <2>6. PICK w, q, rd : w = wire[c] /\ q = sent[c] /\ rd = "parse"
    OBVIOUS
  <2>7. /\ buf' = [buf EXCEPT ![c] = b] /\ wire' = [wire EXCEPT ![c] = w]
        /\ sent' = [sent EXCEPT ![c] = q] /\ reader' = [reader EXCEPT ![c] = rd]
        /\ transport' = "tcp" /\ channel # Dropped
        /\ (c \in Conns => StreamOK(b, w, q, dl, rd, channel'))
    BY <1>2, <1>5, <1>6, <2>5, <2>6
  <2> QED
    BY <2>2, <2>7, OneOk
<1>7. CASE /\ channel = Dropped /\ reader' = [reader EXCEPT ![c] = "remove"]
           /\ UNCHANGED <<channel, delivered>>
  <2>1. c \in Conns => StreamOK(b, wire[c], sent[c], delivered[c], "remove", channel)
    BY <1>1, <1>4, <1>7, OkDropped
  <2> QED
    BY <1>2, <1>7, <2>1, ReadOk
<1> QED
  BY <1>3, <1>6, <1>7

\* Every step keeps the invariant; a TCP read loop is never at the lock of TLS.
LEMMA StreamStep ==
    ASSUME StreamInv, [StNext]_stVars
    PROVE  StreamInv'
<1>0. transport' = transport
  BY DEF StNext, stVars, connVars, Accept, AppReceive, AppDrops, Start, ReadStep, ReadIdle,
         PeerClose, PeerSend, ReadAcquire, ReadLocked, ReadStrip, ReadPong, ReadPing,
         ReadBytes, ReadEnd, Deliver, EndLoop, BeginConnect, Dialled, DialFails, Stash,
         BeginSend, Write, Again
<1> SUFFICES ASSUME transport = "tcp" PROVE StreamInv'
  BY <1>0 DEF StreamInv
<1>1. Top = "parse" /\ SplitHalves
  BY DEF Top, SplitHalves
<1>2. CASE \/ AppReceive \/ AppDrops \/ UNCHANGED stVars
           \/ \E c \in 1..opened : PeerClose(c)
           \/ \E t \in Tasks : BeginConnect(t) \/ Dialled(t) \/ DialFails(t) \/ Stash(t)
                               \/ BeginSend(t) \/ Write(t) \/ Again(t)
  <2>1. StreamsKeep /\ (channel # Dropped \/ channel' = channel)
    BY <1>2 DEF AppReceive, AppDrops, PeerClose, BeginConnect, Dialled, DialFails, Stash,
                BeginSend, Write, Again, stVars, connVars, readVars, appVars, StreamsKeep,
                Dropped
  <2> QED
    BY <2>1, KeepOk
<1>3. CASE Accept
  BY <1>1, <1>3, LoopOk DEF Accept, appVars
<1>4. CASE Start
  <2>1. UNCHANGED <<transport, wire, sent, buf, delivered, channel>>
    BY <1>4 DEF Start, appVars
  <2>2. reader' = reader \/ \E c : reader' = [reader EXCEPT ![c] = "parse"]
    BY <1>1, <1>4 DEF Start
  <2>3. CASE reader' = reader
    BY <2>1, <2>3, KeepOk DEF StreamsKeep
  <2>4. CASE \E c : reader' = [reader EXCEPT ![c] = "parse"]
    BY <2>1, <2>4, LoopOk
  <2> QED
    BY <2>2, <2>3, <2>4
<1>5. ASSUME NEW c \in 1..opened, ReadIdle(c) \/ ReadPing(c) \/ ReadEnd(c) \/ EndLoop(c)
      PROVE  StreamInv'
  <2>1. UNCHANGED <<transport, wire, sent, buf, delivered, channel>>
    BY <1>5 DEF ReadIdle, ReadPing, ReadEnd, EndLoop, connVars, appVars
  <2>2. \E rd \in {"parse", "ping", "remove", "done"} : reader' = [reader EXCEPT ![c] = rd]
    BY <1>5 DEF ReadIdle, ReadPing, ReadEnd, EndLoop
  <2>3. PICK rd \in {"parse", "ping", "remove", "done"} : reader' = [reader EXCEPT ![c] = rd]
    BY <2>2
  <2> QED
    BY <2>1, <2>3, LoopOk
<1>6. ASSUME NEW c \in 1..opened, ReadAcquire(c) \/ ReadLocked(c)
      PROVE  StreamInv'
  <2>1. UNCHANGED <<transport, wire, sent, buf, delivered, channel>>
    BY <1>6 DEF ReadAcquire, ReadLocked, connVars, appVars
  <2>2. reader[c] \in {"acquire", "locked"}
    BY <1>6 DEF ReadAcquire, ReadLocked
  <2>3. \E rd : reader' = [reader EXCEPT ![c] = rd]
    BY <1>6 DEF ReadAcquire, ReadLocked
  <2>4. PICK rd : reader' = [reader EXCEPT ![c] = rd]
    BY <2>3
  <2>5. c \notin Conns
    BY <2>2 DEF StreamInv, StreamOK, ReadStates
  <2> QED
    BY <2>1, <2>4, <2>5, MoveOk
<1>7. ASSUME NEW c \in 1..opened, ReadStep(c) \/ ReadIdle(c)
      PROVE  StreamInv'
  BY <1>5, <1>6, <1>7, StripOk, PongOk, BytesOk, DeliverOk DEF ReadStep
<1>8. ASSUME NEW c \in 1..opened, NEW i \in Items, PeerSend(c, i)
      PROVE  StreamInv'
  BY <1>8, SendOk
<1> QED
  BY <1>2, <1>3, <1>4, <1>7, <1>8 DEF StNext

\* An empty stream is at its only boundary.
LEMMA StreamStart ==
    ASSUME StInit
    PROVE  StreamInv
<1> SUFFICES ASSUME transport = "tcp" PROVE StreamInv
  BY DEF StreamInv
<1>1. /\ PerConn(wire) /\ PerConn(sent) /\ PerConn(buf) /\ PerConn(delivered)
      /\ PerConn(reader)
  BY DEF StInit, PerConn
<1>2. PICK e : e = <<>>
  OBVIOUS
<1>3. /\ e \in Seq(Chars) /\ e \in Seq(Messages) /\ e \in Seq(Seq(Chars)) /\ Len(e) = 0
  BY <1>2
<1>4. Framed(e \o e, e, Len(e))
  <2>1. PICK s, N : s = e \o e /\ N = [k \in 0..0 |-> 0]
    OBVIOUS
  <2>2. Len(s) = 0
    BY <1>3, <2>1, ConcatIs
  <2>3. N \in [0..0 -> Int] /\ N[0] = 0
    BY <2>1
  <2>4. ~\E b : b \in 0..Len(s) - 1
    BY <2>2
  <2>5. Marked(s, e, Len(e), N)
    BY <1>3, <2>2, <2>3, <2>4 DEF Marked
  <2> QED
    BY <2>1, <2>5 DEF Framed
<1>5. StreamOK(e, e, e, e, "none", channel)
  BY <1>3, <1>4 DEF StreamOK, ReadStates
<1>6. \A c \in Conns : /\ buf[c] = e /\ wire[c] = e /\ sent[c] = e /\ delivered[c] = e
                       /\ reader[c] = "none"
  BY <1>2 DEF StInit
<1> QED
  BY <1>1, <1>5, <1>6 DEF StreamInv

\* The invariant gives the property.
LEMMA FramesFollow ==
    ASSUME StreamInv
    PROVE  FramesIntact
<1> SUFFICES ASSUME NEW c \in Conns, transport = "tcp"
             PROVE  IsPrefix(delivered[c], [k \in 1..Len(sent[c]) |-> Bytes[sent[c][k]]])
  BY DEF FramesIntact
<1>1. StreamOK(buf[c], wire[c], sent[c], delivered[c], reader[c], channel)
  BY DEF StreamInv
<1>2. PICK dl, q, t : /\ dl = delivered[c] /\ q = sent[c]
                      /\ t = [k \in 1..Len(q) |-> Bytes[q[k]]]
  OBVIOUS
<1>3. /\ dl \in Seq(Seq(Chars)) /\ q \in Seq(Messages) /\ Len(dl) <= Len(q)
      /\ \A k \in 1..Len(dl) : dl[k] = Bytes[q[k]]
  BY <1>1, <1>2 DEF StreamOK
<1>4. Len(dl) \in Nat /\ Len(q) \in Nat
  BY <1>3
<1>5. t \in Seq(Seq(Chars)) /\ Len(t) = Len(q) /\ \A k \in 1..Len(q) : t[k] = Bytes[q[k]]
  <2>1. \A k \in 1..Len(q) : q[k] \in Messages
    BY <1>3
  <2>2. \A k \in 1..Len(q) : Bytes[q[k]] \in Seq(Chars)
    BY <2>1, MessageFacts
  <2>3. t \in [1..Len(q) -> Seq(Chars)]
    BY <1>2, <2>2
  <2> QED
    BY <1>2, <1>4, <2>3
<1>6. Len(dl) <= Len(t) /\ \A k \in 1..Len(dl) : t[k] = dl[k]
  <2>1. \A k \in 1..Len(dl) : k \in 1..Len(q)
    BY <1>3, <1>4
  <2> QED
    BY <1>3, <1>4, <1>5, <2>1
<1>7. IsPrefix(dl, t)
  <2>1. PICK u, v : u = SubSeq(dl, 1, Len(dl)) /\ v = SubSeq(t, 1, Len(dl))
    OBVIOUS
  <2>2. u = dl
    BY <1>3, <2>1, SubSeqFull
  <2>3. /\ v \in Seq(Seq(Chars)) /\ Len(v) = Len(dl)
        /\ \A k \in 1..Len(dl) : v[k] = t[k]
    BY <1>4, <1>5, <1>6, <2>1
  <2>4. v = dl
    BY <1>3, <1>6, <2>3, SeqEqual
  <2> QED
    BY <1>6, <2>1, <2>2, <2>4 DEF IsPrefix
<1> QED
  BY <1>2, <1>7

(* However the byte stream of a TCP connection is cut into reads and       *)
(* whatever keep-alives stand between the messages, read_message returns   *)
(* the messages of the peer, whole, in order and none twice, for any       *)
(* number of connections and messages.                                     *)
THEOREM FramesArriveIntact == StSpec => []FramesIntact
<1>1. StInit => StreamInv
  BY StreamStart
<1>2. StreamInv /\ [StNext]_stVars => StreamInv'
  BY StreamStep
<1>3. StreamInv => FramesIntact
  BY FramesFollow
<1> QED
  BY <1>1, <1>2, <1>3, PTL DEF StSpec
=============================================================================
