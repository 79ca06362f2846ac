------------------------- MODULE MediaControlProofs -------------------------
(***************************************************************************)
(* Four parts that keep the media of a call going, for all values of       *)
(* their constants: the target bitrate stays under the estimate of the     *)
(* receiver, a TURN client knows what it has at its server, the table of   *)
(* calls of the voice agent is right about the tasks it has spawned, the   *)
(* table of pending answers of an ICE agent holds no check of the past,    *)
(* and the address an ICE session hands out has answered its check.        *)
(***************************************************************************)
EXTENDS BitrateControl, TurnClient, GabbyServer, IceSession, WellFoundedInduction,
        FiniteSetTheorems, SequenceTheorems, TLAPS

-----------------------------------------------------------------------------
(* BitrateControl.                                                         *)

Controllers ==
    [state : {"SlowStart", "CongestionAvoidance", "Recovery"}, target : Nat, max : Nat,
     ssthresh : Nat, nacks : Nat, packets : Nat, remb : Nat \cup {NoRate}]

\* An estimate has also lowered max_bitrate, under which update keeps the
\* target: the bound on the target alone is not preserved by an increase.
BcInv ==
    /\ cc \in Controllers
    /\ cc.remb # NoRate => cc.max <= cc.remb
    /\ CeilingHeld

LEMMA MaxOfTwo ==
    ASSUME NEW a \in Int, NEW b \in Int
    PROVE  Max({a, b}) = IF a >= b THEN a ELSE b
<1> DEFINE m == IF a >= b THEN a ELSE b
<1>1. m \in {a, b} /\ \A y \in {a, b} : m >= y
  OBVIOUS
<1>2. \A x \in {a, b} : (\A y \in {a, b} : x >= y) => x = m
  OBVIOUS
<1> HIDE DEF m
<1>3. Max({a, b}) = m
  BY <1>1, <1>2 DEF Max
<1> QED
  BY <1>3 DEF m

LEMMA MinOfTwo ==
    ASSUME NEW a \in Int, NEW b \in Int
    PROVE  Min({a, b}) = IF a <= b THEN a ELSE b
<1> DEFINE m == IF a <= b THEN a ELSE b
<1>1. m \in {a, b} /\ \A y \in {a, b} : m <= y
  OBVIOUS
<1>2. \A x \in {a, b} : (\A y \in {a, b} : x <= y) => x = m
  OBVIOUS
<1> HIDE DEF m
<1>3. Min({a, b}) = m
  BY <1>1, <1>2 DEF Min
<1> QED
  BY <1>3 DEF m

\* The bound as a relation between a target and an estimate.
Under(target, remb) ==
    remb # NoRate => (target * 90) \div 100 <= remb \/ target <= MinRate

LEMMA UnderFacts ==
    ASSUME NEW t \in Nat, NEW r \in Nat \cup {NoRate}
    PROVE  /\ r # NoRate /\ t <= r => Under(t, r)
           /\ Under(t, r) => Under(Max({t \div 2, MinRate}), r)
           /\ r # NoRate /\ ~(r < (t * 90) \div 100) => Under(t, r)
           /\ r # NoRate => Under(Max({r, MinRate}), r)
<1> USE BitrateAssumption DEF NoRate
<1>1. Max({t \div 2, MinRate}) = IF t \div 2 >= MinRate THEN t \div 2 ELSE MinRate
  BY MaxOfTwo
<1>2. r # NoRate => Max({r, MinRate}) = IF r >= MinRate THEN r ELSE MinRate
  BY MaxOfTwo
<1>3. ASSUME NEW x \in Nat PROVE (x * 90) \div 100 <= x
  OBVIOUS
<1>4. ((t \div 2) * 90) \div 100 <= (t * 90) \div 100 /\ t \div 2 \in Nat /\ t \div 2 <= t
  OBVIOUS
<1>5. r # NoRate => r \in Nat
  OBVIOUS
<1> QED
  BY <1>1, <1>2, <1>3, <1>4, <1>5 DEF Under

\* The invariant of a controller, which each of its calls keeps.
Held(n) ==
    /\ n \in Controllers
    /\ n.remb # NoRate => n.max <= n.remb
    /\ Under(n.target, n.remb)

LEMMA KeptByFeedback ==
    ASSUME NEW c \in Controllers, Held(c), NEW recent \in BOOLEAN, NEW b \in Nat
    PROVE  /\ Held(on_packet_sent(c))
           /\ Held(on_nack(c, 1, recent))
           /\ Held(on_remb(c, b))
           /\ Held(resetController(c))
<1>0. /\ c.target \in Nat /\ c.max \in Nat /\ c.ssthresh \in Nat /\ c.nacks \in Nat
      /\ c.packets \in Nat /\ c.remb \in Nat \cup {NoRate}
      /\ c.state \in {"SlowStart", "CongestionAvoidance", "Recovery"}
  BY DEF Controllers
<1>1. Held(on_packet_sent(c))
  <2>1. c.packets + 1 \in Nat
    BY <1>0
  <2> QED
    BY <1>0, <2>1 DEF Held, on_packet_sent, Controllers
<1>2. Held(on_nack(c, 1, recent))
  <2> DEFINE halved == Max({c.target \div 2, MinRate})
  <2>1. halved \in Nat /\ Under(halved, c.remb) /\ c.nacks + 1 \in Nat
    <3>1. c.target \div 2 \in Nat
      BY <1>0
    <3>2. halved = IF c.target \div 2 >= MinRate THEN c.target \div 2 ELSE MinRate
      BY <3>1, MaxOfTwo, BitrateAssumption
    <3>3. Under(halved, c.remb)
      BY <1>0, UnderFacts DEF Held
    <3> QED
      BY <1>0, <3>1, <3>2, <3>3, BitrateAssumption
  <2> HIDE DEF halved
  <2>2. CASE recent
    BY <1>0, <2>1, <2>2 DEF Held, on_nack, Controllers
  <2>3. CASE ~recent
    <3>1. on_nack(c, 1, recent) = [c EXCEPT !.nacks = c.nacks + 1, !.target = halved,
                                            !.ssthresh = halved, !.state = "Recovery"]
      BY <2>3 DEF on_nack, halved, Controllers
    <3> QED
      BY <1>0, <2>1, <3>1 DEF Held, Controllers
  <2> QED
    BY <2>2, <2>3
<1>3. Held(on_remb(c, b))
  <2> DEFINE lowered == Max({b, MinRate})
             low == Min({c.max, b})
  <2>0. b \in Nat \cup {NoRate} /\ b # NoRate
    BY DEF NoRate
  <2>1. /\ lowered \in Nat /\ Under(lowered, b) /\ low \in Nat /\ low <= b
    <3>1. lowered = (IF b >= MinRate THEN b ELSE MinRate) /\ low = IF c.max <= b THEN c.max ELSE b
      BY <1>0, MaxOfTwo, MinOfTwo, BitrateAssumption
    <3>2. Under(lowered, b)
      BY <2>0, UnderFacts
    <3> QED
      BY <1>0, <3>1, <3>2, BitrateAssumption
  <2> HIDE DEF lowered, low
  <2>2. CASE b < (c.target * 90) \div 100
    <3>1. on_remb(c, b) = [c EXCEPT !.target = lowered, !.ssthresh = lowered,
                                    !.state = "CongestionAvoidance", !.remb = b, !.max = low]
      BY <2>2 DEF on_remb, lowered, low, Controllers
    <3> QED
      BY <1>0, <2>1, <3>1 DEF Held, Controllers
  <2>3. CASE ~(b < (c.target * 90) \div 100)
    <3>1. on_remb(c, b) = [c EXCEPT !.remb = b, !.max = low]
      BY <2>3 DEF on_remb, low
    <3>2. Under(c.target, b)
      BY <1>0, <2>0, <2>3, UnderFacts
    <3> QED
      BY <1>0, <2>1, <3>1, <3>2 DEF Held, Controllers
  <2> QED
    BY <2>2, <2>3
<1>4. Held(resetController(c))
  <2>1. c.max \div 2 \in Nat /\ InitialRate \in Nat
    BY <1>0, BitrateAssumption
  <2> QED
    BY <1>0, <2>1 DEF Held, resetController, Controllers, Under, NoRate
<1> QED
  BY <1>1, <1>2, <1>3, <1>4

LEMMA KeptByUpdate ==
    ASSUME NEW c \in Controllers, Held(c), NEW soon \in BOOLEAN
    PROVE  Held(update(c, soon))
<1>0. /\ c.target \in Nat /\ c.max \in Nat /\ c.ssthresh \in Nat /\ c.nacks \in Nat
      /\ c.packets \in Nat /\ c.remb \in Nat \cup {NoRate}
      /\ c.state \in {"SlowStart", "CongestionAvoidance", "Recovery"}
  BY DEF Controllers
<1> DEFINE fresh == [c EXCEPT !.nacks = 0, !.packets = 0]
           slow == SlowStartRate(c)
           additive == AdditiveRate(c)
           st == IF slow >= c.ssthresh THEN "CongestionAvoidance" ELSE c.state
<1>1. slow \in Nat /\ slow <= c.max
  <2>1. c.target + c.target \div 10 \in Nat
    BY <1>0
  <2> QED
    BY <1>0, <2>1, MinOfTwo DEF SlowStartRate
<1>2. additive \in Nat /\ additive <= c.max
  <2> DEFINE q == (c.target \div PacketBits) \div 10
             up == Max({q, Step})
             raised == Min({c.target + up, c.max})
  <2>1. q \in Nat
    <3>1. c.target \div PacketBits \in Nat
      BY <1>0, BitrateAssumption
    <3> QED
      BY <3>1
  <2> HIDE DEF q
  <2>2. up \in Nat
    BY <2>1, MaxOfTwo, BitrateAssumption
  <2> HIDE DEF up
  <2>3. raised \in Nat /\ raised <= c.max
    BY <1>0, <2>2, MinOfTwo
  <2>4. additive = IF c.remb = NoRate THEN raised ELSE Min({raised, c.remb})
    BY DEF AdditiveRate, up, q
  <2> HIDE DEF raised, additive
  <2>5. c.remb # NoRate => Min({raised, c.remb}) = IF raised <= c.remb THEN raised ELSE c.remb
    BY <1>0, <2>3, MinOfTwo
  <2> QED
    BY <1>0, <2>3, <2>4, <2>5
<1>3. \A t \in Nat : t <= c.max => Under(t, c.remb)
  <2>1. c.remb # NoRate => c.max <= c.remb /\ c.remb \in Nat
    BY <1>0 DEF Held
  <2> QED
    BY <1>0, <2>1, UnderFacts DEF Under
<1>4. fresh \in Controllers /\ fresh.target = c.target /\ fresh.max = c.max /\ fresh.remb = c.remb
  BY <1>0 DEF Controllers
<1>5. st \in {"SlowStart", "CongestionAvoidance", "Recovery"}
  BY <1>0
<1>6. update(c, soon) = IF SignificantLoss(c) \/ soon THEN fresh
                        ELSE IF c.state = "SlowStart"
                             THEN [fresh EXCEPT !.target = slow, !.state = st]
                             ELSE [fresh EXCEPT !.target = additive]
  BY DEF update, Controllers
<1> HIDE DEF fresh, slow, additive, st
<1>7. CASE SignificantLoss(c) \/ soon
  BY <1>4, <1>6, <1>7 DEF Held
<1>8. CASE ~(SignificantLoss(c) \/ soon) /\ c.state = "SlowStart"
  <2>1. update(c, soon) = [fresh EXCEPT !.target = slow, !.state = st]
    BY <1>6, <1>8
  <2> QED
    BY <1>1, <1>3, <1>4, <1>5, <2>1 DEF Held, Controllers
<1>9. CASE ~(SignificantLoss(c) \/ soon) /\ c.state # "SlowStart"
  <2>1. update(c, soon) = [fresh EXCEPT !.target = additive]
    BY <1>6, <1>9
  <2> QED
    BY <1>2, <1>3, <1>4, <2>1 DEF Held, Controllers
<1> QED
  BY <1>7, <1>8, <1>9

LEMMA BcInductive ==
    /\ BcInit => BcInv
    /\ BcInv /\ [BcNext]_bcVars => BcInv'
<1>1. BcInv <=> Held(cc)
  BY DEF BcInv, Held, CeilingHeld, Under
<1>2. BcInv' <=> Held(cc')
  BY DEF BcInv, Held, CeilingHeld, Under
<1>3. ASSUME BcInit PROVE BcInv
  <2>1. MaxRate \div 2 \in Nat
    BY BitrateAssumption
  <2> QED
    BY <1>3, <2>1, BitrateAssumption
       DEF BcInit, NewController, BcInv, CeilingHeld, Controllers, NoRate
<1>4. ASSUME BcInv, [BcNext]_bcVars PROVE BcInv'
  <2> SUFFICES Held(cc')
    BY <1>2 DEF Held
  <2>0. cc \in Controllers /\ Held(cc)
    BY <1>1, <1>4 DEF Held
  <2>1. CASE UNCHANGED bcVars
    BY <2>0, <2>1 DEF bcVars
  <2>2. CASE PacketSent
    BY <2>0, <2>2, KeptByFeedback DEF PacketSent
  <2>3. CASE Feedback
    <3>1. ASSUME NEW recent \in BOOLEAN, cc' = on_nack(cc, 1, recent) PROVE Held(cc')
      BY <2>0, <3>1, KeptByFeedback
    <3>2. ASSUME NEW b \in Rembs, cc' = on_remb(cc, b) PROVE Held(cc')
      BY <2>0, <3>2, KeptByFeedback, BitrateAssumption
    <3>3. ASSUME cc' = resetController(cc) PROVE Held(cc')
      BY <2>0, <3>3, KeptByFeedback
    <3> QED
      BY <2>3, <3>1, <3>2, <3>3 DEF Feedback
  <2>4. ASSUME NEW soon \in BOOLEAN, NEW waited \in BOOLEAN, NEW accepted \in BOOLEAN,
               tick(soon, waited, accepted)
        PROVE  Held(cc')
    BY <2>0, <2>4, KeptByUpdate DEF tick
  <2> QED
    BY <1>4, <2>1, <2>2, <2>3, <2>4 DEF BcNext
<1> QED
  BY <1>3, <1>4

\* Whatever NACKs, estimates, resets and updates come in which order, the
\* target of CongestionController exceeds the last receiver estimate by a
\* tenth at most, or is the configured minimum.
THEOREM TargetUnderEstimate == BcSpec => []CeilingHeld
<1>1. BcInv => CeilingHeld
  BY DEF BcInv
<1> QED
  BY <1>1, BcInductive, PTL DEF BcSpec

-----------------------------------------------------------------------------
(* TurnClient.                                                             *)

Open == asking # NoRequestOpen

ReqOK(u) ==
    /\ u.kind \in {"allocate", "refresh", "permission"} /\ u.txn \in Nat /\ u.nonce \in Nat
    /\ u.kind = "refresh" => u.arg \in Nat
    /\ u.kind = "permission" => u.arg \in RelayPeers
AnsOK(m) ==
    /\ m.txn \in Nat /\ m.nonce \in Nat
    /\ m.kind \in {"allocate", "refresh"} => m.arg \in Nat

TurnTypeOK ==
    /\ turn \in [lifetime : Int, nonce : Nat, txn : Nat]
    /\ relay \in [lifetime : Nat, owner : Nat, perms : SUBSET RelayPeers, nonce : Nat \ {0}]
    /\ unsure \in BOOLEAN
    /\ Open => /\ ReqOK(asking) /\ asking.txn = turn.txn /\ tries \in Nat \ {0}
               /\ asking.kind # "allocate" => turn.lifetime # -1
    /\ \A u \in up_link : ReqOK(u)
    /\ \A m \in down_link : AnsOK(m)

\* The client knows what it has.
Known ==
    turn.lifetime # -1 =>
        /\ relay.lifetime = turn.lifetime
        /\ turn.lifetime # 0 => permitted \subseteq relay.perms

\* What the client will know when it hears that its open request was granted.
Promised ==
    /\ asking.kind = "allocate" =>
          relay.lifetime = Default /\ relay.owner = asking.txn
    /\ asking.kind = "refresh" =>
          relay.lifetime = asking.arg /\ (asking.arg # 0 => permitted \subseteq relay.perms)
    /\ asking.kind = "permission" =>
          /\ relay.lifetime = turn.lifetime
          /\ turn.lifetime # 0 => permitted \cup {asking.arg} \subseteq relay.perms

\* Requests that are under way besides the open one carry no nonce (the first
\* request of allocate), so that they change nothing.
Bare(u) ==
    /\ u.kind = "allocate" /\ u.nonce = NoNonceYet /\ u.txn < turn.txn
    /\ asking.kind = "allocate"

\* An answer of the server to the open request, or to the bare one before it.
OwnAnswer(m) ==
    /\ m.kind = asking.kind /\ m.txn = asking.txn
    /\ m.code = 200 => /\ Promised
                       /\ m.kind = "allocate" => m.arg = Default
                       /\ m.kind = "refresh" => m.arg = asking.arg
    /\ m.code # 200 /\ tries = 1 => Known /\ asking \notin up_link
BareAnswer(m) == m.kind = "allocate" /\ asking.kind = "allocate" /\ m.txn < turn.txn

\* While a request is open and the client is sure of itself: the request is
\* granted or not, and with a single copy sent the two cannot be confused.
WhileOpen ==
    /\ Known \/ Promised
    /\ asking.nonce = NoNonceYet => Known
    /\ \A u \in up_link : u = asking \/ Bare(u)
    /\ \A m \in down_link : m.kind = "data" \/ OwnAnswer(m) \/ BareAnswer(m)
    /\ tries = 1 /\ asking \in up_link =>
          /\ Known
          /\ \A m \in down_link : m.kind = "data" \/ BareAnswer(m)

\* Between two calls the requests still under way are copies of the last one:
\* granted again, they change nothing.
WhileIdle ==
    /\ Known
    /\ \A u \in up_link :
          \/ u.kind = "allocate" /\ (u.nonce = NoNonceYet \/ turn.lifetime = Default)
          \/ u.kind = "refresh" /\ u.arg = turn.lifetime
          \/ u.kind = "permission"

TurnInv ==
    /\ TurnTypeOK
    /\ ~unsure /\ Open => WhileOpen
    /\ ~unsure /\ ~Open => WhileIdle

LEMMA TurnInitInv == TurnInit => TurnInv
<1> SUFFICES ASSUME TurnInit PROVE TurnInv
  OBVIOUS
<1>1. turn \in [lifetime : Int, nonce : Nat, txn : Nat] /\ turn.lifetime = -1 /\ ~Open
  BY DEF TurnInit, NoNonceYet, Open
<1>2. relay \in [lifetime : Nat, owner : Nat, perms : SUBSET RelayPeers, nonce : Nat \ {0}]
  BY DEF TurnInit
<1>3. up_link = {} /\ down_link = {} /\ unsure \in BOOLEAN
  BY DEF TurnInit
<1> QED
  BY <1>1, <1>2, <1>3 DEF TurnInv, TurnTypeOK, WhileIdle, Known

\* A step that leaves the client and the allocation as they are, and brings at
\* most data of a peer.
LEMMA QuietStepInv ==
    ASSUME TurnInv,
           UNCHANGED <<turn, asking, tries, permitted, unsure>>,
           relay' \in [lifetime : Nat, owner : Nat, perms : SUBSET RelayPeers, nonce : Nat \ {0}],
           relay'.lifetime = relay.lifetime, relay'.owner = relay.owner, relay'.perms = relay.perms,
           up_link' \subseteq up_link,
           \A m \in down_link' : m \in down_link \/ (m.kind = "data" /\ AnsOK(m))
    PROVE  TurnInv'
<1>1. TurnTypeOK'
  BY DEF TurnInv, TurnTypeOK, Open, ReqOK, AnsOK
<1>2. (Known' <=> Known) /\ (Promised' <=> Promised) /\ (Open' <=> Open)
  BY DEF Known, Promised, Open
<1>3. ASSUME ~unsure', Open' PROVE WhileOpen'
  <2>1. WhileOpen
    BY <1>2, <1>3 DEF TurnInv
  <2>2. \A u \in up_link' : (u = asking \/ Bare(u))'
    BY <2>1 DEF WhileOpen, Bare
  <2>3. \A m \in down_link' : m.kind = "data" \/ OwnAnswer(m)' \/ BareAnswer(m)'
    BY <1>2, <2>1 DEF WhileOpen, OwnAnswer, BareAnswer
  <2>4. tries' = 1 /\ asking' \in up_link' =>
          Known' /\ \A m \in down_link' : m.kind = "data" \/ BareAnswer(m)'
    BY <1>2, <2>1 DEF WhileOpen, BareAnswer
  <2>5. (Known \/ Promised)' /\ (asking.nonce = NoNonceYet => Known)'
    BY <1>2, <2>1 DEF WhileOpen
  <2> QED
    BY <2>2, <2>3, <2>4, <2>5 DEF WhileOpen
<1>4. ASSUME ~unsure', ~Open' PROVE WhileIdle'
  BY <1>2, <1>4 DEF TurnInv, WhileIdle
<1> QED
  BY <1>1, <1>3, <1>4 DEF TurnInv

\* A call begins: the client is sure of itself only if nothing is under way.
LEMMA CallInv ==
    ASSUME TurnInv, NEW kind \in {"allocate", "refresh", "permission"}, NEW nonce \in Nat, NEW arg,
           kind # "allocate" => turn.lifetime # -1,
           kind = "refresh" => arg \in Nat,
           kind = "permission" => arg \in RelayPeers,
           Call(kind, nonce, arg)
    PROVE  TurnInv'
<1> DEFINE q == [kind |-> kind, txn |-> turn.txn + 1, nonce |-> nonce, arg |-> arg]
<1>1. /\ ~Open /\ ~unsure /\ turn' = [turn EXCEPT !.txn = turn.txn + 1]
      /\ asking' = q /\ tries' = 1 /\ up_link' = up_link \cup {q}
      /\ unsure' = (unsure \/ up_link # {} \/ down_link # {})
      /\ permitted' = permitted /\ relay' = relay /\ down_link' = down_link
  BY DEF Call, Ask, Open
<1>2. /\ turn' \in [lifetime : Int, nonce : Nat, txn : Nat]
      /\ turn'.txn = turn.txn + 1 /\ turn'.lifetime = turn.lifetime /\ turn.txn + 1 \in Nat
  BY <1>1 DEF TurnInv, TurnTypeOK
<1>3. q.kind = kind /\ q.txn = turn.txn + 1 /\ q.nonce = nonce /\ q.arg = arg
  OBVIOUS
<1> HIDE DEF q
<1>4. ReqOK(q)
  BY <1>2, <1>3 DEF ReqOK
<1>5. TurnTypeOK'
  <2>1. \A u \in up_link' : ReqOK(u)
    BY <1>1, <1>4 DEF TurnInv, TurnTypeOK
  <2>2. \A m \in down_link' : AnsOK(m)
    BY <1>1 DEF TurnInv, TurnTypeOK
  <2>3. unsure' \in BOOLEAN
    BY <1>1
  <2>4. relay' \in [lifetime : Nat, owner : Nat, perms : SUBSET RelayPeers, nonce : Nat \ {0}]
    BY <1>1 DEF TurnInv, TurnTypeOK
  <2> QED
    BY <1>1, <1>2, <1>3, <1>4, <2>1, <2>2, <2>3, <2>4 DEF TurnTypeOK, ReqOK, AnsOK
<1>6. Open'
  BY <1>1, <1>3 DEF Open, NoRequestOpen
<1>7. ASSUME ~unsure' PROVE WhileOpen'
  <2>1. up_link' = {q} /\ down_link' = {}
    BY <1>1, <1>7
  <2>2. Known'
    BY <1>1, <1>2 DEF TurnInv, WhileIdle, Known
  <2> QED
    BY <1>1, <2>1, <2>2 DEF WhileOpen
<1> QED
  BY <1>5, <1>6, <1>7 DEF TurnInv

\* A call returns: only the type of the state matters unless the answer told.
LEMMA ReturnInv ==
    ASSUME TurnInv, NEW m \in down_link, down_link' = down_link \ {m}, up_link' = up_link,
           relay' = relay, asking' = NoRequestOpen, unsure' \in BOOLEAN,
           turn' \in [lifetime : Int, nonce : Nat, txn : Nat],
           ~unsure' => WhileIdle'
    PROVE  TurnInv'
<1>1. ~Open'
  BY DEF Open
<1>2. TurnTypeOK'
  BY <1>1 DEF TurnInv, TurnTypeOK, ReqOK, AnsOK
<1> QED
  BY <1>1, <1>2 DEF TurnInv

\* The idle state after a refusal of the only copy.
LEMMA RefusedIsIdle ==
    ASSUME TurnInv, ~unsure, Open, NEW m \in down_link, OwnAnswer(m), m.code # 200, tries = 1,
           UNCHANGED <<turn, permitted, relay, up_link>>
    PROVE  WhileIdle'
<1>1. WhileOpen /\ Known /\ asking \notin up_link
  BY DEF TurnInv, OwnAnswer
<1>2. \A u \in up_link : Bare(u)
  BY <1>1 DEF WhileOpen
<1>3. Known'
  BY <1>1 DEF Known
<1> QED
  BY <1>2, <1>3 DEF WhileIdle, Bare

LEMMA AllocateAnswerInv ==
    ASSUME TurnInv, NEW m \in down_link, down_link' = down_link \ {m}, UNCHANGED relay,
           Open, asking.kind = "allocate", AllocateAnswer(m)
    PROVE  TurnInv'
<1>0. /\ turn \in [lifetime : Int, nonce : Nat, txn : Nat] /\ AnsOK(m) /\ ReqOK(asking)
      /\ asking.txn = turn.txn /\ unsure \in BOOLEAN /\ tries \in Nat
      /\ ~unsure => WhileOpen
  BY DEF TurnInv, TurnTypeOK
<1>1. CASE m.kind = "allocate" /\ m.txn = asking.txn /\ m.code = 200
  <2>1. /\ turn' = [turn EXCEPT !.lifetime = m.arg, !.nonce = asking.nonce]
        /\ permitted' = {} /\ asking' = NoRequestOpen /\ unsure' = (unsure \/ ~TRUE)
        /\ up_link' = up_link
    BY <1>1 DEF AllocateAnswer, Return
  <2>a. unsure' = unsure
    BY <1>0, <2>1
  <2>b. m.arg \in Int /\ asking.nonce \in Nat
    BY <1>0, <1>1 DEF AnsOK, ReqOK
  <2>2. /\ turn' \in [lifetime : Int, nonce : Nat, txn : Nat] /\ turn'.lifetime = m.arg
        /\ unsure' = unsure
    BY <1>0, <2>1, <2>a, <2>b
  <2>3. ASSUME ~unsure' PROVE WhileIdle'
    <3>1. WhileOpen /\ OwnAnswer(m)
      BY <1>0, <1>1, <2>2, <2>3 DEF WhileOpen, BareAnswer
    <3>2. relay.lifetime = Default /\ m.arg = Default
      BY <1>1, <3>1 DEF OwnAnswer, Promised
    <3>3. Known'
      BY <2>1, <2>2, <3>2 DEF Known
    <3> QED
      BY <2>1, <2>2, <3>1, <3>2, <3>3 DEF WhileIdle, WhileOpen, Bare
  <2> QED
    BY <2>1, <2>2, <2>3, ReturnInv
<1>2. CASE m.kind = "allocate" /\ m.txn = asking.txn /\ m.code = 401 /\ asking.nonce = NoNonceYet
  <2> DEFINE q == [kind |-> "allocate", txn |-> turn.txn + 1, nonce |-> m.nonce, arg |-> 0]
  <2>1. /\ turn' = [turn EXCEPT !.txn = turn.txn + 1] /\ asking' = q /\ tries' = 1
        /\ up_link' = up_link \cup {q} /\ permitted' = permitted /\ unsure' = unsure
    BY <1>2 DEF AllocateAnswer, Ask
  <2>2. /\ turn' \in [lifetime : Int, nonce : Nat, txn : Nat]
        /\ turn'.txn = turn.txn + 1 /\ turn'.lifetime = turn.lifetime /\ turn.txn + 1 \in Nat
        /\ turn.txn < turn.txn + 1 /\ turn.txn \in Nat
    BY <1>0, <2>1
  <2>3. q.kind = "allocate" /\ q.txn = turn.txn + 1 /\ q.nonce = m.nonce
    OBVIOUS
  <2> HIDE DEF q
  <2>4. ReqOK(q)
    BY <1>0, <2>2, <2>3 DEF ReqOK, AnsOK
  <2>5. Open'
    BY <2>1, <2>3 DEF Open, NoRequestOpen
  <2>6. TurnTypeOK'
    <3>1. \A u \in up_link' : ReqOK(u)
      BY <2>1, <2>4 DEF TurnInv, TurnTypeOK
    <3>2. \A x \in down_link' : AnsOK(x)
      BY DEF TurnInv, TurnTypeOK
    <3>3. relay' \in [lifetime : Nat, owner : Nat, perms : SUBSET RelayPeers, nonce : Nat \ {0}]
      BY DEF TurnInv, TurnTypeOK
    <3> QED
      BY <1>0, <2>1, <2>2, <2>3, <2>4, <3>1, <3>2, <3>3 DEF TurnTypeOK, ReqOK, AnsOK
  <2>7. ASSUME ~unsure' PROVE WhileOpen'
    <3>1. WhileOpen /\ Known
      BY <1>0, <1>2, <2>1, <2>7 DEF WhileOpen
    <3>2. Known'
      BY <2>1, <2>2, <3>1 DEF Known
    <3>3. \A u \in up_link' : (u = asking \/ Bare(u))'
      <4> SUFFICES ASSUME NEW u \in up_link PROVE Bare(u)'
        BY <2>1
      <4>2. CASE u = asking
        BY <1>0, <1>2, <2>1, <2>2, <2>3, <4>2 DEF Bare
      <4>3. CASE Bare(u)
        <5>1. u.txn \in Nat
          BY DEF TurnInv, TurnTypeOK, ReqOK
        <5> QED
          BY <2>1, <2>2, <2>3, <4>3, <5>1 DEF Bare
      <4> QED
        BY <3>1, <4>2, <4>3 DEF WhileOpen
    <3>4. \A x \in down_link' : x.kind = "data" \/ BareAnswer(x)'
      <4> SUFFICES ASSUME NEW x \in down_link, x.kind # "data" PROVE BareAnswer(x)'
        OBVIOUS
      <4>1. OwnAnswer(x) \/ BareAnswer(x)
        BY <3>1 DEF WhileOpen
      <4>2. x.txn \in Nat
        BY DEF TurnInv, TurnTypeOK, AnsOK
      <4> QED
        BY <1>0, <1>2, <2>1, <2>2, <2>3, <4>1, <4>2 DEF OwnAnswer, BareAnswer
    <3> QED
      BY <3>2, <3>3, <3>4 DEF WhileOpen
  <2> QED
    BY <2>5, <2>6, <2>7 DEF TurnInv
<1>3. CASE m.kind = "allocate" /\ m.txn = asking.txn /\ m.code # 200
             /\ ~(m.code = 401 /\ asking.nonce = NoNonceYet)
  <2>1. /\ asking' = NoRequestOpen /\ unsure' = (unsure \/ ~(tries = 1))
        /\ turn' = turn /\ permitted' = permitted /\ up_link' = up_link
    BY <1>3 DEF AllocateAnswer, Return
  <2>2. ASSUME ~unsure' PROVE WhileIdle'
    <3>1. WhileOpen /\ OwnAnswer(m)
      BY <1>0, <1>3, <2>1, <2>2 DEF WhileOpen, BareAnswer
    <3> QED
      BY <1>3, <2>1, <2>2, <3>1, RefusedIsIdle
  <2>3. unsure' \in BOOLEAN
    BY <2>1
  <2> QED
    BY <1>0, <2>1, <2>2, <2>3, ReturnInv
<1>4. CASE m.kind # "allocate" \/ m.txn # asking.txn
  <2>1. /\ asking' = NoRequestOpen /\ unsure' = (unsure \/ ~FALSE)
        /\ turn' = turn /\ permitted' = permitted /\ up_link' = up_link
    BY <1>4 DEF AllocateAnswer, Return
  <2>2. unsure'
    BY <2>1
  <2>3. unsure' \in BOOLEAN
    BY <2>1
  <2> QED
    BY <1>0, <2>1, <2>2, <2>3, ReturnInv
<1> QED
  BY <1>1, <1>2, <1>3, <1>4

\* refresh and create_permission, which look at the type of the answer only.
LEMMA OtherAnswerInv ==
    ASSUME TurnInv, NEW m \in down_link, down_link' = down_link \ {m}, UNCHANGED relay, Open,
           \/ asking.kind = "refresh" /\ RefreshAnswer(m)
           \/ asking.kind = "permission" /\ PermissionAnswer(m)
    PROVE  TurnInv'
<1>0. /\ turn \in [lifetime : Int, nonce : Nat, txn : Nat] /\ AnsOK(m) /\ ReqOK(asking)
      /\ asking.txn = turn.txn /\ unsure \in BOOLEAN /\ tries \in Nat
      /\ ~unsure => WhileOpen
  BY DEF TurnInv, TurnTypeOK
<1>1. /\ asking' = NoRequestOpen /\ up_link' = up_link
      /\ unsure' = (unsure \/ ~(IsSuccess(m) \/ (m.kind = asking.kind /\ tries = 1)))
  BY DEF RefreshAnswer, PermissionAnswer, Return
<1>2. unsure' \in BOOLEAN
  BY <1>1
<1>3. turn' \in [lifetime : Int, nonce : Nat, txn : Nat]
  BY <1>0 DEF RefreshAnswer, PermissionAnswer, IsSuccess, AnsOK
<1>4. ASSUME ~unsure' PROVE WhileIdle'
  <2>1. ~unsure /\ WhileOpen /\ m.kind = asking.kind /\ (IsSuccess(m) \/ tries = 1)
    BY <1>0, <1>1, <1>4 DEF IsSuccess
  <2>2. OwnAnswer(m)
    BY <1>0, <2>1 DEF WhileOpen, BareAnswer, ReqOK
  <2>3. \A u \in up_link : u = asking \/ Bare(u)
    BY <2>1 DEF WhileOpen
  <2>4. CASE ~IsSuccess(m)
    <3>1. turn' = turn /\ permitted' = permitted
      BY <2>4 DEF RefreshAnswer, PermissionAnswer
    <3>2. m.code # 200 /\ tries = 1
      BY <2>1, <2>4 DEF IsSuccess
    <3> QED
      BY <1>1, <2>1, <2>2, <3>1, <3>2, RefusedIsIdle
  <2>5. CASE IsSuccess(m) /\ asking.kind = "refresh"
    <3>1. /\ turn' = [turn EXCEPT !.lifetime = m.arg] /\ permitted' = permitted
      BY <2>5 DEF RefreshAnswer
    <3>2. turn'.lifetime = asking.arg /\ m.arg = asking.arg
      BY <1>0, <2>2, <2>5, <3>1 DEF OwnAnswer, IsSuccess
    <3>3. relay.lifetime = asking.arg /\ (asking.arg # 0 => permitted \subseteq relay.perms)
      BY <2>2, <2>5 DEF OwnAnswer, IsSuccess, Promised
    <3>4. Known'
      BY <3>1, <3>2, <3>3 DEF Known
    <3> QED
      BY <1>1, <2>3, <2>5, <3>2, <3>4 DEF WhileIdle, Bare
  <2>6. CASE IsSuccess(m) /\ asking.kind = "permission"
    <3>1. turn' = turn /\ permitted' = permitted \cup {asking.arg}
      BY <2>6 DEF PermissionAnswer
    <3>2. /\ relay.lifetime = turn.lifetime
          /\ turn.lifetime # 0 => permitted \cup {asking.arg} \subseteq relay.perms
      BY <2>2, <2>6 DEF OwnAnswer, IsSuccess, Promised
    <3>3. Known'
      BY <3>1, <3>2 DEF Known
    <3> QED
      BY <1>1, <2>3, <2>6, <3>3 DEF WhileIdle, Bare
  <2> QED
    BY <2>4, <2>5, <2>6 DEF IsSuccess
<1> QED
  BY <1>1, <1>2, <1>3, <1>4, ReturnInv

LEMMA TimeoutInv ==
    ASSUME TurnInv, send_raw_timeout
    PROVE  TurnInv'
<1>0. /\ Open /\ UNCHANGED <<turn, permitted, relay, down_link>>
  BY DEF send_raw_timeout, Open
<1>1. CASE tries' = tries + 1 /\ up_link' = up_link \cup {asking} /\ UNCHANGED <<asking, unsure>>
  <2>1. Open' /\ tries \in Nat \ {0} /\ tries' \in Nat \ {0} /\ tries' # 1
    BY <1>0, <1>1 DEF Open, TurnInv, TurnTypeOK
  <2>2. TurnTypeOK'
    BY <1>0, <1>1, <2>1 DEF TurnInv, TurnTypeOK, ReqOK, AnsOK, Open
  <2>3. (Known' <=> Known) /\ (Promised' <=> Promised)
    BY <1>0, <1>1 DEF Known, Promised
  <2>4. ASSUME ~unsure' PROVE WhileOpen'
    <3>1. WhileOpen
      BY <1>0, <1>1, <2>4 DEF TurnInv
    <3>2. \A u \in up_link' : (u = asking \/ Bare(u))'
      BY <1>0, <1>1, <3>1 DEF WhileOpen, Bare
    <3>3. \A m \in down_link' : m.kind = "data" \/ OwnAnswer(m)' \/ BareAnswer(m)'
      BY <1>0, <1>1, <2>1, <2>3, <3>1 DEF WhileOpen, OwnAnswer, BareAnswer
    <3> QED
      BY <1>1, <2>1, <2>3, <3>1, <3>2, <3>3 DEF WhileOpen
  <2> QED
    BY <2>1, <2>2, <2>4 DEF TurnInv
<1>2. CASE Return(FALSE) /\ UNCHANGED up_link
  <2>1. ~Open' /\ unsure' = (unsure \/ ~FALSE) /\ up_link' = up_link
    BY <1>2 DEF Return, Open
  <2>2. unsure' \in BOOLEAN /\ unsure'
    BY <2>1
  <2>3. TurnTypeOK'
    BY <1>0, <2>1, <2>2 DEF TurnInv, TurnTypeOK, ReqOK, AnsOK
  <2> QED
    BY <2>1, <2>2, <2>3 DEF TurnInv
<1> QED
  BY <1>1, <1>2 DEF send_raw_timeout

-----------------------------------------------------------------------------
(* The server grants what the client asks, and only that.                  *)

LEMMA CodeForFacts ==
    ASSUME TurnInv, NEW q, ReqOK(q), CodeFor(q) = 200
    PROVE  /\ q.nonce # NoNonceYet
           /\ q.kind = "allocate" => relay.lifetime = 0 \/ relay.owner = q.txn
           /\ q.kind # "allocate" => relay.lifetime # 0
<1>1. relay.nonce # NoNonceYet
  BY DEF TurnInv, TurnTypeOK, NoNonceYet
<1>2. CASE q.nonce = NoNonceYet
  BY <1>1, <1>2 DEF CodeFor
<1>3. CASE q.nonce \notin {NoNonceYet, relay.nonce}
  BY <1>1, <1>3 DEF CodeFor
<1>4. CASE q.nonce = relay.nonce /\ q.kind = "allocate"
  BY <1>1, <1>4 DEF CodeFor
<1>5. CASE q.nonce = relay.nonce /\ q.kind # "allocate"
  BY <1>1, <1>5 DEF CodeFor
<1> QED
  BY <1>2, <1>3, <1>4, <1>5

LEMMA GrantedFacts ==
    ASSUME TurnInv, NEW q, ReqOK(q)
    PROVE  LET g == Granted(q)
           IN  /\ g \in [lifetime : Nat, owner : Nat, perms : SUBSET RelayPeers, nonce : Nat \ {0}]
               /\ q.kind = "allocate" => g.lifetime = Default /\ g.owner = q.txn
                                         /\ g.perms = relay.perms
               /\ q.kind = "refresh" => g.lifetime = q.arg
                                        /\ (q.arg # 0 => g.perms = relay.perms)
               /\ q.kind = "permission" => g.lifetime = relay.lifetime
                                           /\ g.perms = relay.perms \cup {q.arg}
<1> DEFINE R == [lifetime : Nat, owner : Nat, perms : SUBSET RelayPeers, nonce : Nat \ {0}]
<1>1. relay \in R
  BY DEF TurnInv, TurnTypeOK
<1>2. CASE q.kind = "allocate"
  <2>1. Granted(q) = [relay EXCEPT !.lifetime = Default, !.owner = q.txn]
    BY <1>2 DEF Granted
  <2> QED
    BY <1>1, <1>2, <2>1, TurnAssumption DEF ReqOK
<1>3. CASE q.kind = "refresh"
  <2> DEFINE p == IF q.arg = 0 THEN {} ELSE relay.perms
  <2>1. Granted(q) = [relay EXCEPT !.lifetime = q.arg, !.perms = p]
    BY <1>3 DEF Granted
  <2>2. p \in SUBSET RelayPeers /\ (q.arg # 0 => p = relay.perms)
    BY <1>1
  <2> HIDE DEF p
  <2> QED
    BY <1>1, <1>3, <2>1, <2>2 DEF ReqOK
<1>4. CASE q.kind = "permission"
  <2>1. Granted(q) = [relay EXCEPT !.perms = relay.perms \cup {q.arg}]
    BY <1>4 DEF Granted
  <2>2. relay.perms \cup {q.arg} \in SUBSET RelayPeers
    BY <1>1, <1>4 DEF ReqOK
  <2> QED
    BY <1>1, <1>4, <2>1, <2>2
<1> QED
  BY <1>2, <1>3, <1>4 DEF ReqOK

LEMMA ServeInv ==
    ASSUME TurnInv, NEW q \in up_link, Serve(q)
    PROVE  TurnInv'
<1>a. PICK code : code = CodeFor(q)
  OBVIOUS
<1>b. PICK a : a = [kind |-> q.kind, txn |-> q.txn, code |-> code, nonce |-> relay.nonce,
                    arg |-> IF q.kind = "allocate" THEN Default ELSE q.arg]
  OBVIOUS
<1>1. /\ relay' = IF code = 200 THEN Granted(q) ELSE relay
      /\ down_link' = down_link \cup {a}
      /\ up_link' = up_link \ {q} \/ (tries > 1 /\ q = asking /\ up_link' = up_link)
      /\ UNCHANGED <<turn, asking, tries, permitted, unsure>>
  BY <1>a, <1>b DEF Serve
<1>2. /\ a.kind = q.kind /\ a.txn = q.txn /\ a.code = code /\ a.nonce = relay.nonce
      /\ a.arg = IF q.kind = "allocate" THEN Default ELSE q.arg
  BY <1>b
<1>3. ReqOK(q) /\ relay.nonce \in Nat /\ relay.lifetime \in Nat /\ turn.lifetime \in Int
      /\ turn.txn \in Nat
  BY DEF TurnInv, TurnTypeOK
<1>4. /\ code = 200 => q.nonce # NoNonceYet
      /\ code = 200 /\ q.kind # "allocate" => relay.lifetime # 0
  BY <1>3, <1>a, CodeForFacts
<1>5. /\ relay' \in [lifetime : Nat, owner : Nat, perms : SUBSET RelayPeers, nonce : Nat \ {0}]
      /\ code # 200 => relay' = relay
      /\ code = 200 =>
            /\ q.kind = "allocate" => relay'.lifetime = Default /\ relay'.owner = q.txn
                                      /\ relay'.perms = relay.perms
            /\ q.kind = "refresh" => relay'.lifetime = q.arg
                                     /\ (q.arg # 0 => relay'.perms = relay.perms)
            /\ q.kind = "permission" => relay'.lifetime = relay.lifetime
                                        /\ relay'.perms = relay.perms \cup {q.arg}
  <2>1. relay \in [lifetime : Nat, owner : Nat, perms : SUBSET RelayPeers, nonce : Nat \ {0}]
    BY DEF TurnInv, TurnTypeOK
  <2> QED
    BY <1>1, <1>3, <2>1, GrantedFacts
<1>6. AnsOK(a)
  BY <1>2, <1>3, TurnAssumption DEF AnsOK, ReqOK
<1>7. TurnTypeOK'
  <2>1. up_link' \subseteq up_link
    BY <1>1
  <2>2. \A m \in down_link' : AnsOK(m)
    BY <1>1, <1>6 DEF TurnInv, TurnTypeOK
  <2> QED
    BY <1>1, <1>5, <2>1, <2>2 DEF TurnInv, TurnTypeOK, Open, ReqOK, AnsOK
<1>8. ASSUME ~unsure', Open' PROVE WhileOpen'
  <2>1. WhileOpen /\ Open /\ ReqOK(asking) /\ asking.txn = turn.txn
        /\ (asking.kind # "allocate" => turn.lifetime # -1)
    BY <1>1, <1>8 DEF TurnInv, TurnTypeOK, Open
  <2>2. CASE Bare(q) /\ q # asking
    <3>1. relay' = relay /\ q.kind = "allocate" /\ q.txn < turn.txn
      BY <1>4, <1>5, <2>2 DEF Bare
    <3>2. (Known' <=> Known) /\ (Promised' <=> Promised)
      BY <1>1, <3>1 DEF Known, Promised
    <3>3. asking \in up_link' <=> asking \in up_link
      BY <1>1, <2>2
    <3>4. BareAnswer(a)'
      BY <1>1, <1>2, <2>2, <3>1 DEF BareAnswer, Bare
    <3> QED
      BY <1>1, <2>1, <3>2, <3>3, <3>4 DEF WhileOpen, OwnAnswer, BareAnswer, Bare
  <2>3. CASE q = asking
    <3>1. code = 200 => Promised'
      <4> SUFFICES ASSUME code = 200 PROVE Promised'
        OBVIOUS
      <4>1. CASE q.kind = "allocate"
        BY <1>1, <1>5, <2>3, <4>1 DEF Promised
      <4>2. CASE q.kind = "refresh"
        <5>1. q.arg # 0 => permitted \subseteq relay.perms
          BY <1>3, <1>4, <2>1, <2>3, <4>2 DEF WhileOpen, Known, Promised
        <5> QED
          BY <1>1, <1>5, <2>3, <4>2, <5>1 DEF Promised
      <4>3. CASE q.kind = "permission"
        <5>1. relay.lifetime = turn.lifetime /\ permitted \subseteq relay.perms
          BY <1>3, <1>4, <2>1, <2>3, <4>3 DEF WhileOpen, Known, Promised
        <5> QED
          BY <1>1, <1>5, <2>3, <4>3, <5>1 DEF Promised
      <4> QED
        BY <1>3, <4>1, <4>2, <4>3 DEF ReqOK
    <3>2. code # 200 => (Known' <=> Known) /\ (Promised' <=> Promised)
      BY <1>1, <1>5 DEF Known, Promised
    <3>3. (Known \/ Promised)' /\ (asking.nonce = NoNonceYet => Known)'
      BY <1>1, <1>4, <2>1, <2>3, <3>1, <3>2 DEF WhileOpen
    <3>4. \A u \in up_link' : (u = asking \/ Bare(u))'
      BY <1>1, <2>1 DEF WhileOpen, Bare
    <3>5. tries = 1 => asking \notin up_link' /\ Known
                       /\ \A m \in down_link : m.kind = "data" \/ BareAnswer(m)
      BY <1>1, <2>1, <2>3 DEF WhileOpen
    <3>6. OwnAnswer(a)'
      <4>1. a.code # 200 /\ tries' = 1 => Known' /\ asking' \notin up_link'
        BY <1>1, <1>2, <3>2, <3>5
      <4>2. a.code = 200 => /\ Promised'
                            /\ a.kind = "allocate" => a.arg = Default
                            /\ a.kind = "refresh" => a.arg = asking'.arg
        BY <1>1, <1>2, <2>3, <3>1
      <4> QED
        BY <1>1, <1>2, <2>3, <4>1, <4>2 DEF OwnAnswer
    <3>7. ASSUME NEW m \in down_link, m.kind # "data"
          PROVE  OwnAnswer(m)' \/ BareAnswer(m)'
      <4>1. CASE BareAnswer(m)
        BY <1>1, <4>1 DEF BareAnswer
      <4>2. CASE OwnAnswer(m) /\ ~BareAnswer(m)
        <5>1. tries # 1
          BY <3>5, <3>7, <4>2
        <5>2. m.code = 200 => Promised'
          BY <3>1, <3>2, <4>2 DEF OwnAnswer
        <5> QED
          BY <1>1, <4>2, <5>1, <5>2 DEF OwnAnswer
      <4> QED
        BY <2>1, <3>7, <4>1, <4>2 DEF WhileOpen
    <3>8. \A m \in down_link' : m.kind = "data" \/ OwnAnswer(m)' \/ BareAnswer(m)'
      BY <1>1, <3>6, <3>7
    <3> QED
      BY <1>1, <3>3, <3>4, <3>5, <3>8 DEF WhileOpen
  <2> QED
    BY <2>1, <2>2, <2>3 DEF WhileOpen
<1>9. ASSUME ~unsure', ~Open' PROVE WhileIdle'
  <2>1. WhileIdle
    BY <1>1, <1>9 DEF TurnInv, Open
  <2>2. Known'
    <3>1. CASE code # 200
      BY <1>1, <1>5, <2>1, <3>1 DEF WhileIdle, Known
    <3>2. CASE code = 200
      BY <1>1, <1>3, <1>4, <1>5, <2>1, <3>2 DEF WhileIdle, Known, ReqOK
    <3> QED
      BY <3>1, <3>2
  <2> QED
    BY <1>1, <2>1, <2>2 DEF WhileIdle
<1> QED
  BY <1>7, <1>8, <1>9 DEF TurnInv

LEMMA TurnNextInv ==
    ASSUME TurnInv, [TurnNext]_turnVars
    PROVE  TurnInv'
<1>0. /\ relay \in [lifetime : Nat, owner : Nat, perms : SUBSET RelayPeers, nonce : Nat \ {0}]
      /\ turn.nonce \in Nat
  BY DEF TurnInv, TurnTypeOK
<1>1. CASE UNCHANGED turnVars
  BY <1>0, <1>1, QuietStepInv DEF turnVars
<1>2. CASE allocate
  BY <1>2, CallInv DEF allocate, NoNonceYet
<1>3. ASSUME NEW n \in Lifetimes, refresh(n) PROVE TurnInv'
  BY <1>0, <1>3, CallInv, TurnAssumption DEF refresh
<1>4. ASSUME NEW p \in RelayPeers, create_permission(p) PROVE TurnInv'
  BY <1>0, <1>4, CallInv DEF create_permission
<1>5. CASE recv_data
  BY <1>0, <1>5, QuietStepInv DEF recv_data
<1>6. CASE send_raw_timeout
  BY <1>6, TimeoutInv
<1>7. ASSUME NEW p \in RelayPeers, Relayed(p) PROVE TurnInv'
  <2> DEFINE d == [kind |-> "data", txn |-> 0, code |-> 0, nonce |-> NoNonceYet, arg |-> p]
  <2>1. d.kind = "data" /\ AnsOK(d)
    BY DEF NoNonceYet, AnsOK
  <2>2. down_link' = down_link \cup {d} /\ UNCHANGED <<turn, asking, tries, permitted, relay, up_link, unsure>>
    BY <1>7 DEF Relayed
  <2> HIDE DEF d
  <2> QED
    BY <1>0, <2>1, <2>2, QuietStepInv
<1>8. ASSUME NEW m \in down_link, Answered(m) PROVE TurnInv'
  BY <1>8, AllocateAnswerInv, OtherAnswerInv DEF Answered, Open
<1>9. ASSUME NEW q \in up_link, Serve(q) PROVE TurnInv'
  BY <1>9, ServeInv
<1>10. CASE RunsOut
  <2>1. relay' = [relay EXCEPT !.lifetime = 0, !.perms = {}]
        /\ unsure' = TRUE /\ UNCHANGED <<turn, asking, tries, permitted, up_link, down_link>>
    BY <1>10 DEF RunsOut
  <2>2. relay' \in [lifetime : Nat, owner : Nat, perms : SUBSET RelayPeers, nonce : Nat \ {0}]
    BY <1>0, <2>1
  <2>3. TurnTypeOK'
    BY <2>1, <2>2 DEF TurnInv, TurnTypeOK, Open, ReqOK, AnsOK
  <2> QED
    BY <2>1, <2>3 DEF TurnInv
<1>11. CASE NewNonce
  <2>1. /\ relay' = [relay EXCEPT !.nonce = relay.nonce + 1]
        /\ UNCHANGED <<turn, asking, tries, permitted, up_link, down_link, unsure>>
    BY <1>11 DEF NewNonce
  <2>2. relay.nonce + 1 \in Nat \ {0}
    BY <1>0
  <2>3. /\ relay' \in [lifetime : Nat, owner : Nat, perms : SUBSET RelayPeers, nonce : Nat \ {0}]
        /\ relay'.lifetime = relay.lifetime /\ relay'.owner = relay.owner
        /\ relay'.perms = relay.perms
    BY <1>0, <2>1, <2>2
  <2> QED
    BY <2>1, <2>3, QuietStepInv
<1>12. CASE LoseDatagram
  BY <1>0, <1>12, QuietStepInv DEF LoseDatagram
<1> QED
  BY <1>1, <1>2, <1>3, <1>4, <1>5, <1>6, <1>7, <1>8, <1>9, <1>10, <1>11, <1>12 DEF TurnNext

\* An idle TURN client whose calls were all answered has the lifetime and the
\* permissions at the server that it was told of, for any number of retries,
\* copies, losses, challenges and changed nonces.
THEOREM ClientKnowsRelay == TurnSpec => []RelayIsAsTold
<1>1. TurnInv => RelayIsAsTold
  BY DEF TurnInv, WhileIdle, Known, RelayIsAsTold, Open
<1> QED
  BY <1>1, TurnInitInv, TurnNextInv, PTL DEF TurnSpec

-----------------------------------------------------------------------------
(* GabbyServer.                                                            *)

HandlerTasks ==
    [call : Callers, port : RtpPorts,
     state : {"spawned", "listening", "busy", "ended", "gone"},
     shutdown : {"open", "sent", "dropped"}, idle : Nat, mute : BOOLEAN]

\* The table and the tasks agree in what ActiveIsServed does not mention: an
\* entry is held by a handler of its Call-ID, so that the notice of that
\* handler's end removes this entry and no other.
GsInv ==
    /\ allocated \subseteq RtpPorts
    /\ handlers \in Seq(HandlerTasks)
    /\ ends \in Seq(Callers)
    /\ DOMAIN active \subseteq Callers
    /\ \A c \in DOMAIN active :
          /\ active[c].handler \in DOMAIN handlers
          /\ handlers[active[c].handler].call = c
    /\ ActiveIsServed

LEMMA MinFreePort ==
    ASSUME FreePorts # {}
    PROVE  Min(FreePorts) \in RtpPorts \ allocated
<1>1. FreePorts \subseteq Nat
  BY GabbyAssumption DEF FreePorts
<1>2. \E x \in FreePorts : \A y \in FreePorts : ~(<<y, x>> \in OpToRel(<, Nat))
  BY <1>1, NatLessThanWellFounded, WFMin
<1>3. PICK x \in FreePorts : \A y \in FreePorts : ~(<<y, x>> \in OpToRel(<, Nat))
  BY <1>2
<1>4. \A y \in FreePorts : x <= y
  <2> SUFFICES ASSUME NEW y \in FreePorts, ~(x <= y) PROVE FALSE
    OBVIOUS
  <2>1. x \in Nat /\ y \in Nat /\ y < x
    BY <1>1
  <2>2. <<y, x>> \in OpToRel(<, Nat)
    BY <2>1 DEF OpToRel
  <2> QED
    BY <1>3, <2>2
<1>5. Min(FreePorts) \in FreePorts
  BY <1>4 DEF Min
<1> QED
  BY <1>5 DEF FreePorts

\* A handler task is replaced by another state of itself.
LEMMA HandlerUpdate ==
    ASSUME NEW hs \in Seq(HandlerTasks), NEW h \in DOMAIN hs, NEW r \in HandlerTasks
    PROVE  LET n == [hs EXCEPT ![h] = r]
           IN  /\ n \in Seq(HandlerTasks) /\ Len(n) = Len(hs) /\ DOMAIN n = DOMAIN hs
               /\ n[h] = r
               /\ \A k \in DOMAIN hs : k # h => n[k] = hs[k]
OBVIOUS

\* A step of one task that tells nobody: the call keeps its handler.
LEMMA TaskStepInv ==
    ASSUME GsInv, NEW h \in DOMAIN handlers, NEW r \in HandlerTasks,
           handlers' = [handlers EXCEPT ![h] = r],
           r.call = handlers[h].call, r.shutdown = handlers[h].shutdown, r.state # "gone",
           UNCHANGED <<allocated, active, ends>>
    PROVE  GsInv'
<1>1. /\ handlers' \in Seq(HandlerTasks) /\ DOMAIN handlers' = DOMAIN handlers
      /\ handlers'[h] = r /\ \A k \in DOMAIN handlers : k # h => handlers'[k] = handlers[k]
  BY HandlerUpdate DEF GsInv
<1>2. \A k \in DOMAIN handlers : /\ handlers'[k].call = handlers[k].call
                                 /\ handlers'[k].shutdown = handlers[k].shutdown
                                 /\ handlers[k].state # "gone" => handlers'[k].state # "gone"
  BY <1>1
<1>3. ActiveIsServed'
  <2>1. \A c \in DOMAIN active' :
          /\ active'[c].port \in allocated'
          /\ \A d \in DOMAIN active' \ {c} : active'[d].port # active'[c].port
          /\ \/ handlers'[active'[c].handler].state # "gone"
             \/ \E i \in DOMAIN ends' : ends'[i] = c
    BY <1>2 DEF GsInv, ActiveIsServed
  <2>2. \A k \in DOMAIN handlers' :
          \/ handlers'[k].shutdown # "open"
          \/ \E c \in DOMAIN active' : active'[c].handler = k
    BY <1>1, <1>2 DEF GsInv, ActiveIsServed
  <2> QED
    BY <2>1, <2>2 DEF ActiveIsServed
<1> QED
  BY <1>1, <1>2, <1>3 DEF GsInv

LEMMA TaskInv ==
    ASSUME GsInv, NEW h \in DOMAIN handlers,
           \/ CallHandlerNew(h) \/ HandleRtpReceive(h) \/ TurnAnswered(h) \/ TimedOut(h)
           \/ Shutdown(h) \/ HandlerElapse(h) \/ FallMute(h)
    PROVE  GsInv'
<1>0. handlers \in Seq(HandlerTasks) /\ handlers[h] \in HandlerTasks
  BY DEF GsInv
<1>1. UNCHANGED <<allocated, active, ends>>
  BY DEF CallHandlerNew, HandleRtpReceive, TurnAnswered, TimedOut, Shutdown, HandlerElapse, FallMute
<1>2. ASSUME NEW s \in {"listening", "busy", "ended"},
             handlers' = [handlers EXCEPT ![h].state = s]
      PROVE  GsInv'
  <2>1. PICK r : r = [handlers[h] EXCEPT !.state = s]
    OBVIOUS
  <2>2. r \in HandlerTasks /\ r.call = handlers[h].call /\ r.shutdown = handlers[h].shutdown
        /\ r.state # "gone"
    BY <1>0, <2>1 DEF HandlerTasks
  <2>3. handlers' = [handlers EXCEPT ![h] = r]
    BY <1>2, <2>1
  <2> QED
    BY <1>1, <2>2, <2>3, TaskStepInv
<1>3. ASSUME HandleRtpReceive(h) PROVE GsInv'
  <2>1. PICK s \in {"listening", "busy"} :
               handlers' = [handlers EXCEPT ![h].idle = 0, ![h].state = s]
    BY <1>3 DEF HandleRtpReceive
  <2>2. PICK r : r = [handlers[h] EXCEPT !.idle = 0, !.state = s]
    OBVIOUS
  <2>3. r \in HandlerTasks /\ r.call = handlers[h].call /\ r.shutdown = handlers[h].shutdown
        /\ r.state # "gone"
    BY <1>0, <2>2 DEF HandlerTasks
  <2>4. handlers' = [handlers EXCEPT ![h] = r]
    BY <1>0, <2>1, <2>2
  <2> QED
    BY <1>1, <2>3, <2>4, TaskStepInv
<1>4. ASSUME HandlerElapse(h) PROVE GsInv'
  <2>1. PICK r : r = [handlers[h] EXCEPT !.idle = handlers[h].idle + 1]
    OBVIOUS
  <2>2. handlers[h].idle + 1 \in Nat
    BY <1>0 DEF HandlerTasks
  <2>3. r \in HandlerTasks /\ r.call = handlers[h].call /\ r.shutdown = handlers[h].shutdown
        /\ r.state = handlers[h].state
    BY <1>0, <2>1, <2>2 DEF HandlerTasks
  <2>4. handlers' = [handlers EXCEPT ![h] = r] /\ handlers[h].state # "gone"
    BY <1>4, <2>1 DEF HandlerElapse, HasSocket
  <2> QED
    BY <1>1, <2>3, <2>4, TaskStepInv
<1>5. ASSUME FallMute(h) PROVE GsInv'
  <2>1. PICK r : r = [handlers[h] EXCEPT !.mute = TRUE]
    OBVIOUS
  <2>2. r \in HandlerTasks /\ r.call = handlers[h].call /\ r.shutdown = handlers[h].shutdown
        /\ r.state = handlers[h].state
    BY <1>0, <2>1 DEF HandlerTasks
  <2>3. handlers' = [handlers EXCEPT ![h] = r] /\ handlers[h].state # "gone"
    BY <1>5, <2>1 DEF FallMute, HasSocket
  <2> QED
    BY <1>1, <2>2, <2>3, TaskStepInv
<1> QED
  BY <1>2, <1>3, <1>4, <1>5 DEF CallHandlerNew, TurnAnswered, TimedOut, Shutdown

\* The end of a task is in the channel before anybody can miss it.
LEMMA NotifyInv ==
    ASSUME GsInv, NEW h \in DOMAIN handlers, NotifyEnd(h)
    PROVE  GsInv'
<1>a. handlers \in Seq(HandlerTasks) /\ handlers[h] \in HandlerTasks /\ ends \in Seq(Callers)
  BY DEF GsInv
<1>0. /\ handlers \in Seq(HandlerTasks) /\ handlers[h] \in HandlerTasks /\ ends \in Seq(Callers)
      /\ handlers[h].call \in Callers
  BY <1>a DEF HandlerTasks
<1>1. PICK r : r = [handlers[h] EXCEPT !.state = "gone"]
  OBVIOUS
<1>2. r \in HandlerTasks /\ r.call = handlers[h].call /\ r.shutdown = handlers[h].shutdown
  BY <1>0, <1>1 DEF HandlerTasks
<1>3. /\ handlers' = [handlers EXCEPT ![h] = r] /\ ends' = Append(ends, handlers[h].call)
      /\ allocated' = allocated /\ active' = active
  BY <1>1 DEF NotifyEnd
<1>4. /\ handlers' \in Seq(HandlerTasks) /\ DOMAIN handlers' = DOMAIN handlers
      /\ handlers'[h] = r /\ \A k \in DOMAIN handlers : k # h => handlers'[k] = handlers[k]
  BY <1>0, <1>2, <1>3, HandlerUpdate
<1>5. /\ ends' \in Seq(Callers)
      /\ \A i \in DOMAIN ends : i \in DOMAIN ends' /\ ends'[i] = ends[i]
      /\ \E i \in DOMAIN ends' : ends'[i] = handlers[h].call
  <2>1. ends' \in Seq(Callers) /\ Len(ends') = Len(ends) + 1
        /\ ends'[Len(ends) + 1] = handlers[h].call
        /\ \A i \in 1 .. Len(ends) : ends'[i] = ends[i]
    BY <1>0, <1>3
  <2>2. DOMAIN ends = 1 .. Len(ends) /\ DOMAIN ends' = 1 .. Len(ends) + 1 /\ Len(ends) \in Nat
    BY <1>0, <2>1
  <2> QED
    BY <2>1, <2>2
<1>6. ActiveIsServed'
  <2>1. ASSUME NEW c \in DOMAIN active
        PROVE  \/ handlers'[active[c].handler].state # "gone"
               \/ \E i \in DOMAIN ends' : ends'[i] = c
    <3>1. CASE active[c].handler = h
      BY <1>5, <2>1, <3>1 DEF GsInv
    <3>2. CASE active[c].handler # h
      BY <1>4, <1>5, <2>1, <3>2 DEF GsInv, ActiveIsServed
    <3> QED
      BY <3>1, <3>2
  <2>2. \A k \in DOMAIN handlers' :
          \/ handlers'[k].shutdown # "open"
          \/ \E c \in DOMAIN active : active[c].handler = k
    BY <1>2, <1>4 DEF GsInv, ActiveIsServed
  <2> QED
    BY <1>3, <2>1, <2>2 DEF GsInv, ActiveIsServed
<1> QED
  BY <1>2, <1>3, <1>4, <1>5, <1>6 DEF GsInv

-----------------------------------------------------------------------------
(* The server task.                                                        *)

\* Handler h has been told to stop, and nothing else has changed.
Signalled(n, hs, h) ==
    /\ n \in Seq(HandlerTasks) /\ DOMAIN n = DOMAIN hs /\ Len(n) = Len(hs)
    /\ n[h].shutdown # "open"
    /\ \A k \in DOMAIN hs : n[k].call = hs[k].call /\ n[k].state = hs[k].state
    /\ \A k \in DOMAIN hs : k # h => n[k] = hs[k]

LEMMA SignalFacts ==
    ASSUME NEW hs \in Seq(HandlerTasks), NEW h \in DOMAIN hs, NEW how \in {"sent", "dropped"}
    PROVE  Signalled(Signal(hs, h, how), hs, h)
<1> DEFINE v == IF hs[h].shutdown = "open" THEN how ELSE hs[h].shutdown
<1>1. hs[h] \in HandlerTasks
  OBVIOUS
<1>2. v \in {"open", "sent", "dropped"} /\ v # "open"
  BY <1>1 DEF HandlerTasks
<1> HIDE DEF v
<1>3. PICK r : r = [hs[h] EXCEPT !.shutdown = v]
  OBVIOUS
<1>4. /\ r \in HandlerTasks /\ r.call = hs[h].call /\ r.state = hs[h].state
      /\ r.shutdown = v
  BY <1>1, <1>2, <1>3 DEF HandlerTasks
<1>5. Signal(hs, h, how) = [hs EXCEPT ![h] = r]
  BY <1>3 DEF Signal, v
<1> QED
  BY <1>2, <1>4, <1>5, HandlerUpdate DEF Signalled

\* An entry is removed: its handler is told, its port is no other entry's.
LEMMA RemoveCallInv ==
    ASSUME GsInv, NEW c, NEW how \in {"sent", "dropped"}, RemoveCall(c, how),
           ends' \in Seq(Callers),
           \A d \in Callers \ {c} :
              (\E i \in DOMAIN ends : ends[i] = d) => \E i \in DOMAIN ends' : ends'[i] = d
    PROVE  GsInv'
<1>1. CASE c \notin DOMAIN active
  <2>1. UNCHANGED <<active, allocated, handlers>>
    BY <1>1 DEF RemoveCall
  <2>2. ActiveIsServed'
    BY <1>1, <2>1 DEF GsInv, ActiveIsServed
  <2> QED
    BY <2>1, <2>2 DEF GsInv
<1>2. CASE c \in DOMAIN active
  <2>1. /\ active' = [x \in DOMAIN active \ {c} |-> active[x]]
        /\ allocated' = allocated \ {active[c].port}
        /\ handlers' = Signal(handlers, active[c].handler, how)
    BY <1>2 DEF RemoveCall
  <2>2. /\ handlers \in Seq(HandlerTasks) /\ active[c].handler \in DOMAIN handlers
    BY <1>2 DEF GsInv
  <2>3. PICK h : h = active[c].handler
    OBVIOUS
  <2>4. /\ handlers' \in Seq(HandlerTasks) /\ DOMAIN handlers' = DOMAIN handlers
        /\ handlers'[h].shutdown # "open"
        /\ \A k \in DOMAIN handlers : /\ handlers'[k].call = handlers[k].call
                                      /\ handlers'[k].state = handlers[k].state
        /\ \A k \in DOMAIN handlers : k # h => handlers'[k] = handlers[k]
    <3>1. h \in DOMAIN handlers /\ handlers' = Signal(handlers, h, how)
      BY <2>1, <2>2, <2>3
    <3>2. Signalled(handlers', handlers, h)
      BY <2>2, <3>1, SignalFacts
    <3> QED
      BY <3>2 DEF Signalled
  <2>5. DOMAIN active' = DOMAIN active \ {c} /\ \A d \in DOMAIN active' : active'[d] = active[d]
    BY <2>1
  <2>6. ASSUME NEW d \in DOMAIN active'
        PROVE  /\ active'[d].port \in allocated'
               /\ \A e \in DOMAIN active' \ {d} : active'[e].port # active'[d].port
               /\ \/ handlers'[active'[d].handler].state # "gone"
                  \/ \E i \in DOMAIN ends' : ends'[i] = d
    <3>1. d \in DOMAIN active /\ d # c /\ active'[d] = active[d] /\ d \in Callers
          /\ active[d].handler \in DOMAIN handlers
      BY <2>5 DEF GsInv
    <3>2. active'[d].port \in allocated'
      BY <1>2, <2>1, <3>1 DEF GsInv, ActiveIsServed
    <3>3. \A e \in DOMAIN active' \ {d} : active'[e].port # active'[d].port
      BY <2>5, <3>1 DEF GsInv, ActiveIsServed
    <3>4. \/ handlers[active[d].handler].state # "gone"
          \/ \E i \in DOMAIN ends : ends[i] = d
      BY <3>1 DEF GsInv, ActiveIsServed
    <3> QED
      BY <2>4, <3>1, <3>2, <3>3, <3>4
  <2>7. ASSUME NEW k \in DOMAIN handlers'
        PROVE  \/ handlers'[k].shutdown # "open"
               \/ \E d \in DOMAIN active' : active'[d].handler = k
    <3>1. CASE k = h
      BY <2>4, <3>1
    <3>2. CASE k # h
      <4>1. \/ handlers[k].shutdown # "open"
            \/ \E d \in DOMAIN active : active[d].handler = k
        BY <2>4, <2>7 DEF GsInv, ActiveIsServed
      <4> QED
        BY <2>3, <2>4, <2>5, <3>2, <4>1
    <3> QED
      BY <3>1, <3>2
  <2>8. ActiveIsServed'
    BY <2>6, <2>7 DEF ActiveIsServed
  <2>9. \A d \in DOMAIN active' : /\ d \in Callers /\ active'[d].handler \in DOMAIN handlers'
                                  /\ handlers'[active'[d].handler].call = d
    BY <2>4, <2>5 DEF GsInv
  <2> QED
    BY <2>1, <2>4, <2>8, <2>9 DEF GsInv
<1> QED
  BY <1>1, <1>2

LEMMA CallEndInv ==
    ASSUME GsInv, HandleCallEnd
    PROVE  GsInv'
<1>1. ends \in Seq(Callers) /\ ends # <<>> /\ ends' = Tail(ends) /\ RemoveCall(Head(ends), "dropped")
  BY DEF GsInv, HandleCallEnd
<1>2. PICK c : c = Head(ends)
  OBVIOUS
<1>3. ends' \in Seq(Callers)
  BY <1>1
<1>4. ASSUME NEW d \in Callers \ {c}, NEW i \in DOMAIN ends, ends[i] = d
      PROVE  \E j \in DOMAIN ends' : ends'[j] = d
  <2>1. /\ Len(ends) \in Nat /\ DOMAIN ends = 1 .. Len(ends) /\ c = ends[1]
        /\ DOMAIN ends' = 1 .. Len(ends) - 1
        /\ \A j \in 1 .. Len(ends) - 1 : ends'[j] = ends[j + 1]
    BY <1>1, <1>2
  <2>2. i # 1 /\ i - 1 \in 1 .. Len(ends) - 1 /\ (i - 1) + 1 = i
    BY <1>4, <2>1
  <2> QED
    BY <1>4, <2>1, <2>2
<1> QED
  BY <1>1, <1>2, <1>3, <1>4, RemoveCallInv

\* A repeated INVITE takes the entry over, with a port nobody else has.
LEMMA InviteInv ==
    ASSUME GsInv, NEW c \in Callers, HandleInvite(c)
    PROVE  GsInv'
<1>1. PICK p, h, hs : /\ p = Min(FreePorts) /\ h = Len(handlers) + 1
                      /\ hs = IF c \in DOMAIN active
                              THEN Signal(handlers, active[c].handler, "dropped") ELSE handlers
  OBVIOUS
<1>2. /\ FreePorts # {} /\ allocated' = allocated \cup {p}
      /\ active' = [x \in DOMAIN active \cup {c} |->
                       IF x = c THEN [handler |-> h, port |-> p] ELSE active[x]]
      /\ handlers' = Append(hs, NewHandler(c, p)) /\ ends' = ends
  BY <1>1 DEF HandleInvite
<1>3. p \in RtpPorts \ allocated
  BY <1>1, <1>2, MinFreePort
<1>4. handlers \in Seq(HandlerTasks) /\ DOMAIN handlers = 1 .. Len(handlers) /\ Len(handlers) \in Nat
  BY DEF GsInv
<1>5. /\ hs \in Seq(HandlerTasks) /\ DOMAIN hs = DOMAIN handlers /\ Len(hs) = Len(handlers)
      /\ \A k \in DOMAIN handlers : hs[k].call = handlers[k].call /\ hs[k].state = handlers[k].state
      /\ \A k \in DOMAIN handlers :
            hs[k].shutdown = "open" => /\ handlers[k].shutdown = "open"
                                       /\ c \in DOMAIN active => k # active[c].handler
  <2>1. CASE c \notin DOMAIN active
    BY <1>1, <1>4, <2>1
  <2>2. CASE c \in DOMAIN active
    <3>1. PICK g : g = active[c].handler
      OBVIOUS
    <3>2. g \in DOMAIN handlers /\ hs = Signal(handlers, g, "dropped")
      BY <1>1, <2>2, <3>1 DEF GsInv
    <3>3. /\ hs \in Seq(HandlerTasks) /\ DOMAIN hs = DOMAIN handlers /\ Len(hs) = Len(handlers)
          /\ hs[g].shutdown # "open"
          /\ \A k \in DOMAIN handlers : /\ hs[k].call = handlers[k].call
                                        /\ hs[k].state = handlers[k].state
          /\ \A k \in DOMAIN handlers : k # g => hs[k] = handlers[k]
      <4>1. Signalled(hs, handlers, g)
        BY <1>4, <3>2, SignalFacts
      <4> QED
        BY <4>1 DEF Signalled
    <3> QED
      BY <3>1, <3>3
  <2> QED
    BY <2>1, <2>2
<1>6. PICK t : t = NewHandler(c, p)
  OBVIOUS
<1>7. t \in HandlerTasks /\ t.call = c /\ t.port = p /\ t.state = "spawned" /\ t.shutdown = "open"
  BY <1>3, <1>6 DEF NewHandler, HandlerTasks
<1>8. /\ handlers' \in Seq(HandlerTasks) /\ DOMAIN handlers' = DOMAIN handlers \cup {h}
      /\ h \notin DOMAIN handlers /\ handlers'[h] = t
      /\ \A k \in DOMAIN handlers : handlers'[k] = hs[k]
  <2>1. handlers' = Append(hs, t)
    BY <1>2, <1>6
  <2>2. handlers' \in Seq(HandlerTasks) /\ Len(handlers') = Len(handlers) + 1
        /\ handlers'[Len(handlers) + 1] = t
        /\ \A k \in 1 .. Len(handlers) : handlers'[k] = hs[k]
    BY <1>5, <1>7, <2>1
  <2>3. DOMAIN handlers' = 1 .. Len(handlers) + 1
    BY <2>2
  <2> QED
    BY <1>1, <1>4, <2>2, <2>3
<1>9. PICK e : e = [handler |-> h, port |-> p]
  OBVIOUS
<1>10. /\ e.handler = h /\ e.port = p
       /\ DOMAIN active' = DOMAIN active \cup {c} /\ active'[c] = e
       /\ \A d \in DOMAIN active : d # c => active'[d] = active[d]
  BY <1>2, <1>9
<1>11. ASSUME NEW d \in DOMAIN active'
       PROVE  /\ active'[d].port \in allocated'
              /\ \A x \in DOMAIN active' \ {d} : active'[x].port # active'[d].port
              /\ \/ handlers'[active'[d].handler].state # "gone"
                 \/ \E i \in DOMAIN ends' : ends'[i] = d
              /\ d \in Callers /\ active'[d].handler \in DOMAIN handlers'
              /\ handlers'[active'[d].handler].call = d
  <2>0. \A x \in DOMAIN active : x # c => active'[x].port # p /\ active'[x].port \in allocated
    BY <1>3, <1>10 DEF GsInv, ActiveIsServed
  <2>1. CASE d = c
    BY <1>2, <1>7, <1>8, <1>10, <2>0, <2>1
  <2>2. CASE d # c
    <3>1. d \in DOMAIN active /\ active'[d] = active[d] /\ active[d].handler \in DOMAIN handlers
          /\ handlers[active[d].handler].call = d /\ d \in Callers
      BY <1>10, <1>11, <2>2 DEF GsInv
    <3>2. \A x \in DOMAIN active' \ {d} : active'[x].port # active'[d].port
      BY <1>10, <2>0, <2>2, <3>1 DEF GsInv, ActiveIsServed
    <3>3. \/ handlers[active[d].handler].state # "gone"
          \/ \E i \in DOMAIN ends : ends[i] = d
      BY <3>1 DEF GsInv, ActiveIsServed
    <3> QED
      BY ZenonT(40), <1>2, <1>5, <1>8, <2>0, <2>2, <3>1, <3>2, <3>3
  <2> QED
    BY <2>1, <2>2
<1>12. ASSUME NEW k \in DOMAIN handlers'
       PROVE  \/ handlers'[k].shutdown # "open"
              \/ \E d \in DOMAIN active' : active'[d].handler = k
  <2>1. CASE k = h
    BY <1>10, <2>1
  <2>2. CASE k # h /\ handlers'[k].shutdown = "open"
    <3>1. k \in DOMAIN handlers /\ handlers[k].shutdown = "open"
          /\ (c \in DOMAIN active => k # active[c].handler)
      BY <1>5, <1>8, <1>12, <2>2
    <3>2. PICK d \in DOMAIN active : active[d].handler = k
      BY <3>1 DEF GsInv, ActiveIsServed
    <3> QED
      BY <1>10, <3>1, <3>2
  <2> QED
    BY <2>1, <2>2
<1>13. ActiveIsServed'
  BY <1>11, <1>12 DEF ActiveIsServed
<1> QED
  BY ZenonT(40), <1>2, <1>3, <1>8, <1>11, <1>13 DEF GsInv

LEMMA GsNextInv ==
    ASSUME GsInv, [GsNext]_gsVars
    PROVE  GsInv'
<1>1. CASE UNCHANGED gsVars
  BY <1>1 DEF gsVars, GsInv, ActiveIsServed
<1>2. ASSUME NEW c \in Callers, HandleInvite(c) PROVE GsInv'
  BY <1>2, InviteInv
<1>3. ASSUME NEW c \in Callers, HandleHangup(c) PROVE GsInv'
  <2>1. RemoveCall(c, "sent") /\ ends' = ends /\ ends' \in Seq(Callers)
    BY <1>3 DEF HandleHangup, GsInv
  <2> QED
    BY <2>1, RemoveCallInv
<1>4. CASE HandleInviteSendFails
  <2>1. /\ FreePorts # {} /\ allocated' = allocated \cup {Min(FreePorts)}
        /\ UNCHANGED <<active, ends, handlers>>
    BY <1>4 DEF HandleInviteSendFails
  <2>2. allocated' \subseteq RtpPorts /\ allocated \subseteq allocated'
    BY <2>1, MinFreePort DEF GsInv
  <2>3. ActiveIsServed'
    BY <2>1, <2>2 DEF GsInv, ActiveIsServed
  <2> QED
    BY <2>1, <2>2, <2>3 DEF GsInv
<1>5. CASE HandleCallEnd
  BY <1>5, CallEndInv
<1>6. ASSUME NEW h \in DOMAIN handlers, HandlerStep(h) PROVE GsInv'
  BY <1>6, TaskInv, NotifyInv DEF HandlerStep
<1> QED
  BY <1>1, <1>2, <1>3, <1>4, <1>5, <1>6 DEF GsNext

LEMMA GsInitInv == GsInit => GsInv
<1> SUFFICES ASSUME GsInit PROVE GsInv
  OBVIOUS
<1>1. DOMAIN active = {} /\ DOMAIN handlers = {} /\ handlers \in Seq(HandlerTasks)
      /\ ends \in Seq(Callers) /\ allocated = {}
  BY DEF GsInit
<1> QED
  BY <1>1 DEF GsInv, ActiveIsServed

\* However INVITEs are repeated, calls hung up and handlers ended in whatever
\* order, the table of GabbyServer is right: every entry has an allocated port
\* of its own and a handler that works or whose end is still to be read, and a
\* handler without an entry has been told to stop.
THEOREM TableIsRight == GsSpec => []ActiveIsServed
<1>1. GsInv => ActiveIsServed
  BY DEF GsInv
<1> QED
  BY <1>1, GsInitInv, GsNextInv, PTL DEF GsSpec

-----------------------------------------------------------------------------
(* IceSession.                                                             *)

AgentFields ==
    {"role", "state", "local", "remote", "pairs", "selected", "sockets", "tasks", "pending", "creds"}
RunFields == {"pc", "todo", "got", "runs", "txn"}
IsAgent(ag) == ag = [f \in AgentFields |-> ag[f]]
IsRun(r)    == r = [f \in RunFields |-> r[f]]

\* The shape of the records is all that the other steps of the agent
\* contribute; what the check list holds does not matter here.
IceInv ==
    /\ agent = [s \in Sides |-> agent[s]] /\ run = [s \in Sides |-> run[s]]
    /\ \A s \in Sides : IsAgent(agent[s]) /\ IsRun(run[s])
    /\ PendingIsCurrent

\* The steps that leave the table of pending answers alone.
LEMMA SamePending ==
    ASSUME NEW ag, IsAgent(ag), NEW x, NEW y
    PROVE  /\ IsAgent(GatherHosts(ag, x)) /\ GatherHosts(ag, x).pending = ag.pending
           /\ IsAgent(GatherSrflx(ag, x)) /\ GatherSrflx(ag, x).pending = ag.pending
           /\ IsAgent(CheckSucceeded(ag, x, y)) /\ CheckSucceeded(ag, x, y).pending = ag.pending
           /\ IsAgent(CheckFailed(ag, x)) /\ CheckFailed(ag, x).pending = ag.pending
           /\ IsAgent(MarkInProgress(ag, x)) /\ MarkInProgress(ag, x).pending = ag.pending
           /\ IsAgent(FallbackSelection(ag)) /\ FallbackSelection(ag).pending = ag.pending
           /\ IsAgent(StopResponders(ag)) /\ StopResponders(ag).pending = ag.pending
           /\ IsAgent(FormCandidatePairs(ag)) /\ FormCandidatePairs(ag).pending = ag.pending
           /\ IsAgent(StartChecks(ag)) /\ StartChecks(ag).pending = ag.pending
<1> USE DEF IsAgent, AgentFields
<1>1. IsAgent(GatherHosts(ag, x)) /\ GatherHosts(ag, x).pending = ag.pending
  BY DEF GatherHosts
<1>2. IsAgent(GatherSrflx(ag, x)) /\ GatherSrflx(ag, x).pending = ag.pending
  BY DEF GatherSrflx
<1>3. IsAgent(CheckSucceeded(ag, x, y)) /\ CheckSucceeded(ag, x, y).pending = ag.pending
  BY DEF CheckSucceeded
<1>4. IsAgent(CheckFailed(ag, x)) /\ CheckFailed(ag, x).pending = ag.pending
  BY DEF CheckFailed
<1>5. IsAgent(MarkInProgress(ag, x)) /\ MarkInProgress(ag, x).pending = ag.pending
  BY DEF MarkInProgress
<1>6. IsAgent(FallbackSelection(ag)) /\ FallbackSelection(ag).pending = ag.pending
  BY DEF FallbackSelection
<1>7. IsAgent(StopResponders(ag)) /\ StopResponders(ag).pending = ag.pending
  BY DEF StopResponders
<1>8. IsAgent(FormCandidatePairs(ag)) /\ FormCandidatePairs(ag).pending = ag.pending
  BY DEF FormCandidatePairs
<1>9. IsAgent(StartChecks(ag)) /\ StartChecks(ag).pending = ag.pending
  BY DEF StartChecks
<1> HIDE DEF IsAgent, AgentFields
<1> QED
  BY <1>1, <1>2, <1>3, <1>4, <1>5, <1>6, <1>7, <1>8, <1>9

LEMMA OtherPending ==
    ASSUME NEW ag, IsAgent(ag), NEW x, NEW y
    PROVE  /\ IsAgent(Forget(ag, x)) /\ Forget(ag, x).pending = ag.pending \ {x}
           /\ IsAgent(Expect(ag, x, y)) /\ Expect(ag, x, y).pending = ag.pending \cup {y}
           /\ IsAgent(Close(ag)) /\ Close(ag).pending = {}
           /\ IsAgent(AddRemoteCandidates(ag, x)) /\ AddRemoteCandidates(ag, x).pending = ag.pending
           /\ \A p : /\ IsAgent([ag EXCEPT !.pending = p])
                     /\ [ag EXCEPT !.pending = p].pending = p
<1>1. /\ IsAgent(Forget(ag, x)) /\ Forget(ag, x).pending = ag.pending \ {x}
      /\ IsAgent(Expect(ag, x, y)) /\ Expect(ag, x, y).pending = ag.pending \cup {y}
      /\ IsAgent(Close(ag)) /\ Close(ag).pending = {}
  BY DEF Forget, Expect, Close, IsAgent, AgentFields
<1>2. \A p : /\ IsAgent([ag EXCEPT !.pending = p])
             /\ [ag EXCEPT !.pending = p].pending = p
  BY DEF IsAgent, AgentFields
<1>3. PICK n : n = [ag EXCEPT !.remote = ag.remote \o x, !.creds = TRUE]
  OBVIOUS
<1>4. IsAgent(n) /\ n.pending = ag.pending
  BY <1>3 DEF IsAgent, AgentFields
<1>5. AddRemoteCandidates(ag, x) = FormCandidatePairs(n)
  BY <1>3 DEF AddRemoteCandidates
<1> QED
  BY <1>1, <1>2, <1>4, <1>5, SamePending

\* A step of side s: its table afterwards holds only what is dropped or
\* current afterwards, and the other side is left alone.
SideStep(s) ==
    /\ \E ag : agent' = [agent EXCEPT ![s] = ag] /\ IsAgent(ag)
    /\ \E r : run' = [run EXCEPT ![s] = r] /\ IsRun(r)
    /\ dropped \subseteq dropped'
    /\ \A txn \in agent'[s].pending :
         txn \in dropped' \/ (run'[s].pc = "wait" /\ txn = <<s, run'[s].txn>>)

LEMMA SideStepKeeps ==
    ASSUME IceInv, NEW s \in Sides, SideStep(s)
    PROVE  IceInv'
<1>1. PICK ag : agent' = [agent EXCEPT ![s] = ag] /\ IsAgent(ag)
  BY DEF SideStep
<1>2. PICK r : run' = [run EXCEPT ![s] = r] /\ IsRun(r)
  BY DEF SideStep
<1>3. /\ agent' = [t \in Sides |-> IF t = s THEN ag ELSE agent[t]]
      /\ run' = [t \in Sides |-> IF t = s THEN r ELSE run[t]]
  BY <1>1, <1>2 DEF IceInv
<1>4. \A t \in Sides : IsAgent(agent[t])' /\ IsRun(run[t])'
  BY <1>1, <1>2, <1>3 DEF IceInv
<1>5. PendingIsCurrent'
  BY <1>3 DEF SideStep, IceInv, PendingIsCurrent
<1>6. agent' = [t \in Sides |-> agent'[t]] /\ run' = [t \in Sides |-> run'[t]]
  BY <1>3
<1> QED
  BY <1>4, <1>5, <1>6 DEF IceInv

LEMMA IceStep ==
    ASSUME IceInv, NEW s \in Sides, SideNext(s)
    PROVE  SideStep(s)
<1>0. /\ IsAgent(agent[s]) /\ IsRun(run[s]) /\ agent = [t \in Sides |-> agent[t]]
      /\ run = [t \in Sides |-> run[t]]
  BY DEF IceInv
<1>1. \A txn \in agent[s].pending :
         txn \in dropped \/ (run[s].pc = "wait" /\ txn = <<s, run[s].txn>>)
  BY DEF IceInv, PendingIsCurrent
\* Three forms a step takes, over the records it writes.
<1>2. ASSUME NEW ag, NEW r, IsAgent(ag), IsRun(r), agent' = [agent EXCEPT ![s] = ag],
             run' = [run EXCEPT ![s] = r], dropped \subseteq dropped',
             \A txn \in ag.pending : txn \in dropped' \/ (r.pc = "wait" /\ txn = <<s, r.txn>>)
      PROVE  SideStep(s)
  <2>1. agent'[s] = ag /\ run'[s] = r
    BY <1>0, <1>2
  <2> QED
    BY <1>2, <2>1 DEF SideStep
<1>3. \A x : /\ [run EXCEPT ![s].pc = x] = [run EXCEPT ![s] = [run[s] EXCEPT !.pc = x]]
             /\ IsRun([run[s] EXCEPT !.pc = x]) /\ [run[s] EXCEPT !.pc = x].pc = x
             /\ [run[s] EXCEPT !.pc = x].txn = run[s].txn
  BY <1>0 DEF IsRun, RunFields
<1>4. ASSUME run[s].pc # "wait", dropped' = dropped,
             NEW ag, IsAgent(ag), ag.pending = agent[s].pending, agent' = [agent EXCEPT ![s] = ag],
             NEW r, IsRun(r), run' = [run EXCEPT ![s] = r]
      PROVE  SideStep(s)
  BY <1>1, <1>2, <1>4
<1>5. agent = [agent EXCEPT ![s] = agent[s]] /\ run = [run EXCEPT ![s] = run[s]]
  BY <1>0
<1>6. CASE BindHosts(s)
  <2>1. /\ run[s].pc # "wait" /\ dropped' = dropped
        /\ agent' = [agent EXCEPT ![s] = GatherHosts(agent[s], [i \in DOMAIN Hosts[s] |-> Host(Hosts[s][i])])]
        /\ run' = [run EXCEPT ![s].pc = "gathering"]
    BY <1>6 DEF BindHosts
  <2> QED
    BY <1>0, <1>3, <1>4, <2>1, SamePending
<1>7. CASE GatherDone(s)
  <2>1. PICK mapped : /\ run[s].pc # "wait" /\ dropped' = dropped
                      /\ agent' = [agent EXCEPT ![s] = GatherSrflx(agent[s], mapped)]
                      /\ run' = [run EXCEPT ![s].pc = "ready"]
    BY <1>7 DEF GatherDone
  <2> QED
    BY <1>0, <1>3, <1>4, <2>1, SamePending
<1>8. CASE GatherTimeout(s)
  <2>1. PICK ag : ag = [agent[s] EXCEPT !.pending = agent[s].pending \cup {<<s, 0>>}]
    OBVIOUS
  <2>2. /\ run[s].pc # "wait" /\ dropped' = dropped \cup {<<s, 0>>}
        /\ agent' = [agent EXCEPT ![s] = ag]
        /\ run' = [run EXCEPT ![s].pc = "ready"]
    BY <1>0, <1>8, <2>1 DEF GatherTimeout
  <2>3. IsAgent(ag) /\ ag.pending = agent[s].pending \cup {<<s, 0>>}
    BY SMTT(30), <1>0, <2>1, OtherPending
  <2>4. \A txn \in ag.pending : txn \in dropped'
    BY <1>1, <2>2, <2>3
  <2> QED
    BY <1>2, <1>3, <2>2, <2>3, <2>4
<1>9. CASE RunChecks(s)
  <2>1. PICK ag : ag = StartChecks(AddRemoteCandidates(agent[s], agent[Peer(s)].local))
    OBVIOUS
  <2>2. IsAgent(ag) /\ ag.pending = agent[s].pending
    <3>1. PICK more : more = AddRemoteCandidates(agent[s], agent[Peer(s)].local)
      OBVIOUS
    <3>2. IsAgent(more) /\ more.pending = agent[s].pending
      BY <1>0, <3>1, OtherPending
    <3>3. IsAgent(StartChecks(more)) /\ StartChecks(more).pending = more.pending
      BY <3>2, SamePending
    <3> QED
      BY <2>1, <3>1, <3>2, <3>3
  <2>3. PICK r : r = [run[s] EXCEPT !.pc = "next", !.todo = WaitingPairs(ag),
                                    !.runs = run[s].runs + 1]
    OBVIOUS
  <2>4. /\ run[s].pc # "wait" /\ dropped' = dropped /\ agent' = [agent EXCEPT ![s] = ag]
        /\ run' = [run EXCEPT ![s].pc = "next", ![s].todo = WaitingPairs(ag),
                              ![s].runs = run[s].runs + 1]
    BY <1>9, <2>1 DEF RunChecks
  <2>5. run' = [run EXCEPT ![s] = r] /\ IsRun(r)
    BY <1>0, <2>3, <2>4 DEF IsRun, RunFields
  <2> QED
    BY <1>4, <2>2, <2>4, <2>5
<1>10. CASE BeginCheck(s)
  <2>1. PICK idx, pair : idx = FirstOf(run[s].todo)[1] /\ pair = FirstOf(run[s].todo)[2]
    OBVIOUS
  <2>2. PICK marked, txn : marked = MarkInProgress(agent[s], idx) /\ txn = <<s, run[s].txn + 1>>
    OBVIOUS
  <2>3. IsAgent(marked) /\ marked.pending = agent[s].pending
    BY <1>0, <2>2, SamePending
  <2>4. run[s].pc = "next" /\ dropped' = dropped
    BY <1>10 DEF BeginCheck
  <2>5. CASE /\ agent' = [agent EXCEPT ![s] = Expect(marked, pair.local.base, txn)]
             /\ run' = [run EXCEPT ![s].pc = "wait", ![s].got = FALSE, ![s].txn = run[s].txn + 1]
    <3>1. PICK r : r = [run[s] EXCEPT !.pc = "wait", !.got = FALSE, !.txn = run[s].txn + 1]
      OBVIOUS
    <3>2. run' = [run EXCEPT ![s] = r] /\ IsRun(r) /\ r.pc = "wait" /\ r.txn = run[s].txn + 1
      BY <1>0, <2>5, <3>1 DEF IsRun, RunFields
    <3>3. PICK ag : ag = Expect(marked, pair.local.base, txn)
      OBVIOUS
    <3>4. IsAgent(ag) /\ ag.pending = agent[s].pending \cup {txn}
      BY <2>3, <3>3, OtherPending
    <3>5. \A t \in ag.pending : t \in dropped' \/ (r.pc = "wait" /\ t = <<s, r.txn>>)
      BY <1>1, <2>2, <2>4, <3>2, <3>4
    <3> QED
      BY <1>2, <2>4, <2>5, <3>2, <3>3, <3>4, <3>5
  <2>6. CASE /\ agent' = [agent EXCEPT ![s] = CheckFailed(marked, idx)]
             /\ run' = [run EXCEPT ![s].todo = run[s].todo \ {FirstOf(run[s].todo)}]
    <3>1. PICK r : r = [run[s] EXCEPT !.todo = run[s].todo \ {FirstOf(run[s].todo)}]
      OBVIOUS
    <3>2. run' = [run EXCEPT ![s] = r] /\ IsRun(r)
      BY <1>0, <2>6, <3>1 DEF IsRun, RunFields
    <3>3. /\ IsAgent(CheckFailed(marked, idx))
          /\ CheckFailed(marked, idx).pending = agent[s].pending
      BY <2>3, SamePending
    <3> QED
      BY <1>4, <2>4, <2>6, <3>2, <3>3
  <2> QED
    BY <1>10, <2>1, <2>2, <2>5, <2>6 DEF BeginCheck
<1>11. CASE CheckAnswered(s) \/ CheckTimeout(s)
  <2>0. PICK txn : txn = <<s, run[s].txn>>
    OBVIOUS
  <2>1. PICK forgot : forgot = Forget(agent[s], txn)
    OBVIOUS
  <2>2. IsAgent(forgot) /\ forgot.pending = agent[s].pending \ {txn}
    BY ZenonT(40), <1>0, <2>1, OtherPending
  <2>3. PICK ag : agent' = [agent EXCEPT ![s] = ag] /\ IsAgent(ag) /\ ag.pending = forgot.pending
    <3>1. CASE CheckAnswered(s)
      <4>1. agent' = [agent EXCEPT ![s] =
                        CheckSucceeded(forgot, FirstOf(run[s].todo)[1], FirstOf(run[s].todo)[2])]
        BY <2>0, <2>1, <3>1 DEF CheckAnswered
      <4>2. /\ IsAgent(CheckSucceeded(forgot, FirstOf(run[s].todo)[1], FirstOf(run[s].todo)[2]))
            /\ CheckSucceeded(forgot, FirstOf(run[s].todo)[1], FirstOf(run[s].todo)[2]).pending
                 = forgot.pending
        BY <2>2, SamePending
      <4> QED
        BY <4>1, <4>2
    <3>2. CASE CheckTimeout(s)
      <4>1. agent' = [agent EXCEPT ![s] = CheckFailed(forgot, FirstOf(run[s].todo)[1])]
        BY <2>0, <2>1, <3>2 DEF CheckTimeout
      <4>2. /\ IsAgent(CheckFailed(forgot, FirstOf(run[s].todo)[1]))
            /\ CheckFailed(forgot, FirstOf(run[s].todo)[1]).pending = forgot.pending
        BY <2>2, SamePending
      <4> QED
        BY <4>1, <4>2
    <3> QED
      BY <1>11, <3>1, <3>2
  <2>4. PICK r : run' = [run EXCEPT ![s] = r] /\ IsRun(r)
    <3>1. CASE CheckAnswered(s)
      <4>1. run' = [run EXCEPT ![s].pc = "selected"]
        BY <3>1 DEF CheckAnswered
      <4> QED
        BY <1>3, <4>1
    <3>2. CASE CheckTimeout(s)
      <4>1. run' = [run EXCEPT ![s].pc = "next", ![s].todo = run[s].todo \ {FirstOf(run[s].todo)}]
        BY <3>2 DEF CheckTimeout
      <4>2. PICK r : r = [run[s] EXCEPT !.pc = "next", !.todo = run[s].todo \ {FirstOf(run[s].todo)}]
        OBVIOUS
      <4>3. run' = [run EXCEPT ![s] = r] /\ IsRun(r)
        BY <1>0, <4>1, <4>2 DEF IsRun, RunFields
      <4> QED
        BY <4>3
    <3> QED
      BY <1>11, <3>1, <3>2
  <2>5. dropped' = dropped
    BY <1>11 DEF CheckAnswered, CheckTimeout
  <2>6. \A t \in ag.pending : t \in dropped'
    BY <1>1, <2>0, <2>2, <2>3, <2>5
  <2> QED
    BY <1>2, <2>3, <2>4, <2>5, <2>6
<1>12. CASE Fallback(s)
  <2>1. PICK x : /\ run[s].pc # "wait" /\ dropped' = dropped
                 /\ agent' = [agent EXCEPT ![s] = FallbackSelection(agent[s])]
                 /\ run' = [run EXCEPT ![s].pc = x]
    BY <1>12 DEF Fallback
  <2> QED
    BY <1>0, <1>3, <1>4, <2>1, SamePending
<1>13. CASE EndRun(s)
  <2>1. PICK x, ag : /\ run[s].pc # "wait" /\ dropped' = dropped
                     /\ agent' = [agent EXCEPT ![s] = ag]
                     /\ ag \in {agent[s], StopResponders(agent[s])}
                     /\ run' = [run EXCEPT ![s].pc = x]
    BY <1>5, <1>13 DEF EndRun
  <2> QED
    BY <1>0, <1>3, <1>4, <2>1, SamePending
<1>14. CASE DropRun(s)
  <2>1. /\ dropped' = dropped \cup {<<s, run[s].txn>>} /\ agent' = agent
        /\ run' = [run EXCEPT ![s].pc = "failed"]
    BY <1>14 DEF DropRun
  <2>2. \A txn \in agent[s].pending : txn \in dropped'
    BY <1>1, <2>1
  <2> QED
    BY <1>0, <1>2, <1>3, <1>5, <2>1, <2>2
<1>15. CASE CloseSession(s)
  <2>1. /\ dropped' = dropped /\ agent' = [agent EXCEPT ![s] = Close(agent[s])]
        /\ run' = [run EXCEPT ![s].pc = "closed"]
    BY <1>15 DEF CloseSession
  <2>2. IsAgent(Close(agent[s])) /\ Close(agent[s]).pending = {}
    BY <1>0, OtherPending
  <2> QED
    BY <1>2, <1>3, <2>1, <2>2
<1>16. CASE DispatchRequest(s)
  <2>1. agent' = agent /\ run' = run /\ dropped' = dropped
    BY <1>16 DEF DispatchRequest
  <2> QED
    BY <1>0, <1>1, <1>2, <1>5, <2>1
<1>17. CASE DispatchResponse(s)
  <2>1. PICK txn, x : /\ agent' = [agent EXCEPT ![s] = Forget(agent[s], txn)]
                      /\ run' = [run EXCEPT ![s].got = x] /\ dropped' = dropped
    BY <1>17 DEF DispatchResponse
  <2>2. PICK r : r = [run[s] EXCEPT !.got = x]
    OBVIOUS
  <2>3. run' = [run EXCEPT ![s] = r] /\ IsRun(r) /\ r.pc = run[s].pc /\ r.txn = run[s].txn
    BY <1>0, <2>1, <2>2 DEF IsRun, RunFields
  <2>4. IsAgent(Forget(agent[s], txn)) /\ Forget(agent[s], txn).pending = agent[s].pending \ {txn}
    BY <1>0, OtherPending
  <2> QED
    BY <1>1, <1>2, <2>1, <2>3, <2>4
<1> QED
  BY <1>6, <1>7, <1>8, <1>9, <1>10, <1>11, <1>12, <1>13, <1>14, <1>15, <1>16, <1>17 DEF SideNext

LEMMA IceInitInv == IceInit => IceInv
<1> SUFFICES ASSUME IceInit PROVE IceInv
  OBVIOUS
<1>1. \A role : IsAgent(New(role)) /\ New(role).pending = {}
  BY DEF New, IsAgent, AgentFields
<1>2. IsRun(Idle)
  BY DEF Idle, IsRun, RunFields
<1>3. \A s \in Sides : IsAgent(agent[s]) /\ agent[s].pending = {} /\ run[s] = Idle
  BY <1>1 DEF IceInit
<1> QED
  BY <1>2, <1>3 DEF IceInit, IceInv, PendingIsCurrent

LEMMA IceNextInv == IceInv /\ [IceNext]_iceVars => IceInv'
<1>1. IceInv /\ UNCHANGED iceVars => IceInv'
  BY DEF iceVars, IceInv, PendingIsCurrent
<1> QED
  BY <1>1, IceStep, SideStepKeeps DEF IceNext

\* The table of pending STUN answers of an ICE agent holds the transaction
\* its check is waiting for and those whose future was dropped, whatever
\* order answers, timeouts, dropped calls and second runs come in, and for
\* every set of hosts, mappings and networks.
THEOREM NothingLeftPending == IceSpec => []PendingIsCurrent
<1>1. IceInv => PendingIsCurrent
  BY DEF IceInv
<1> QED
  BY <1>1, IceInitInv, IceNextInv, PTL DEF IceSpec

-----------------------------------------------------------------------------
(* IceSession: what a session hands out.  The pair it uses was added by    *)
(* the loops of form_candidate_pairs, which are recursive functions: that  *)
(* the functions exist, and that what holds of every pair added holds of   *)
(* the list, is shown by looking at the least round that would not do.     *)

\* Induction over an interval.
LEMMA StaysIn ==
    ASSUME NEW S, NEW N \in Nat, NEW g, g[0] \in S,
           \A n \in 1 .. N : g[n - 1] \in S => g[n] \in S
    PROVE  \A n \in 0 .. N : g[n] \in S
<1> DEFINE Bad == {n \in 0 .. N : g[n] \notin S}
<1> SUFFICES ASSUME Bad # {} PROVE FALSE
  OBVIOUS
<1>1. Bad \subseteq Nat
  OBVIOUS
<1>2. \E x \in Bad : \A y \in Bad : ~(<<y, x>> \in OpToRel(<, Nat))
  <2> HIDE DEF Bad
  <2> QED
    BY <1>1, NatLessThanWellFounded, WFMin
<1>3. PICK x \in Bad : \A y \in Bad : ~(y < x)
  BY <1>1, <1>2 DEF OpToRel
<1>4. x # 0 /\ x - 1 \in 0 .. N /\ x \in 1 .. N
  OBVIOUS
<1>5. x - 1 \notin Bad
  BY <1>3, <1>4
<1> QED
  BY <1>4, <1>5

\* The first n rounds of a loop that changes a value of S.
Rounds(f, n, S, base, step) ==
    /\ f \in [0 .. n -> S] /\ f[0] = base
    /\ \A k \in 1 .. n : f[k] = step[k][f[k - 1]]
Steps(step, N, S) == step \in [1 .. N -> [S -> S]]

\* A loop that is counted through has a result.
LEMMA LoopExists ==
    ASSUME NEW S, NEW base \in S, NEW N \in Nat, NEW step, Steps(step, N, S)
    PROVE  \E f : Rounds(f, N, S, base, step)
<1> USE DEF Rounds, Steps
<1> DEFINE Upto(n, f) == Rounds(f, n, S, base, step)
           Good == {n \in 0 .. N : \E f : Upto(n, f)}
           g == [n \in 0 .. N |-> IF n \in Good THEN 1 ELSE 0]
<1>1. 0 \in Good
  <2>1. PICK f : f = [k \in 0 .. 0 |-> base]
    OBVIOUS
  <2>2. Upto(0, f)
    BY <2>1
  <2> QED
    BY <2>2
<1>2. ASSUME NEW n \in 1 .. N, n - 1 \in Good PROVE n \in Good
  <2>1. PICK f : Upto(n - 1, f)
    BY <1>2
  <2>2. PICK h : h = [k \in 0 .. n |-> IF k <= n - 1 THEN f[k] ELSE step[n][f[n - 1]]]
    OBVIOUS
  <2>3. f[n - 1] \in S /\ step[n] \in [S -> S]
    BY <2>1
  <2>4. step[n][f[n - 1]] \in S
    BY <2>3
  <2>5. h \in [0 .. n -> S] /\ h[0] = base
    BY <2>1, <2>2, <2>4
  <2>6. ASSUME NEW k \in 1 .. n PROVE h[k] = step[k][h[k - 1]]
    BY <2>1, <2>2
  <2> QED
    BY <2>5, <2>6
<1>3. \A n \in 0 .. N : n \in Good
  <2> HIDE DEF Good
  <2>1. PICK T : T = {1}
    OBVIOUS
  <2>2. g[0] \in T /\ \A n \in 1 .. N : g[n - 1] \in T => g[n] \in T
    BY <1>1, <1>2, <2>1
  <2>3. \A n \in 0 .. N : g[n] \in T
    <3> HIDE DEF g
    <3> QED BY <2>2, StaysIn
  <2> QED
    BY <2>1, <2>3
<1> QED
  BY <1>3

\* The candidates whose turn is the n-th in the two loops.
LocalAt(ag, n) == ag.local[1 + ((n - 1) \div Len(ag.remote))]
RemoteAt(ag, n) == ag.remote[1 + ((n - 1) % Len(ag.remote))]

LEMMA Adds ==
    ASSUME NEW ag, NEW S, ag.pairs \in Seq(S), Len(ag.local) \in Nat, Len(ag.remote) \in Nat,
           \A ps \in Seq(S), n \in 1 .. Len(ag.local) * Len(ag.remote) :
              AddPair(ag.role, ps, LocalAt(ag, n), RemoteAt(ag, n)) \in Seq(S)
    PROVE  AllPairs(ag) \in Seq(S)
<1> DEFINE m == Len(ag.remote)
           N == Len(ag.local) * m
           fn(g) == [n \in 0 .. N |-> IF n = 0 THEN ag.pairs
                     ELSE AddPair(ag.role, g[n - 1], LocalAt(ag, n), RemoteAt(ag, n))]
           add == CHOOSE g : g = fn(g)
<1>1. AllPairs(ag) = add[N]
  BY DEF AllPairs, LocalAt, RemoteAt
<1>2. N \in Nat
  <2>1. \A a, b \in Nat : a * b \in Nat
    OBVIOUS
  <2> QED
    BY <2>1
<1>b. \A ps \in Seq(S), n \in 1 .. N :
         AddPair(ag.role, ps, LocalAt(ag, n), RemoteAt(ag, n)) \in Seq(S)
  OBVIOUS
<1> HIDE DEF N
<1>3. PICK Q : Q = Seq(S)
  OBVIOUS
<1>4. \E g : g = fn(g)
  <2>1. PICK step : step = [n \in 1 .. N |-> [ps \in Q |->
                       AddPair(ag.role, ps, LocalAt(ag, n), RemoteAt(ag, n))]]
    OBVIOUS
  <2>2. Steps(step, N, Q)
    BY <1>3, <1>b, <2>1 DEF Steps
  <2>a. PICK base \in Q : base = ag.pairs
    BY <1>3
  <2>b. \E f : Rounds(f, N, Q, base, step)
    BY <1>2, <2>2, LoopExists
  <2>3. PICK f \in [0 .. N -> Q] :
           f[0] = ag.pairs /\ \A n \in 1 .. N : f[n] = step[n][f[n - 1]]
    BY <2>a, <2>b DEF Rounds
  <2>4. ASSUME NEW n \in 0 .. N PROVE f[n] = fn(f)[n]
    <3>1. CASE n = 0
      BY <2>3, <3>1
    <3>2. CASE n # 0
      <4>1. n \in 1 .. N /\ f[n - 1] \in Q
        BY <1>2, <2>3, <3>2
      <4> QED
        BY <2>1, <2>3, <3>2, <4>1
    <3> QED
      BY <3>1, <3>2
  <2>5. f = fn(f)
    BY <2>3, <2>4
  <2> QED
    BY <2>5
<1>5. add = fn(add)
  BY <1>4
<1> HIDE DEF add
<1>6. add[0] \in Q /\ \A n \in 1 .. N : add[n - 1] \in Q => add[n] \in Q
  <2>1. add[0] = ag.pairs
    BY <1>2, <1>5
  <2>2. ASSUME NEW n \in 1 .. N, add[n - 1] \in Q PROVE add[n] \in Q
    <3>1. n \in 0 .. N /\ n # 0
      BY <1>2
    <3>2. add[n] = AddPair(ag.role, add[n - 1], LocalAt(ag, n), RemoteAt(ag, n))
      BY <1>5, <3>1
    <3> QED
      BY <1>3, <1>b, <2>2, <3>2
  <2> QED
    BY <1>3, <2>1, <2>2
<1>7. add[N] \in Q
  <2>1. \A n \in 0 .. N : add[n] \in Q
    BY <1>2, <1>6, StaysIn
  <2> QED
    BY <1>2, <2>1
<1> QED
  BY <1>1, <1>3, <1>7

LEMMA InsertKeeps ==
    ASSUME NEW S, NEW q \in Seq(S), NEW p \in S
    PROVE  InsertByPriority(q, p) \in Seq(S)
<1> DEFINE I == {i \in DOMAIN q : q[i].priority >= p.priority}
           n == Cardinality(I)
<1>1. n \in 0 .. Len(q)
  <2>1. IsFiniteSet(1 .. Len(q)) /\ Cardinality(1 .. Len(q)) = Len(q)
    <3>1. IsFiniteSet(1 .. Len(q))
      BY FS_Interval
    <3>2. Cardinality(1 .. Len(q)) = Len(q)
      <4>1. 1 \in Int /\ Len(q) \in Nat
        OBVIOUS
      <4>2. \A k \in Nat : Cardinality(1 .. k) = IF 1 > k THEN 0 ELSE k - 1 + 1
        BY FS_Interval
      <4> QED
        BY <4>1, <4>2
    <3> QED
      BY <3>1, <3>2
  <2>2. I \in SUBSET (1 .. Len(q))
    OBVIOUS
  <2> HIDE DEF I
  <2>3. n \in Nat /\ n <= Len(q)
    <3>1. IsFiniteSet(I) /\ Cardinality(I) <= Cardinality(1 .. Len(q))
      BY <2>1, <2>2, FS_Subset
    <3>2. Cardinality(I) \in Nat
      BY <3>1, FS_CardinalityType
    <3> QED
      BY <2>1, <3>1, <3>2
  <2> QED
    BY <2>3
<1>2. InsertByPriority(q, p) = SubSeq(q, 1, (1 + n) - 1) \o <<p>> \o SubSeq(q, 1 + n, Len(q))
  BY DEF InsertByPriority, InsertAt
<1> HIDE DEF n
<1>3. SubSeq(q, 1, (1 + n) - 1) \in Seq(S) /\ SubSeq(q, 1 + n, Len(q)) \in Seq(S)
  BY <1>1
<1>4. <<p>> \in Seq(S)
  OBVIOUS
<1> QED
  BY <1>2, <1>3, <1>4

LEMMA SortKeeps ==
    ASSUME NEW S, NEW q \in Seq(S)
    PROVE  SortByPriority(q) \in Seq(S)
<1> DEFINE N == Len(q)
           fn(g) == [n \in 0 .. N |-> IF n = 0 THEN <<>> ELSE InsertByPriority(g[n - 1], q[n])]
           ins == CHOOSE g : g = fn(g)
<1>1. SortByPriority(q) = ins[N]
  BY DEF SortByPriority
<1>2. N \in Nat /\ \A n \in 1 .. N : q[n] \in S
  OBVIOUS
<1> HIDE DEF N
<1>3. PICK Q : Q = Seq(S) /\ <<>> \in Q
  <2>1. <<>> \in Seq(S)
    OBVIOUS
  <2> QED
    BY <2>1
<1>a. \A n \in 1 .. N, r \in Q : InsertByPriority(r, q[n]) \in Q
  BY <1>2, <1>3, InsertKeeps
<1>4. \E g : g = fn(g)
  <2>1. PICK step : step = [n \in 1 .. N |-> [r \in Q |-> InsertByPriority(r, q[n])]]
    OBVIOUS
  <2>2. Steps(step, N, Q)
    BY <1>a, <2>1 DEF Steps
  <2>a. PICK base \in Q : base = <<>>
    BY <1>3
  <2>b. \E f : Rounds(f, N, Q, base, step)
    BY <1>2, <2>2, LoopExists
  <2>3. PICK f \in [0 .. N -> Q] :
           f[0] = <<>> /\ \A n \in 1 .. N : f[n] = step[n][f[n - 1]]
    BY <2>a, <2>b DEF Rounds
  <2>4. ASSUME NEW n \in 0 .. N PROVE f[n] = fn(f)[n]
    <3>1. CASE n = 0
      BY <2>3, <3>1
    <3>2. CASE n # 0
      <4>1. n \in 1 .. N /\ f[n - 1] \in Q
        BY <1>2, <2>3, <3>2
      <4> QED
        BY <2>1, <2>3, <3>2, <4>1
    <3> QED
      BY <3>1, <3>2
  <2>5. f = fn(f)
    BY <2>3, <2>4
  <2> QED
    BY <2>5
<1>5. ins = fn(ins)
  BY <1>4
<1> HIDE DEF ins
<1>6. ins[0] \in Q /\ \A n \in 1 .. N : ins[n - 1] \in Q => ins[n] \in Q
  <2>1. ins[0] = <<>>
    BY <1>2, <1>5
  <2>2. ASSUME NEW n \in 1 .. N, ins[n - 1] \in Q PROVE ins[n] \in Q
    <3>1. n \in 0 .. N /\ n # 0
      BY <1>2
    <3>2. ins[n] = InsertByPriority(ins[n - 1], q[n])
      BY <1>5, <3>1
    <3> QED
      BY <1>a, <2>2, <3>2
  <2> QED
    BY <1>3, <2>1, <2>2
<1>7. ins[N] \in Q
  <2>1. \A n \in 0 .. N : ins[n] \in Q
    BY <1>2, <1>6, StaysIn
  <2> QED
    BY <1>2, <2>1
<1> QED
  BY <1>1, <1>3, <1>7

\* Sequences, whatever their elements are.
IsSeq(x) == \E n \in Nat : x = [i \in 1 .. n |-> x[i]]

LEMMA SeqFacts ==
    ASSUME NEW x, IsSeq(x)
    PROVE  /\ Len(x) \in Nat /\ DOMAIN x = 1 .. Len(x)
           /\ \A S : (\A i \in DOMAIN x : x[i] \in S) => x \in Seq(S)
<1>1. PICK n \in Nat : x = [i \in 1 .. n |-> x[i]]
  BY DEF IsSeq
<1>2. PICK R : R = {x[i] : i \in 1 .. n}
  OBVIOUS
<1>3. x \in Seq(R) /\ DOMAIN x = 1 .. n
  BY <1>1, <1>2
<1>4. Len(x) = n
  BY <1>3
<1>5. ASSUME NEW S, \A i \in DOMAIN x : x[i] \in S PROVE x \in Seq(S)
  BY <1>1, <1>3, <1>5
<1> QED
  BY <1>3, <1>4, <1>5

LEMMA SeqIs ==
    ASSUME NEW S, NEW x \in Seq(S)
    PROVE  IsSeq(x) /\ \A i \in DOMAIN x : x[i] \in S
<1>1. x = [i \in 1 .. Len(x) |-> x[i]] /\ Len(x) \in Nat
  OBVIOUS
<1> QED
  BY <1>1 DEF IsSeq

LEMMA ConcatIs ==
    ASSUME NEW x, NEW y, IsSeq(x), IsSeq(y)
    PROVE  IsSeq(x \o y)
<1>1. PICK S : S = {x[i] : i \in DOMAIN x} \cup {y[i] : i \in DOMAIN y}
  OBVIOUS
<1>2. x \in Seq(S) /\ y \in Seq(S)
  BY <1>1, SeqFacts
<1>3. x \o y \in Seq(S)
  BY <1>2
<1> QED
  BY <1>3, SeqIs

PairFields == {"local", "remote", "state", "nominated", "priority"}
IsPair(p) == p = [f \in PairFields |-> p[f]]

\* A pair that has passed its check was answered.
Backed(p, done) == p.state = "succeeded" => <<p.local.base, p.remote.addr>> \in done
ListOK(ps, done) == IsSeq(ps) /\ \A i \in DOMAIN ps : IsPair(ps[i]) /\ Backed(ps[i], done)

LEMMA FormKeeps ==
    ASSUME NEW ag, IsSeq(ag.local), IsSeq(ag.remote), NEW done, ListOK(ag.pairs, done),
           NEW ps, ps = FormCandidatePairs(ag).pairs, "pairs" \in DOMAIN ag
    PROVE  ListOK(ps, done)
<1> DEFINE N == Len(ag.local) * Len(ag.remote)
           Fresh(n) == [local |-> LocalAt(ag, n), remote |-> RemoteAt(ag, n), state |-> "frozen",
                        nominated |-> FALSE,
                        priority |-> PairPriority(ag.role = "controlling", LocalAt(ag, n),
                                                  RemoteAt(ag, n))]
           S == {ag.pairs[i] : i \in DOMAIN ag.pairs} \cup {Fresh(n) : n \in 1 .. N}
<1>1. ag.pairs \in Seq(S)
  BY SeqFacts DEF ListOK
<1>2. ASSUME NEW qs \in Seq(S), NEW n \in 1 .. N
      PROVE  AddPair(ag.role, qs, LocalAt(ag, n), RemoteAt(ag, n)) \in Seq(S)
  <2>1. Fresh(n) \in S
    OBVIOUS
  <2>2. PICK f : f = Fresh(n)
    OBVIOUS
  <2>3. AddPair(ag.role, qs, LocalAt(ag, n), RemoteAt(ag, n)) \in {qs, Append(qs, f)}
    BY <2>2 DEF AddPair
  <2> HIDE DEF S, Fresh
  <2>4. Append(qs, f) \in Seq(S)
    BY <2>1, <2>2
  <2> QED
    BY <2>3, <2>4
<1>3. AllPairs(ag) \in Seq(S)
  <2> HIDE DEF S
  <2>1. Len(ag.local) \in Nat /\ Len(ag.remote) \in Nat
    BY SeqFacts
  <2> QED
    BY <1>1, <1>2, <2>1, Adds
<1>4. PICK sorted : sorted = SortByPriority(AllPairs(ag))
  OBVIOUS
<1>5. sorted \in Seq(S)
  <2> HIDE DEF S
  <2> QED
    BY <1>3, <1>4, SortKeeps
<1>6. ASSUME NEW p \in S PROVE IsPair(p) /\ Backed(p, done)
  <2>1. CASE \E i \in DOMAIN ag.pairs : p = ag.pairs[i]
    BY <2>1 DEF ListOK
  <2>2. CASE \E n \in 1 .. N : p = Fresh(n)
    <3>1. PICK n \in 1 .. N : p = Fresh(n)
      BY <2>2
    <3>2. p.state = "frozen"
      BY <3>1
    <3>3. IsPair(p)
      BY <3>1 DEF IsPair, PairFields
    <3> QED
      BY <3>2, <3>3 DEF Backed
  <2> QED
    BY <1>6, <2>1, <2>2
<1> HIDE DEF S
<1>7. /\ IsSeq(sorted) /\ \A i \in DOMAIN sorted : IsPair(sorted[i]) /\ Backed(sorted[i], done)
  BY <1>5, <1>6, SeqIs
<1>8. /\ ps = [i \in DOMAIN sorted |-> ps[i]]
      /\ \A i \in DOMAIN sorted :
            ps[i] = sorted[i] \/ ps[i] = [sorted[i] EXCEPT !.state = "waiting"]
  BY <1>4 DEF FormCandidatePairs
<1>9. ASSUME NEW i \in DOMAIN ps PROVE IsPair(ps[i]) /\ Backed(ps[i], done)
  <2>0. i \in DOMAIN sorted /\ IsPair(sorted[i]) /\ Backed(sorted[i], done)
    BY <1>7, <1>8
  <2>1. CASE ps[i] = sorted[i]
    BY <2>0, <2>1
  <2>2. CASE ps[i] = [sorted[i] EXCEPT !.state = "waiting"]
    <3>1. IsPair(ps[i]) /\ ps[i].state = "waiting"
      BY <2>0, <2>2 DEF IsPair, PairFields
    <3> QED
      BY <3>1 DEF Backed
  <2> QED
    BY <1>8, <2>0, <2>1, <2>2
<1>10. IsSeq(ps)
  BY <1>7, <1>8, SeqFacts DEF IsSeq
<1> QED
  BY <1>9, <1>10 DEF ListOK

\* A copy in the snapshot is about the pair at its index.
OnList(e, ps) == e[1] \in DOMAIN ps /\ ps[e[1]].local = e[2].local /\ ps[e[1]].remote = e[2].remote
\* The socket and the address of the check that is waited for.
CheckFrom(r) == FirstOf(r.todo)[2].local.base
CheckTo(r) == FirstOf(r.todo)[2].remote.addr

\* What makes a side trustworthy: the pairs it believes in were answered, also
\* those of earlier runs, which fallback_selection may pick; its snapshot is
\* still about its check list; the answer it got is one to its own check; and
\* after its result nothing runs any more.
SideGood(ag, r, res, done) ==
    /\ IsSeq(ag.local) /\ IsSeq(ag.remote) /\ ListOK(ag.pairs, done) /\ Backed(ag.selected, done)
    /\ r.txn \in Nat
    /\ r.pc \in {"next", "wait"} => \A e \in r.todo : OnList(e, ag.pairs)
    /\ r.pc = "wait" => r.todo # {}
    /\ r.pc = "wait" /\ r.got => <<CheckFrom(r), CheckTo(r)>> \in done
    /\ res # NoResult => /\ r.pc \in {"ok", "closed"}
                         /\ <<res.socket, res.peer>> \in done
                         /\ res.socket \notin ag.tasks
                         /\ r.pc # "closed" => res.socket \in ag.sockets

\* A message is the check of its sender, and the one that is waited for goes
\* along the pair that is being checked.
NetOK ==
    \A m \in net :
       /\ m.txn[1] \in Sides /\ m.txn[2] \in Nat /\ m.txn[2] <= run[m.txn[1]].txn
       /\ m.kind = "response" => <<m.from, m.to>> \in answered
       /\ \A s \in Sides : run[s].pc = "wait" /\ m.txn = <<s, run[s].txn>> =>
             m.from = CheckFrom(run[s]) /\ m.to = CheckTo(run[s])

UseInv ==
    /\ result = [s \in Sides |-> result[s]]
    /\ \A s \in Sides : SideGood(agent[s], run[s], result[s], answered)
    /\ NetOK

LEMMA UseImplies == UseInv => SessionIsUsable
BY DEF UseInv, SideGood, SessionIsUsable

LEMMA MoreDone ==
    ASSUME NEW ag, NEW r, NEW res, NEW done, SideGood(ag, r, res, done),
           NEW more, done \subseteq more
    PROVE  SideGood(ag, r, res, more)
<1>1. Backed(ag.selected, more) /\ ListOK(ag.pairs, more)
  BY DEF SideGood, ListOK, Backed
<1> QED
  BY <1>1 DEF SideGood

\* A step of side s.
LEMMA SideUse ==
    ASSUME UseInv, IceInv, NEW s \in Sides, NEW ag, NEW r, NEW res,
           agent' = [agent EXCEPT ![s] = ag], run' = [run EXCEPT ![s] = r],
           result' = [result EXCEPT ![s] = res], answered \subseteq answered',
           SideGood(ag, r, res, answered'), NetOK'
    PROVE  UseInv'
<1>1. /\ agent' = [t \in Sides |-> IF t = s THEN ag ELSE agent[t]]
      /\ run' = [t \in Sides |-> IF t = s THEN r ELSE run[t]]
      /\ result' = [t \in Sides |-> IF t = s THEN res ELSE result[t]]
  BY DEF UseInv, IceInv
<1>2. ASSUME NEW t \in Sides PROVE SideGood(agent'[t], run'[t], result'[t], answered')
  <2>1. CASE t = s
    BY <1>1, <2>1
  <2>2. CASE t # s
    <3>1. agent'[t] = agent[t] /\ run'[t] = run[t] /\ result'[t] = result[t]
      BY <1>1, <2>2
    <3>2. SideGood(agent[t], run[t], result[t], answered)
      BY DEF UseInv
    <3>3. SideGood(agent[t], run[t], result[t], answered')
      BY <3>2, MoreDone
    <3> QED
      BY <3>1, <3>3
  <2> QED
    BY <2>1, <2>2
<1> QED
  BY <1>1, <1>2 DEF UseInv

LEMMA NetSame ==
    ASSUME NetOK, IceInv, NEW s \in Sides, NEW r, run' = [run EXCEPT ![s] = r],
           net' \subseteq net, answered \subseteq answered', r.txn = run[s].txn,
           r.pc = "wait" => run[s].pc = "wait" /\ r.todo = run[s].todo
    PROVE  NetOK'
<1>1. run' = [t \in Sides |-> IF t = s THEN r ELSE run[t]]
  BY DEF IceInv
<1>2. r.pc = "wait" => CheckFrom(r) = CheckFrom(run[s]) /\ CheckTo(r) = CheckTo(run[s])
  BY DEF CheckFrom, CheckTo
<1> SUFFICES ASSUME NEW m \in net'
             PROVE  /\ m.txn[1] \in Sides /\ m.txn[2] \in Nat /\ m.txn[2] <= run'[m.txn[1]].txn
                    /\ m.kind = "response" => <<m.from, m.to>> \in answered'
                    /\ \A t \in Sides : run'[t].pc = "wait" /\ m.txn = <<t, run'[t].txn>> =>
                          m.from = CheckFrom(run'[t]) /\ m.to = CheckTo(run'[t])
  BY DEF NetOK, CheckFrom, CheckTo
<1>3. /\ m.txn[1] \in Sides /\ m.txn[2] \in Nat /\ m.txn[2] <= run[m.txn[1]].txn
      /\ m.kind = "response" => <<m.from, m.to>> \in answered
      /\ \A t \in Sides : run[t].pc = "wait" /\ m.txn = <<t, run[t].txn>> =>
            m.from = CheckFrom(run[t]) /\ m.to = CheckTo(run[t])
  BY DEF NetOK
<1>4. \A t \in Sides : run'[t].txn = run[t].txn
  BY <1>1
<1>5. ASSUME NEW t \in Sides, run'[t].pc = "wait", m.txn = <<t, run'[t].txn>>
      PROVE  m.from = CheckFrom(run'[t]) /\ m.to = CheckTo(run'[t])
  <2>1. CASE t = s
    BY <1>1, <1>2, <1>3, <1>4, <1>5, <2>1
  <2>2. CASE t # s
    BY <1>1, <1>3, <1>5, <2>2
  <2> QED
    BY <2>1, <2>2
<1> QED
  BY <1>3, <1>4, <1>5

LEMMA QuietUse ==
    ASSUME UseInv, IceInv, NEW s \in Sides, NEW ag, NEW r,
           agent' = [agent EXCEPT ![s] = ag], run' = [run EXCEPT ![s] = r],
           UNCHANGED <<result, net, answered>>, r.txn = run[s].txn,
           r.pc = "wait" => run[s].pc = "wait" /\ r.todo = run[s].todo,
           SideGood(ag, r, result[s], answered)
    PROVE  UseInv'
<1>1. NetOK'
  BY NetSame DEF UseInv
<1>2. PICK res : res = result[s]
  OBVIOUS
<1>3. result' = [result EXCEPT ![s] = res] /\ SideGood(ag, r, res, answered')
  BY <1>2 DEF UseInv
<1> QED
  BY <1>1, <1>3, SideUse

\* A call that goes on at x.
At(r, x) == [r EXCEPT !.pc = x]

LEMMA RunPc ==
    ASSUME IceInv, NEW s \in Sides, NEW x, run' = [run EXCEPT ![s].pc = x]
    PROVE  /\ run' = [run EXCEPT ![s] = At(run[s], x)]
           /\ At(run[s], x).pc = x /\ At(run[s], x).txn = run[s].txn
           /\ At(run[s], x).todo = run[s].todo /\ At(run[s], x).got = run[s].got
<1>1. IsRun(run[s]) /\ run = [t \in Sides |-> run[t]]
  BY DEF IceInv
<1>2. run' = [run EXCEPT ![s] = At(run[s], x)]
  BY <1>1 DEF At
<1>3. /\ At(run[s], x).pc = x /\ At(run[s], x).txn = run[s].txn
      /\ At(run[s], x).todo = run[s].todo /\ At(run[s], x).got = run[s].got
  BY <1>1 DEF At, IsRun, RunFields
<1> QED
  BY <1>2, <1>3

LEMMA GatherUse ==
    ASSUME UseInv, IceInv, NEW s \in Sides, BindHosts(s) \/ GatherDone(s) \/ GatherTimeout(s)
    PROVE  UseInv'
<1>0. SideGood(agent[s], run[s], result[s], answered) /\ IsAgent(agent[s])
  BY DEF UseInv, IceInv
<1>1. run[s].pc \in {"new", "gathering"} /\ result[s] = NoResult
  <2>1. run[s].pc \in {"new", "gathering"}
    BY DEF BindHosts, GatherDone, GatherTimeout
  <2> QED
    BY <1>0, <2>1 DEF SideGood
<1>2. PICK x \in {"gathering", "ready"} : run' = [run EXCEPT ![s].pc = x]
  BY DEF BindHosts, GatherDone, GatherTimeout
<1>3. PICK r : /\ run' = [run EXCEPT ![s] = r]
               /\ r.pc = x /\ r.txn = run[s].txn
  <2>1. /\ run' = [run EXCEPT ![s] = At(run[s], x)]
        /\ At(run[s], x).pc = x /\ At(run[s], x).txn = run[s].txn
    BY <1>2, RunPc
  <2> QED
    BY <2>1
<1>4. UNCHANGED <<result, net, answered>>
  BY DEF BindHosts, GatherDone, GatherTimeout
<1>5. ASSUME NEW ag, agent' = [agent EXCEPT ![s] = ag], IsSeq(ag.local),
             ag.remote = agent[s].remote, ag.pairs = agent[s].pairs, ag.selected = agent[s].selected
      PROVE  UseInv'
  <2>1. SideGood(ag, r, result[s], answered)
    BY <1>0, <1>1, <1>3, <1>5 DEF SideGood
  <2> QED
    BY <1>3, <1>4, <1>5, <2>1, QuietUse
<1>6. CASE BindHosts(s)
  <2>1. PICK hosts : hosts = [i \in DOMAIN Hosts[s] |-> Host(Hosts[s][i])]
    OBVIOUS
  <2>2. IsSeq(hosts)
    <3>1. IsSeq(Hosts[s])
      <4>1. Hosts[s] \in Seq(Range(Hosts[s]))
        BY IceAssumption DEF Sides
      <4> QED
        BY <4>1, SeqIs
    <3>2. DOMAIN Hosts[s] = 1 .. Len(Hosts[s]) /\ Len(Hosts[s]) \in Nat
      BY <3>1, SeqFacts
    <3> QED
      BY <2>1, <3>2 DEF IsSeq
  <2>3. PICK ag : ag = GatherHosts(agent[s], hosts)
    OBVIOUS
  <2>4. agent' = [agent EXCEPT ![s] = ag]
    BY <1>6, <2>1, <2>3 DEF BindHosts
  <2>5. /\ ag.local = hosts /\ ag.remote = agent[s].remote /\ ag.pairs = agent[s].pairs
        /\ ag.selected = agent[s].selected
    BY <1>0, <2>3 DEF GatherHosts, IsAgent, AgentFields
  <2> QED
    BY <1>5, <2>2, <2>4, <2>5
<1>7. CASE GatherDone(s)
  <2>0. PICK heard \in SUBSET DOMAIN Mapped[s] :
           agent' = [agent EXCEPT ![s] = GatherSrflx(agent[s],
              [i \in 1 .. Cardinality(heard) |->
                  LET k == CHOOSE k \in heard : Cardinality({j \in heard : j <= k}) = i
                  IN  ServerReflexive(Mapped[s][k][1], Mapped[s][k][2])])]
    BY <1>7 DEF GatherDone
  <2>a. PICK mapped : mapped = [i \in 1 .. Cardinality(heard) |->
                  LET k == CHOOSE k \in heard : Cardinality({j \in heard : j <= k}) = i
                  IN  ServerReflexive(Mapped[s][k][1], Mapped[s][k][2])]
    OBVIOUS
  <2>1. /\ agent' = [agent EXCEPT ![s] = GatherSrflx(agent[s], mapped)]
        /\ mapped = [i \in 1 .. Cardinality(heard) |-> mapped[i]]
    BY <2>0, <2>a
  <2>2. IsSeq(mapped)
    <3>1. Mapped[s] \in Seq(Range(Mapped[s]))
      BY IceAssumption DEF Sides
    <3>2. DOMAIN Mapped[s] = 1 .. Len(Mapped[s]) /\ Len(Mapped[s]) \in Nat
      BY <3>1, SeqIs, SeqFacts
    <3>3. IsFiniteSet(DOMAIN Mapped[s])
      BY <3>2, FS_Interval
    <3>4. IsFiniteSet(heard)
      BY <3>3, FS_Subset
    <3>5. Cardinality(heard) \in Nat
      BY <3>4, FS_CardinalityType
    <3> QED
      BY <2>1, <3>5 DEF IsSeq
  <2>3. PICK ag : ag = GatherSrflx(agent[s], mapped)
    OBVIOUS
  <2>4. /\ ag.local = agent[s].local \o mapped /\ ag.remote = agent[s].remote
        /\ ag.pairs = agent[s].pairs /\ ag.selected = agent[s].selected
    BY <1>0, <2>3 DEF GatherSrflx, IsAgent, AgentFields
  <2>5. IsSeq(ag.local)
    BY <1>0, <2>2, <2>4, ConcatIs DEF SideGood
  <2> QED
    BY <1>5, <2>1, <2>3, <2>4, <2>5
<1>8. CASE GatherTimeout(s)
  <2>1. PICK ag : ag = [agent[s] EXCEPT !.pending = agent[s].pending \cup {<<s, 0>>}]
    OBVIOUS
  <2>2. agent' = [agent EXCEPT ![s] = ag]
    BY <1>8, <2>1 DEF GatherTimeout, IceInv
  <2>3. /\ ag.local = agent[s].local /\ ag.remote = agent[s].remote
        /\ ag.pairs = agent[s].pairs /\ ag.selected = agent[s].selected
    BY <1>0, <2>1 DEF IsAgent, AgentFields
  <2> QED
    BY <1>0, <1>5, <2>2, <2>3 DEF SideGood
<1> QED
  BY <1>6, <1>7, <1>8

LEMMA RunChecksUse ==
    ASSUME UseInv, IceInv, NEW s \in Sides, RunChecks(s)
    PROVE  UseInv'
<1>0. SideGood(agent[s], run[s], result[s], answered) /\ IsAgent(agent[s])
  BY DEF UseInv, IceInv
<1>1. IsSeq(agent[Peer(s)].local)
  BY DEF UseInv, SideGood, Peer, Sides
<1>2. PICK peers : peers = agent[Peer(s)].local
  OBVIOUS
<1>3. PICK n : n = [agent[s] EXCEPT !.remote = agent[s].remote \o peers, !.creds = TRUE]
  OBVIOUS
<1>4. /\ IsAgent(n) /\ n.local = agent[s].local /\ n.remote = agent[s].remote \o peers
      /\ n.pairs = agent[s].pairs /\ n.selected = agent[s].selected /\ "pairs" \in DOMAIN n
  BY <1>0, <1>3 DEF IsAgent, AgentFields
<1>5. IsSeq(n.local) /\ IsSeq(n.remote) /\ ListOK(n.pairs, answered)
  BY <1>0, <1>1, <1>2, <1>4, ConcatIs DEF SideGood
<1>6. PICK formed : formed = FormCandidatePairs(n)
  OBVIOUS
<1>7. /\ IsAgent(formed) /\ formed.local = n.local /\ formed.remote = n.remote
      /\ formed.selected = n.selected
  BY <1>4, <1>6 DEF FormCandidatePairs, IsAgent, AgentFields
<1>8. ListOK(formed.pairs, answered)
  BY <1>4, <1>5, <1>6, FormKeeps
<1>9. PICK ag : ag = StartChecks(formed)
  OBVIOUS
<1>10. /\ ag.local = n.local /\ ag.remote = n.remote /\ ag.selected = n.selected
       /\ ag.pairs = formed.pairs
  BY <1>7, <1>9 DEF StartChecks, IsAgent, AgentFields
<1>11. PICK r : r = [run[s] EXCEPT !.pc = "next", !.todo = WaitingPairs(ag), !.runs = run[s].runs + 1]
  OBVIOUS
<1>12. /\ agent' = [agent EXCEPT ![s] = ag] /\ UNCHANGED <<result, net, answered>>
       /\ run[s].pc \in {"ready", "failed"}
       /\ run' = [run EXCEPT ![s].pc = "next", ![s].todo = WaitingPairs(ag),
                             ![s].runs = run[s].runs + 1]
  <2>1. ag = StartChecks(AddRemoteCandidates(agent[s], agent[Peer(s)].local))
    BY <1>2, <1>3, <1>6, <1>9 DEF AddRemoteCandidates
  <2> QED
    BY <2>1 DEF RunChecks
<1>13. /\ run' = [run EXCEPT ![s] = r] /\ r.pc = "next" /\ r.todo = WaitingPairs(ag)
       /\ r.txn = run[s].txn
  BY <1>11, <1>12 DEF IceInv, IsRun, RunFields
<1>14. \A e \in r.todo : OnList(e, ag.pairs)
  BY <1>13 DEF WaitingPairs, OnList
<1>15. SideGood(ag, r, result[s], answered)
  BY <1>0, <1>4, <1>5, <1>8, <1>10, <1>12, <1>13, <1>14 DEF SideGood
<1> QED
  BY <1>12, <1>13, <1>15, QuietUse

\* The loop of start_checks takes one of the pairs that are left.
LEMMA FirstIsOne ==
    ASSUME NEW todo, todo # {}, \A e \in todo : e[1] \in Nat
    PROVE  FirstOf(todo) \in todo
<1> DEFINE I == {e[1] : e \in todo}
<1>1. I \subseteq Nat /\ I # {}
  OBVIOUS
<1>2. \E x \in I : \A y \in I : ~(<<y, x>> \in OpToRel(<, Nat))
  <2> HIDE DEF I
  <2> QED
    BY <1>1, NatLessThanWellFounded, WFMin
<1>3. PICK x \in I : \A y \in I : ~(y < x)
  BY <1>1, <1>2 DEF OpToRel
<1>4. PICK e \in todo : e[1] = x
  OBVIOUS
<1>5. ASSUME NEW f \in todo PROVE e[1] <= f[1]
  <2>1. f[1] \in I /\ f[1] \in Nat /\ e[1] \in Nat
    OBVIOUS
  <2>2. ~(f[1] < x)
    BY <1>3, <2>1
  <2> QED
    BY <1>4, <2>1, <2>2
<1> QED
  BY <1>5 DEF FirstOf

LEMMA FirstOnList ==
    ASSUME NEW ag, NEW r, NEW res, NEW done, SideGood(ag, r, res, done),
           r.pc \in {"next", "wait"}, r.todo # {}
    PROVE  FirstOf(r.todo) \in r.todo /\ OnList(FirstOf(r.todo), ag.pairs)
<1>1. DOMAIN ag.pairs \subseteq Nat
  BY SeqFacts DEF SideGood, ListOK
<1>2. \A e \in r.todo : OnList(e, ag.pairs)
  BY DEF SideGood
<1>3. \A e \in r.todo : e[1] \in Nat
  BY <1>1, <1>2 DEF OnList
<1> QED
  BY <1>2, <1>3, FirstIsOne

\* What a step that only touches the state of pairs and the sockets' tasks keeps.
SameList(n, ag) ==
    /\ n.local = ag.local /\ n.remote = ag.remote /\ n.selected = ag.selected
    /\ n.sockets = ag.sockets
    /\ \A e : OnList(e, ag.pairs) => OnList(e, n.pairs)
WithState(ag, idx, x) == [ag EXCEPT !.pairs[idx].state = x]

LEMMA StateKeeps ==
    ASSUME NEW ag, IsAgent(ag), NEW done, ListOK(ag.pairs, done), NEW idx \in DOMAIN ag.pairs,
           NEW x, x # "succeeded"
    PROVE  /\ IsAgent(WithState(ag, idx, x)) /\ SameList(WithState(ag, idx, x), ag)
           /\ ListOK(WithState(ag, idx, x).pairs, done)
           /\ DOMAIN WithState(ag, idx, x).pairs = DOMAIN ag.pairs
<1>1. PICK n : n = WithState(ag, idx, x)
  OBVIOUS
<1>2. PICK p : p = [ag.pairs[idx] EXCEPT !.state = x]
  OBVIOUS
<1>3. IsPair(ag.pairs[idx])
  BY DEF ListOK
<1>4. IsPair(p) /\ p.state = x /\ p.local = ag.pairs[idx].local /\ p.remote = ag.pairs[idx].remote
  BY <1>2, <1>3 DEF IsPair, PairFields
<1>5. /\ IsAgent(n) /\ n.local = ag.local /\ n.remote = ag.remote /\ n.selected = ag.selected
      /\ n.sockets = ag.sockets /\ n.pairs = [ag.pairs EXCEPT ![idx] = p]
  BY <1>1, <1>2 DEF WithState, IsAgent, AgentFields
<1>6. /\ n.pairs = [i \in DOMAIN ag.pairs |-> IF i = idx THEN p ELSE ag.pairs[i]]
      /\ DOMAIN n.pairs = DOMAIN ag.pairs
  BY <1>5
<1>7. \A e : OnList(e, ag.pairs) => OnList(e, n.pairs)
  BY <1>4, <1>6 DEF OnList
<1>8. ASSUME NEW i \in DOMAIN n.pairs PROVE IsPair(n.pairs[i]) /\ Backed(n.pairs[i], done)
  BY <1>4, <1>6 DEF ListOK, Backed
<1>9. IsSeq(n.pairs)
  BY <1>6, SeqFacts DEF IsSeq, ListOK
<1> QED
  BY <1>1, <1>5, <1>6, <1>7, <1>8, <1>9 DEF SameList, ListOK

LEMMA CheckFailedUse ==
    ASSUME UseInv, IceInv, NEW s \in Sides, NEW ag, IsAgent(ag), SameList(ag, agent[s]),
           ListOK(ag.pairs, answered),
           run[s].pc \in {"next", "wait"}, run[s].todo # {},
           agent' = [agent EXCEPT ![s] = WithState(ag, FirstOf(run[s].todo)[1], "failed")],
           NEW r, run' = [run EXCEPT ![s] = r], r.pc = "next", r.txn = run[s].txn,
           r.todo = run[s].todo \ {FirstOf(run[s].todo)},
           UNCHANGED <<result, net, answered>>
    PROVE  UseInv'
<1>0. SideGood(agent[s], run[s], result[s], answered) /\ IsRun(run[s]) /\ run = [t \in Sides |-> run[t]]
  BY DEF UseInv, IceInv
<1>1. PICK e : e = FirstOf(run[s].todo)
  OBVIOUS
<1>2. e \in run[s].todo /\ OnList(e, agent[s].pairs)
  BY <1>0, <1>1, FirstOnList
<1>3. e[1] \in DOMAIN ag.pairs
  BY <1>2 DEF SameList, OnList
<1>4. PICK n : n = WithState(ag, e[1], "failed")
  OBVIOUS
<1>5. SameList(n, ag) /\ ListOK(n.pairs, answered)
  BY <1>3, <1>4, StateKeeps
<1>8. result[s] = NoResult
  BY <1>0 DEF SideGood
<1>9. \A f \in r.todo : OnList(f, n.pairs)
  BY <1>0, <1>5 DEF SideGood, SameList
<1>10. SideGood(n, r, result[s], answered)
  BY <1>0, <1>5, <1>8, <1>9 DEF SideGood, SameList
<1>11. /\ agent' = [agent EXCEPT ![s] = n]
       /\ r.pc = "wait" => run[s].pc = "wait" /\ r.todo = run[s].todo
  BY <1>1, <1>4
<1> QED
  BY <1>10, <1>11, QuietUse

LEMMA CheckTimeoutUse ==
    ASSUME UseInv, IceInv, NEW s \in Sides, CheckTimeout(s)
    PROVE  UseInv'
<1>0. SideGood(agent[s], run[s], result[s], answered) /\ IsAgent(agent[s])
  BY DEF UseInv, IceInv
<1>1. PICK ag : ag = Forget(agent[s], <<s, run[s].txn>>)
  OBVIOUS
<1>2. IsAgent(ag) /\ SameList(ag, agent[s]) /\ ag.pairs = agent[s].pairs
  BY <1>0, <1>1 DEF Forget, IsAgent, AgentFields, SameList
<1>3. ListOK(ag.pairs, answered)
  BY <1>0, <1>2 DEF SideGood
<1>4. /\ agent' = [agent EXCEPT ![s] = WithState(ag, FirstOf(run[s].todo)[1], "failed")]
      /\ run' = [run EXCEPT ![s].pc = "next", ![s].todo = run[s].todo \ {FirstOf(run[s].todo)}]
      /\ UNCHANGED <<result, net, answered>> /\ run[s].pc = "wait"
  BY <1>1 DEF CheckTimeout, CheckFailed, WithState
<1>5. run[s].todo # {}
  BY <1>0, <1>4 DEF SideGood
<1>6. PICK r : r = [run[s] EXCEPT !.pc = "next", !.todo = run[s].todo \ {FirstOf(run[s].todo)}]
  OBVIOUS
<1>7. /\ run' = [run EXCEPT ![s] = r] /\ r.pc = "next" /\ r.txn = run[s].txn
      /\ r.todo = run[s].todo \ {FirstOf(run[s].todo)}
  BY <1>4, <1>6 DEF IceInv, IsRun, RunFields
<1>8. /\ agent' = [agent EXCEPT ![s] = WithState(ag, FirstOf(run[s].todo)[1], "failed")]
      /\ UNCHANGED <<result, net, answered>> /\ run[s].pc \in {"next", "wait"}
  BY <1>4
<1> QED
  BY <1>2, <1>3, <1>5, <1>7, <1>8, CheckFailedUse

LEMMA BeginCheckUse ==
    ASSUME UseInv, IceInv, NEW s \in Sides, BeginCheck(s)
    PROVE  UseInv'
<1>0. /\ SideGood(agent[s], run[s], result[s], answered) /\ IsAgent(agent[s]) /\ IsRun(run[s])
      /\ run = [t \in Sides |-> run[t]] /\ NetOK
  BY DEF UseInv, IceInv
<1>1. PICK e : e = FirstOf(run[s].todo)
  OBVIOUS
<1>2. run[s].pc = "next" /\ run[s].todo # {} /\ UNCHANGED <<result, answered>>
  BY DEF BeginCheck
<1>3. e \in run[s].todo /\ OnList(e, agent[s].pairs)
  BY <1>0, <1>1, <1>2, FirstOnList
<1>4. ListOK(agent[s].pairs, answered) /\ e[1] \in DOMAIN agent[s].pairs
  BY <1>0, <1>3 DEF SideGood, OnList
<1>5. PICK marked : marked = WithState(agent[s], e[1], "in_progress")
  OBVIOUS
<1>6. IsAgent(marked) /\ SameList(marked, agent[s]) /\ ListOK(marked.pairs, answered)
  BY <1>0, <1>4, <1>5, StateKeeps
<1>7. PICK txn : txn = <<s, run[s].txn + 1>>
  OBVIOUS
<1>8. PICK msg : msg = [kind |-> "request", from |-> e[2].local.base, to |-> e[2].remote.addr,
                        txn |-> txn]
  OBVIOUS
<1>9. CASE /\ agent' = [agent EXCEPT ![s] = Expect(marked, e[2].local.base, txn)]
           /\ net' \subseteq net \cup {msg}
           /\ run' = [run EXCEPT ![s].pc = "wait", ![s].got = FALSE, ![s].txn = run[s].txn + 1]
  <2>1. PICK r : r = [run[s] EXCEPT !.pc = "wait", !.got = FALSE, !.txn = run[s].txn + 1]
    OBVIOUS
  <2>2. /\ run' = [run EXCEPT ![s] = r] /\ r.pc = "wait" /\ r.txn = run[s].txn + 1
        /\ r.got = FALSE /\ r.todo = run[s].todo
    BY <1>0, <1>9, <2>1 DEF IsRun, RunFields
  <2>3. PICK ag : ag = Expect(marked, e[2].local.base, txn)
    OBVIOUS
  <2>4. /\ ag.local = marked.local /\ ag.remote = marked.remote /\ ag.selected = marked.selected
        /\ ag.pairs = marked.pairs
    BY <1>6, <2>3 DEF Expect, IsAgent, AgentFields
  <2>5. result[s] = NoResult
    BY <1>0, <1>2 DEF SideGood
  <2>6. \A f \in r.todo : OnList(f, ag.pairs)
    BY <1>0, <1>2, <1>6, <2>2, <2>4 DEF SideGood, SameList
  <2>7. SideGood(ag, r, result[s], answered)
    BY <1>0, <1>2, <1>6, <2>2, <2>4, <2>5, <2>6 DEF SideGood, SameList
  <2>8. run[s].txn \in Nat
    BY <1>0 DEF SideGood
  <2>9. /\ CheckFrom(r) = msg.from /\ CheckTo(r) = msg.to
        /\ msg.txn = <<s, r.txn>> /\ msg.kind # "response"
    BY <1>1, <1>7, <1>8, <2>2 DEF CheckFrom, CheckTo
  <2>10. run' = [t \in Sides |-> IF t = s THEN r ELSE run[t]]
    BY <1>0, <2>2
  <2>11. NetOK'
    <3> SUFFICES ASSUME NEW m \in net'
                 PROVE  /\ m.txn[1] \in Sides /\ m.txn[2] \in Nat /\ m.txn[2] <= run'[m.txn[1]].txn
                        /\ m.kind = "response" => <<m.from, m.to>> \in answered'
                        /\ \A t \in Sides : run'[t].pc = "wait" /\ m.txn = <<t, run'[t].txn>> =>
                              m.from = CheckFrom(run'[t]) /\ m.to = CheckTo(run'[t])
      BY DEF NetOK, CheckFrom, CheckTo
    <3>1. CASE m = msg
      <4>1. run'[s] = r
        BY <2>10
      <4>2. ASSUME NEW t \in Sides, m.txn = <<t, run'[t].txn>> PROVE t = s
        BY <2>9, <3>1, <4>2
      <4> QED
        BY <2>2, <2>8, <2>9, <3>1, <4>1, <4>2
    <3>2. CASE m \in net
      <4>1. /\ m.txn[1] \in Sides /\ m.txn[2] \in Nat /\ m.txn[2] <= run[m.txn[1]].txn
            /\ m.kind = "response" => <<m.from, m.to>> \in answered
            /\ \A t \in Sides : run[t].pc = "wait" /\ m.txn = <<t, run[t].txn>> =>
                  m.from = CheckFrom(run[t]) /\ m.to = CheckTo(run[t])
        BY <1>0, <3>2 DEF NetOK
      <4>2. m.txn[2] <= run'[m.txn[1]].txn
        BY <2>2, <2>8, <2>10, <4>1
      <4>3. ASSUME NEW t \in Sides, run'[t].pc = "wait", m.txn = <<t, run'[t].txn>>
            PROVE  m.from = CheckFrom(run'[t]) /\ m.to = CheckTo(run'[t])
        <5>1. CASE t = s
          <6>1. m.txn[1] = s /\ m.txn[2] = run[s].txn + 1
            BY <2>2, <2>10, <4>3, <5>1
          <6> QED
            BY <2>8, <4>1, <6>1
        <5>2. CASE t # s
          <6>1. run'[t] = run[t]
            BY <2>10, <5>2
          <6> QED
            BY <4>1, <4>3, <6>1
        <5> QED
          BY <5>1, <5>2
      <4> QED
        BY <1>2, <4>1, <4>2, <4>3
    <3> QED
      BY <1>9, <3>1, <3>2
  <2>12. PICK res : res = result[s]
    OBVIOUS
  <2>13. result' = [result EXCEPT ![s] = res] /\ SideGood(ag, r, res, answered')
         /\ answered \subseteq answered'
    BY <1>2, <2>7, <2>12 DEF UseInv
  <2> QED
    BY <1>9, <2>2, <2>3, <2>11, <2>13, SideUse
<1>10. CASE /\ agent' = [agent EXCEPT ![s] = WithState(marked, e[1], "failed")]
            /\ run' = [run EXCEPT ![s].todo = run[s].todo \ {e}]
            /\ UNCHANGED net
  <2>1. PICK r : r = [run[s] EXCEPT !.todo = run[s].todo \ {e}]
    OBVIOUS
  <2>2. /\ run' = [run EXCEPT ![s] = r] /\ r.pc = "next" /\ r.txn = run[s].txn
        /\ r.todo = run[s].todo \ {e}
    BY <1>0, <1>2, <1>10, <2>1 DEF IsRun, RunFields
  <2> QED
    BY <1>1, <1>2, <1>6, <1>10, <2>2, CheckFailedUse
<1> QED
  BY <1>1, <1>5, <1>7, <1>8, <1>9, <1>10 DEF BeginCheck, MarkInProgress, CheckFailed, WithState

LEMMA CheckAnsweredUse ==
    ASSUME UseInv, IceInv, NEW s \in Sides, CheckAnswered(s)
    PROVE  UseInv'
<1>0. SideGood(agent[s], run[s], result[s], answered) /\ IsAgent(agent[s])
  BY DEF UseInv, IceInv
<1>1. PICK e : e = FirstOf(run[s].todo)
  OBVIOUS
<1>2. PICK old : old = Forget(agent[s], <<s, run[s].txn>>)
  OBVIOUS
<1>3. /\ IsAgent(old) /\ old.local = agent[s].local /\ old.remote = agent[s].remote
      /\ old.pairs = agent[s].pairs
  BY <1>0, <1>2 DEF Forget, IsAgent, AgentFields
<1>4. PICK n : n = CheckSucceeded(old, e[1], e[2])
  OBVIOUS
<1>5. /\ run[s].pc = "wait" /\ run[s].got /\ UNCHANGED <<result, net, answered>>
      /\ agent' = [agent EXCEPT ![s] = n] /\ run' = [run EXCEPT ![s].pc = "selected"]
  BY <1>1, <1>2, <1>4 DEF CheckAnswered
<1>6. run[s].todo # {} /\ <<e[2].local.base, e[2].remote.addr>> \in answered
  BY <1>0, <1>1, <1>5 DEF SideGood, CheckFrom, CheckTo
<1>7. OnList(e, agent[s].pairs)
  BY <1>0, <1>1, <1>5, <1>6, FirstOnList
<1>8. IsPair(old.pairs[e[1]]) /\ ListOK(old.pairs, answered)
  BY <1>0, <1>3, <1>7 DEF SideGood, ListOK, OnList
<1>9. PICK won : won = [old.pairs[e[1]] EXCEPT !.state = "succeeded",
                           !.nominated = old.pairs[e[1]].nominated \/ old.role = "controlling"]
  OBVIOUS
<1>10. IsPair(won) /\ won.local = e[2].local /\ won.remote = e[2].remote
  BY <1>3, <1>7, <1>8, <1>9 DEF IsPair, PairFields, OnList
<1>11. Backed(won, answered)
  BY <1>6, <1>10 DEF Backed
<1>12. PICK ps : ps = [i \in DOMAIN old.pairs |->
                      IF i = e[1] THEN won
                      ELSE IF /\ old.pairs[i].state = "frozen"
                              /\ Foundation(old.pairs[i].local) = Foundation(e[2].local)
                           THEN [old.pairs[i] EXCEPT !.state = "waiting"]
                           ELSE old.pairs[i]]
  OBVIOUS
<1>13. n = [old EXCEPT !.selected = won, !.state = "connected", !.pairs = ps]
  BY <1>4, <1>9, <1>12 DEF CheckSucceeded
<1>14. n.local = old.local /\ n.remote = old.remote /\ n.selected = won /\ n.pairs = ps
  BY <1>3, <1>13 DEF IsAgent, AgentFields
<1>15. IsSeq(ps) /\ DOMAIN ps = DOMAIN old.pairs
  BY <1>8, <1>12, SeqFacts DEF ListOK, IsSeq
<1>16. ASSUME NEW i \in DOMAIN ps PROVE IsPair(ps[i]) /\ Backed(ps[i], answered)
  <2>1. IsPair(old.pairs[i]) /\ Backed(old.pairs[i], answered)
    BY <1>8, <1>15 DEF ListOK
  <2>2. PICK w : w = [old.pairs[i] EXCEPT !.state = "waiting"]
    OBVIOUS
  <2>3. IsPair(w) /\ w.state = "waiting"
    BY <2>1, <2>2 DEF IsPair, PairFields
  <2>4. Backed(w, answered)
    BY <2>3 DEF Backed
  <2>5. ps[i] = won \/ ps[i] = w \/ ps[i] = old.pairs[i]
    BY <1>12, <1>15, <2>2
  <2> QED
    BY <1>10, <1>11, <2>1, <2>3, <2>4, <2>5
<1>17. result[s] = NoResult
  BY <1>0, <1>5 DEF SideGood
<1>18. PICK r : run' = [run EXCEPT ![s] = r] /\ r.pc = "selected" /\ r.txn = run[s].txn
  <2>1. PICK x : x = "selected"
    OBVIOUS
  <2>2. run' = [run EXCEPT ![s].pc = x]
    BY <1>5, <2>1
  <2>3. /\ run' = [run EXCEPT ![s] = At(run[s], x)]
        /\ At(run[s], x).pc = x /\ At(run[s], x).txn = run[s].txn
    BY <2>2, RunPc
  <2> QED
    BY <2>1, <2>3
<1>19. ListOK(n.pairs, answered) /\ Backed(n.selected, answered)
  BY <1>11, <1>14, <1>15, <1>16 DEF ListOK
<1>20. SideGood(n, r, result[s], answered)
  BY <1>0, <1>3, <1>14, <1>17, <1>18, <1>19 DEF SideGood
<1>21. UNCHANGED <<result, net, answered>> /\ agent' = [agent EXCEPT ![s] = n]
  BY <1>5
<1> QED
  BY <1>18, <1>20, <1>21, QuietUse

LEMMA FallbackUse ==
    ASSUME UseInv, IceInv, NEW s \in Sides, Fallback(s)
    PROVE  UseInv'
<1>0. SideGood(agent[s], run[s], result[s], answered) /\ IsAgent(agent[s])
  BY DEF UseInv, IceInv
<1>1. PICK ag : ag = FallbackSelection(agent[s])
  OBVIOUS
<1>2. PICK x : /\ x \in {"failed", "selected"} /\ run' = [run EXCEPT ![s].pc = x]
               /\ agent' = [agent EXCEPT ![s] = ag] /\ run[s].pc = "next"
               /\ UNCHANGED <<result, net, answered>>
  <2>1. PICK x : x = IF ag.state = "failed" THEN "failed" ELSE "selected"
    OBVIOUS
  <2> QED
    BY <1>1, <2>1 DEF Fallback
<1>3. PICK ps : ps = agent[s].pairs
  OBVIOUS
<1>4. IsSeq(ps) /\ ListOK(ps, answered) /\ DOMAIN ps = 1 .. Len(ps) /\ Len(ps) \in Nat
  BY <1>0, <1>3, SeqFacts DEF SideGood, ListOK
<1>5. PICK hosts : hosts = {i \in DOMAIN ps : ps[i].local.type = "host" /\ ps[i].remote.type = "host"}
  OBVIOUS
<1>6. PICK best : best = IF hosts # {} THEN Min(hosts) ELSE 1
  OBVIOUS
<1>7. ps # <<>> => best \in DOMAIN ps
  <2>1. CASE hosts # {}
    <3>1. hosts \subseteq Nat
      BY <1>4, <1>5
    <3>2. \E i \in hosts : \A y \in hosts : ~(<<y, i>> \in OpToRel(<, Nat))
      BY <2>1, <3>1, NatLessThanWellFounded, WFMin
    <3>3. PICK i \in hosts : \A y \in hosts : ~(y < i)
      BY <3>1, <3>2 DEF OpToRel
    <3>4. \A y \in hosts : i <= y
      BY <3>1, <3>3
    <3>5. Min(hosts) \in hosts
      BY <3>4 DEF Min
    <3> QED
      BY <1>5, <1>6, <2>1, <3>5
  <2>2. CASE hosts = {} /\ ps # <<>>
    <3>1. Len(ps) # 0
      BY <1>4, <2>2 DEF IsSeq
    <3> QED
      BY <1>4, <1>6, <2>2, <3>1
  <2> QED
    BY <2>1, <2>2
<1>8. /\ ag.local = agent[s].local /\ ag.remote = agent[s].remote /\ ag.pairs = ps
      /\ ag.selected = agent[s].selected \/ (ps # <<>> /\ ag.selected = ps[best])
  <2>1. \/ ag = [agent[s] EXCEPT !.state = "failed"]
        \/ ps # <<>> /\ ag = [agent[s] EXCEPT !.selected = ps[best], !.state = "connected"]
    BY <1>1, <1>3, <1>5, <1>6 DEF FallbackSelection
  <2> QED
    BY <1>0, <1>3, <2>1 DEF IsAgent, AgentFields
<1>9. Backed(ag.selected, answered)
  BY <1>0, <1>4, <1>7, <1>8 DEF SideGood, ListOK
<1>10. result[s] = NoResult
  BY <1>0, <1>2 DEF SideGood
<1>11. PICK r : run' = [run EXCEPT ![s] = r] /\ r.pc = x /\ r.txn = run[s].txn
  <2>1. /\ run' = [run EXCEPT ![s] = At(run[s], x)]
        /\ At(run[s], x).pc = x /\ At(run[s], x).txn = run[s].txn
    BY <1>2, RunPc
  <2> QED
    BY <2>1
<1>12. SideGood(ag, r, result[s], answered)
  BY <1>0, <1>2, <1>4, <1>8, <1>9, <1>10, <1>11 DEF SideGood
<1>13. /\ UNCHANGED <<result, net, answered>> /\ agent' = [agent EXCEPT ![s] = ag]
       /\ r.pc = "wait" => run[s].pc = "wait" /\ r.todo = run[s].todo
  BY <1>2, <1>11
<1> QED
  BY <1>11, <1>12, <1>13, QuietUse

LEMMA EndUse ==
    ASSUME UseInv, IceInv, NEW s \in Sides, EndRun(s) \/ DropRun(s) \/ CloseSession(s)
    PROVE  UseInv'
<1>0. /\ SideGood(agent[s], run[s], result[s], answered) /\ IsAgent(agent[s])
      /\ agent = [t \in Sides |-> agent[t]] /\ result = [t \in Sides |-> result[t]] /\ NetOK
  BY DEF UseInv, IceInv
<1>1. UNCHANGED <<net, answered>>
  BY DEF EndRun, DropRun, CloseSession
<1>2. ASSUME NEW x, x # "wait", run' = [run EXCEPT ![s].pc = x],
             NEW ag, agent' = [agent EXCEPT ![s] = ag],
             NEW res, result' = [result EXCEPT ![s] = res],
             \A r : r.pc = x /\ r.txn = run[s].txn => SideGood(ag, r, res, answered)
      PROVE  UseInv'
  <2>1. PICK r : run' = [run EXCEPT ![s] = r] /\ r.pc = x /\ r.txn = run[s].txn
    <3>1. /\ run' = [run EXCEPT ![s] = At(run[s], x)]
          /\ At(run[s], x).pc = x /\ At(run[s], x).txn = run[s].txn
      BY <1>2, RunPc
    <3> QED
      BY <3>1
  <2>2. SideGood(ag, r, res, answered') /\ answered \subseteq answered' /\ net' \subseteq net
    BY <1>1, <1>2, <2>1
  <2>3. r.txn = run[s].txn /\ (r.pc = "wait" => run[s].pc = "wait" /\ r.todo = run[s].todo)
    BY <1>2, <2>1
  <2>4. NetOK'
    BY <1>0, <2>1, <2>2, <2>3, NetSame
  <2> QED
    BY <1>2, <2>1, <2>2, <2>4, SideUse
<1>3. CASE EndRun(s)
  <2>1. run[s].pc = "selected" /\ result[s] = NoResult
    BY <1>0, <1>3 DEF EndRun, SideGood
  <2>2. CASE Validated(agent[s])
    <3>1. PICK ag : ag = StopResponders(agent[s])
      OBVIOUS
    <3>2. PICK res : res = [socket |-> agent[s].selected.local.base,
                            peer |-> agent[s].selected.remote.addr]
      OBVIOUS
    <3>3. /\ agent' = [agent EXCEPT ![s] = ag] /\ result' = [result EXCEPT ![s] = res]
          /\ run' = [run EXCEPT ![s].pc = "ok"]
      BY <1>3, <2>2, <3>1, <3>2 DEF EndRun
    <3>4. /\ ag.local = agent[s].local /\ ag.remote = agent[s].remote /\ ag.pairs = agent[s].pairs
          /\ ag.selected = agent[s].selected /\ ag.tasks = {} /\ ag.sockets = agent[s].sockets
      BY <1>0, <3>1 DEF StopResponders, IsAgent, AgentFields
    <3>5. <<res.socket, res.peer>> \in answered /\ res.socket \in agent[s].sockets
      BY <1>0, <2>2, <3>2 DEF Validated, SideGood, Backed
    <3>6. \A r : r.pc = "ok" /\ r.txn = run[s].txn => SideGood(ag, r, res, answered)
      BY <1>0, <3>4, <3>5 DEF SideGood
    <3> QED
      BY <1>2, <3>3, <3>6
  <2>3. CASE ~Validated(agent[s])
    <3>1. agent' = agent /\ result' = result /\ run' = [run EXCEPT ![s].pc = "failed"]
      BY <1>3, <2>3 DEF EndRun
    <3>2. PICK ag, res : ag = agent[s] /\ res = result[s]
      OBVIOUS
    <3>3. agent' = [agent EXCEPT ![s] = ag] /\ result' = [result EXCEPT ![s] = res]
      BY <1>0, <3>1, <3>2
    <3>4. \A r : r.pc = "failed" /\ r.txn = run[s].txn => SideGood(ag, r, res, answered)
      BY <1>0, <2>1, <3>2 DEF SideGood
    <3> QED
      BY <1>2, <3>1, <3>3, <3>4
  <2> QED
    BY <2>2, <2>3
<1>4. CASE DropRun(s)
  <2>1. /\ run[s].pc = "wait" /\ agent' = agent /\ result' = result
        /\ run' = [run EXCEPT ![s].pc = "failed"]
    BY <1>4 DEF DropRun
  <2>2. PICK ag, res : ag = agent[s] /\ res = result[s]
    OBVIOUS
  <2>3. agent' = [agent EXCEPT ![s] = ag] /\ result' = [result EXCEPT ![s] = res]
    BY <1>0, <2>1, <2>2
  <2>4. \A r : r.pc = "failed" /\ r.txn = run[s].txn => SideGood(ag, r, res, answered)
    BY <1>0, <2>1, <2>2 DEF SideGood
  <2> QED
    BY <1>2, <2>1, <2>3, <2>4
<1>5. CASE CloseSession(s)
  <2>1. PICK ag : ag = Close(agent[s])
    OBVIOUS
  <2>2. /\ agent' = [agent EXCEPT ![s] = ag] /\ result' = result
        /\ run' = [run EXCEPT ![s].pc = "closed"]
    BY <1>5, <2>1 DEF CloseSession
  <2>3. /\ ag.local = agent[s].local /\ ag.remote = agent[s].remote /\ ag.pairs = agent[s].pairs
        /\ ag.selected = agent[s].selected /\ ag.tasks = {}
    BY <1>0, <2>1 DEF Close, IsAgent, AgentFields
  <2>4. result' = [result EXCEPT ![s] = result[s]]
    BY <1>0, <2>2
  <2>5. \A r : r.pc = "closed" /\ r.txn = run[s].txn => SideGood(ag, r, result[s], answered)
    BY <1>0, <2>3 DEF SideGood
  <2> QED
    BY <1>2, <2>2, <2>4, <2>5
<1> QED
  BY <1>3, <1>4, <1>5

LEMMA DispatchRequestUse ==
    ASSUME UseInv, IceInv, NEW s \in Sides, DispatchRequest(s)
    PROVE  UseInv'
<1>1. PICK m \in net : /\ net' = (net \ {m}) \cup {[m EXCEPT !.kind = "response"]}
                       /\ answered' = answered \cup {<<m.from, m.to>>}
                       /\ UNCHANGED <<agent, run, result>> /\ m.kind = "request"
  BY DEF DispatchRequest
<1>2. ASSUME NEW t \in Sides PROVE SideGood(agent[t], run[t], result[t], answered')
  BY <1>1, MoreDone DEF UseInv
<1>3. PICK back : back = [m EXCEPT !.kind = "response"]
  OBVIOUS
<1>4. back.from = m.from /\ back.to = m.to /\ back.txn = m.txn
  BY <1>3
<1>5. NetOK'
  <2> SUFFICES ASSUME NEW x \in net'
               PROVE  /\ x.txn[1] \in Sides /\ x.txn[2] \in Nat /\ x.txn[2] <= run[x.txn[1]].txn
                      /\ x.kind = "response" => <<x.from, x.to>> \in answered'
                      /\ \A t \in Sides : run[t].pc = "wait" /\ x.txn = <<t, run[t].txn>> =>
                            x.from = CheckFrom(run[t]) /\ x.to = CheckTo(run[t])
    BY <1>1 DEF NetOK, CheckFrom, CheckTo
  <2>1. CASE x = back
    BY <1>1, <1>4, <2>1 DEF UseInv, NetOK
  <2>2. CASE x \in net
    BY <1>1, <2>2 DEF UseInv, NetOK
  <2> QED
    BY <1>1, <1>3, <2>1, <2>2
<1> QED
  BY <1>1, <1>2, <1>5 DEF UseInv

LEMMA DispatchResponseUse ==
    ASSUME UseInv, IceInv, NEW s \in Sides, DispatchResponse(s)
    PROVE  UseInv'
<1>0. /\ SideGood(agent[s], run[s], result[s], answered) /\ IsAgent(agent[s]) /\ NetOK
      /\ IsRun(run[s]) /\ result = [t \in Sides |-> result[t]] /\ run = [t \in Sides |-> run[t]]
  BY DEF UseInv, IceInv
<1>a. PICK m \in net :
         /\ m.kind = "response" /\ net' = net \ {m}
         /\ agent' = [agent EXCEPT ![s] = Forget(agent[s], m.txn)]
         /\ run' = [run EXCEPT ![s].got = run[s].got \/
               (m.txn \in agent[s].pending /\ run[s].pc = "wait" /\ m.txn = <<s, run[s].txn>>)]
         /\ UNCHANGED <<result, answered>>
  BY DEF DispatchResponse
<1>b. PICK x : x = (run[s].got \/
               (m.txn \in agent[s].pending /\ run[s].pc = "wait" /\ m.txn = <<s, run[s].txn>>))
  OBVIOUS
<1>1. /\ m.kind = "response" /\ net' \subseteq net
      /\ agent' = [agent EXCEPT ![s] = Forget(agent[s], m.txn)]
      /\ run' = [run EXCEPT ![s].got = x]
      /\ x => run[s].got \/ (run[s].pc = "wait" /\ m.txn = <<s, run[s].txn>>)
      /\ UNCHANGED <<result, answered>>
  <2>1. run' = [run EXCEPT ![s].got = x]
    BY Zenon, <1>a, <1>b
  <2>2. x => run[s].got \/ (run[s].pc = "wait" /\ m.txn = <<s, run[s].txn>>)
    BY Zenon, <1>b
  <2>3. net' \subseteq net
    BY <1>a
  <2> QED
    BY <1>a, <2>1, <2>2, <2>3
<1>2. PICK r : r = [run[s] EXCEPT !.got = x]
  OBVIOUS
<1>3. /\ run' = [run EXCEPT ![s] = r] /\ r.got = x /\ r.pc = run[s].pc /\ r.txn = run[s].txn
      /\ r.todo = run[s].todo
  BY <1>0, <1>1, <1>2 DEF IsRun, RunFields
<1>4. PICK ag : ag = Forget(agent[s], m.txn)
  OBVIOUS
<1>5. /\ ag.local = agent[s].local /\ ag.remote = agent[s].remote /\ ag.pairs = agent[s].pairs
      /\ ag.selected = agent[s].selected /\ ag.tasks = agent[s].tasks
      /\ ag.sockets = agent[s].sockets
  BY <1>0, <1>4 DEF Forget, IsAgent, AgentFields
<1>6. r.pc = "wait" /\ r.got => <<CheckFrom(r), CheckTo(r)>> \in answered
  <2>1. CheckFrom(r) = CheckFrom(run[s]) /\ CheckTo(r) = CheckTo(run[s])
    BY <1>3 DEF CheckFrom, CheckTo
  <2>2. CASE run[s].got
    BY <1>0, <1>3, <2>1, <2>2 DEF SideGood
  <2>3. CASE run[s].pc = "wait" /\ m.txn = <<s, run[s].txn>>
    <3>1. m.from = CheckFrom(run[s]) /\ m.to = CheckTo(run[s]) /\ <<m.from, m.to>> \in answered
      BY <1>0, <1>1, <2>3 DEF NetOK
    <3> QED
      BY <2>1, <3>1
  <2> QED
    BY <1>1, <1>3, <2>2, <2>3
<1>7. SideGood(ag, r, result[s], answered')
  BY <1>0, <1>1, <1>3, <1>5, <1>6 DEF SideGood
<1>8. /\ agent' = [agent EXCEPT ![s] = ag] /\ answered \subseteq answered' /\ net' \subseteq net
      /\ result' = [result EXCEPT ![s] = result[s]]
  BY <1>0, <1>1, <1>4
<1>9. NetOK'
  BY <1>0, <1>3, <1>8, NetSame
<1> QED
  BY <1>3, <1>7, <1>8, <1>9, SideUse

\* A session hands out a socket and a peer address only if the peer answered a
\* check that went from this socket to this address, and no dispatcher reads
\* that socket any more: for every set of hosts, mappings and networks, every
\* loss and delay of STUN messages, dropped calls and later runs of the checks.
THEOREM SessionsAreUsable == IceSpec => []SessionIsUsable
<1>1. IceInit => IceInv /\ UseInv
  <2> SUFFICES ASSUME IceInit PROVE IceInv /\ UseInv
    OBVIOUS
  <2>1. IceInv
    BY IceInitInv
  <2>2. IsSeq(<<>>) /\ \A done : ListOK(<<>>, done)
    <3>1. <<>> \in Seq({}) /\ DOMAIN <<>> = {}
      OBVIOUS
    <3>2. IsSeq(<<>>) /\ DOMAIN <<>> = {}
      BY Zenon, <3>1, SeqIs
    <3> QED
      BY <3>2 DEF ListOK
  <2>3. \A done : Backed(NoPair, done)
    BY DEF Backed, NoPair
  <2>4. ASSUME NEW s \in Sides PROVE SideGood(agent[s], run[s], result[s], answered)
    BY <2>2, <2>3 DEF SideGood, IceInit, New, Idle
  <2> QED
    BY <2>1, <2>4 DEF UseInv, IceInit, NetOK
<1>2. IceInv /\ UseInv /\ [IceNext]_iceVars => IceInv' /\ UseInv'
  <2> SUFFICES ASSUME IceInv, UseInv, [IceNext]_iceVars PROVE IceInv' /\ UseInv'
    OBVIOUS
  <2>1. IceInv'
    BY IceNextInv
  <2>2. CASE UNCHANGED iceVars
    <3>1. /\ agent' = agent /\ run' = run /\ result' = result /\ net' = net
          /\ answered' = answered
      BY <2>2 DEF iceVars
    <3>2. NetOK'
      BY <3>1 DEF UseInv, NetOK, CheckFrom, CheckTo
    <3>3. ASSUME NEW s \in Sides PROVE SideGood(agent'[s], run'[s], result'[s], answered')
      BY <3>1 DEF UseInv
    <3> QED
      BY <2>1, <3>1, <3>2, <3>3 DEF UseInv
  <2>3. ASSUME NEW s \in Sides, SideNext(s) PROVE UseInv'
    BY <2>3, GatherUse, RunChecksUse, BeginCheckUse, CheckAnsweredUse, CheckTimeoutUse, FallbackUse,
       EndUse, DispatchRequestUse, DispatchResponseUse DEF SideNext
  <2> QED
    BY <2>1, <2>2, <2>3 DEF IceNext
<1> QED
  BY <1>1, <1>2, UseImplies, PTL DEF IceSpec
=============================================================================
