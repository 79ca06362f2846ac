------------------------ MODULE ReliableProvisional -------------------------
(***************************************************************************)
(* Reliable provisional responses (RFC 3262) of one INVITE server          *)
(* transaction against the clock: the user sends up to MaxRel of them, the *)
(* peer's PRACKs arrive late, twice, out of order or never, and the one    *)
(* Timer N serves all outstanding entries.                                 *)
(***************************************************************************)
EXTENDS InviteServerTx

CONSTANTS
    Reliable,   \* transport flag of the transaction
    MaxRel      \* bound: reliable provisionals sent in a behaviour

ASSUME ReliableAssumption == Reliable \in BOOLEAN /\ MaxRel \in Nat

VARIABLES
    uas,     \* the transaction
    age,     \* RSeq -> ticks a provisional waited until it was given up
    acked,   \* RSeqs whose PRACK was taken
    given    \* RSeqs reported by PrackTimeout

rvars == <<uas, age, acked, given>>

RSeqs == 1 .. MaxRel

Reported(tx) == {e.rseq : e \in {x \in tx.ev : x.type = "PrackTimeout"}}

RelStep(next) ==
    /\ uas' = next
    /\ given' = given \cup Reported(next)
    /\ age' = [r \in RSeqs |-> IF r \in DOMAIN next.rel \cup given' THEN age[r] ELSE 0]

RelInit == /\ uas = ISNew
           /\ age = [r \in RSeqs |-> 0]
           /\ acked = {}
           /\ given = {}

SendReliable == /\ uas.nextRseq \in RSeqs
                /\ RelStep(ISSendProvisionalReliable(Polled(uas), 180))
                /\ UNCHANGED acked

SendFinal(code) == /\ RelStep(ISSendResponse(Polled(uas), code, Reliable))
                   /\ UNCHANGED acked

\* A PRACK for a provisional that was sent, first or again.
PrackArrives(rseq) ==
    /\ rseq < uas.nextRseq
    /\ RelStep(ISPrackReceived(Polled(uas), rseq))
    /\ acked' = IF rseq \in DOMAIN uas.rel THEN acked \cup {rseq} ELSE acked

RequestArrives(m) == /\ RelStep(ISHandleRequest(Polled(uas), m, Reliable))
                     /\ UNCHANGED acked

TimerExpires(t) == /\ uas.armed[t] = 0
                   /\ RelStep(ISHandleTimeout(Consumed(uas, t), t))
                   /\ UNCHANGED acked

TransportFails == /\ RelStep(ISHandleTransportError(Polled(uas)))
                  /\ UNCHANGED acked

RelTick == /\ Due(uas.armed) = {}
           /\ uas' = [Polled(uas) EXCEPT !.armed = Elapsed(@)]
           /\ age' = [r \in RSeqs |-> IF r \in DOMAIN uas.rel THEN age[r] + 1 ELSE age[r]]
           /\ UNCHANGED <<acked, given>>

RelNext == \/ SendReliable
           \/ \E code \in {200, 486} : SendFinal(code)
           \/ \E r \in RSeqs : PrackArrives(r)
           \/ \E m \in {"INVITE", "ACK"} : RequestArrives(m)
           \/ \E t \in ISTimer : TimerExpires(t)
           \/ TransportFails
           \/ RelTick

RelSpec == RelInit /\ [][RelNext]_rvars

-----------------------------------------------------------------------------
(* Properties.                                                             *)

\* Every reliable provisional has one fate: it waits, was acknowledged, was
\* given up, or was dropped with the final response, never two of them.  None
\* is given up before 64*T1, however Timer N is shared, moved by a PRACK or
\* joined by a later entry, and none is reported after a final response (the
\* comment on FinalSent).
OneFate ==
    /\ acked \cap given = {}
    /\ (acked \cup given) \cap DOMAIN uas.rel = {}
    /\ uas.final = "None" => 1 .. uas.nextRseq - 1 = acked \cup given \cup DOMAIN uas.rel
    /\ \A r \in given : age[r] >= 64 * T1
    /\ \A e \in uas.ev : e.type = "PrackTimeout" => e.final = "None" /\ uas.final = "None"

=============================================================================
