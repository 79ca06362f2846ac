--------------------------- MODULE RequestOutcome ---------------------------
(***************************************************************************)
(* What a SIP transaction pair promises its two users, whatever the        *)
(* network does: the server side decides a request once, and the client    *)
(* side either learns that decision or is told that the transaction gave   *)
(* up (timeout, transport error).  A decision in favour of the request can *)
(* still be learned after giving up: the 2xx to an INVITE that arrives     *)
(* late.                                                                   *)
(***************************************************************************)
VARIABLES decision, learned

Decisions == {"undecided", "accepted", "rejected"}

OutcomeInit == decision = "undecided" /\ learned = "pending"

Decide == /\ decision = "undecided"
          /\ decision' \in Decisions \ {"undecided"}
          /\ UNCHANGED learned

Learn == /\ learned = "pending"
         /\ decision # "undecided"
         /\ learned' = decision
         /\ UNCHANGED decision

GiveUp == /\ learned = "pending"
          /\ learned' = "gaveUp"
          /\ UNCHANGED decision

LearnLate == /\ learned = "gaveUp"
             /\ decision = "accepted"
             /\ learned' = "accepted"
             /\ UNCHANGED decision

OutcomeNext == Decide \/ Learn \/ GiveUp \/ LearnLate

OutcomeSpec == OutcomeInit /\ [][OutcomeNext]_<<decision, learned>>
=============================================================================
