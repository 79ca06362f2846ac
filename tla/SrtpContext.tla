----------------------------- MODULE SrtpContext -----------------------------
(***************************************************************************)
(* srtp/context.rs: the packet index of SRTP.  The index is the roll-over  *)
(* counter (ROC) and the sequence number; only the latter is sent, the     *)
(* receiver has to guess the former.  A context has one highest_seq for    *)
(* both directions.  Encryption is left out; the authentication tag covers *)
(* the packet and the ROC, so it verifies exactly when the packet is       *)
(* unaltered and the receiver's guess is the ROC the sender used.          *)
(***************************************************************************)
EXTENDS RtpStream

CONSTANT RocSpace     \* 2^32 in the code

ASSUME RocAssumption == RocSpace \in Nat /\ RocSpace >= 2

Half == SeqSpace \div 2

NewContext ==
  [sender_roc |-> 0, receiver_roc |-> 0, highest_seq |-> 0, first_packet |-> TRUE]

IndexOf(roc, seq) == roc * SeqSpace + seq

\* The sender's part of protect: the ROC the packet is protected under is the
\* sender_roc of the context afterwards.
protect(c, seq) ==
  [c EXCEPT !.sender_roc  = IF seq < Half /\ c.highest_seq > Half
                            THEN (@ + 1) % RocSpace ELSE @,
            !.highest_seq = seq]

\* Mutant: a packet from before the wrap is taken for one after it.
estimate_roc_Forward(roc, highest, seq) ==
  IF highest >= Half /\ seq < highest /\ highest - seq > Half THEN (roc + 1) % RocSpace ELSE roc

estimate_roc(roc, highest, seq) ==
  IF highest < Half
  THEN IF seq > highest /\ seq - highest > Half THEN (roc - 1) % RocSpace ELSE roc
  ELSE IF seq < highest /\ highest - seq > Half THEN (roc + 1) % RocSpace ELSE roc

\* What unprotect does before it verifies the tag: the first packet sets
\* highest_seq, whether it is genuine or not.
Primed(c, seq) ==
  IF c.first_packet THEN [c EXCEPT !.first_packet = FALSE, !.highest_seq = seq] ELSE c

GuessedRoc(c, seq) ==
  IF c.first_packet THEN 0 ELSE estimate_roc(c.receiver_roc, c.highest_seq, seq)

\* Whether unprotect returns the packet: sent under roc, unaltered or not.
Accepts(c, seq, roc, unaltered) == unaltered /\ GuessedRoc(c, seq) = roc

unprotect(c, seq, roc, unaltered) ==
  LET p == Primed(c, seq) IN
  IF /\ Accepts(c, seq, roc, unaltered)
     /\ IndexOf(roc, seq) > IndexOf(p.receiver_roc, p.highest_seq)
  THEN [p EXCEPT !.receiver_roc = roc, !.highest_seq = seq]
  ELSE p
=============================================================================
