------------------------------ MODULE RtpStream ------------------------------
(***************************************************************************)
(* rtp/session.rs and the sequence arithmetic of rtp/packet.rs: the        *)
(* sending half of an RtpSession numbers packets, the receiving half       *)
(* counts what arrives.  Sequence numbers and timestamps wrap; their       *)
(* widths are parameters, so that a wrap is a few packets away.            *)
(* Left out: SSRC, payload, marker, octet counts and the jitter estimate.  *)
(***************************************************************************)
EXTENDS Integers

CONSTANTS SeqSpace,   \* 2^16 in the code
          TsSpace     \* 2^32 in the code

ASSUME RtpAssumption ==
  /\ SeqSpace \in Nat /\ SeqSpace >= 4 /\ SeqSpace % 2 = 0
  /\ TsSpace \in Nat /\ TsSpace >= 4 /\ TsSpace % 2 = 0

Seqs == 0 .. SeqSpace - 1

\* a.wrapping_sub(b) read as a signed number of the same width.
SignedDiff(a, b, m) ==
  LET d == (a - b) % m IN IF d < m \div 2 THEN d ELSE d - m

sequence_diff(a, b)  == SignedDiff(a, b, SeqSpace)
timestamp_diff(a, b) == SignedDiff(a, b, TsSpace)

-----------------------------------------------------------------------------
(* The sender.  Both counters start anywhere (random_u16, random_u32). *)

NewSender(seq, ts) == [next_seq |-> seq, current_timestamp |-> ts]

\* create_packet: the packet carries next_seq and current_timestamp.
create_packet(s, samples) ==
  [next_seq          |-> (s.next_seq + 1) % SeqSpace,
   current_timestamp |-> (s.current_timestamp + samples) % TsSpace]

\* create_packet_at: the packet carries the timestamp of the caller, and the
\* session keeps it as the current one, without adding the samples.
create_packet_at(s, timestamp) ==
  [next_seq          |-> (s.next_seq + 1) % SeqSpace,
   current_timestamp |-> timestamp]

-----------------------------------------------------------------------------
(* The receiver statistics of receive_packet. *)

NewReceiver ==
  [initialized |-> FALSE, base_seq |-> 0, max_seq |-> 0,
   packets_lost |-> 0, expected_packets |-> 0]

\* Mutant: sequence numbers are compared without regard to the wrap.
receive_packet_NoWrap(r, seq) ==
  IF ~r.initialized
  THEN [initialized |-> TRUE, base_seq |-> seq, max_seq |-> seq,
        packets_lost |-> 0, expected_packets |-> 1]
  ELSE IF seq > r.max_seq
       THEN [r EXCEPT !.max_seq = seq,
                      !.expected_packets = @ + (seq - r.max_seq),
                      !.packets_lost = @ + (seq - r.max_seq - 1)]
       ELSE r

receive_packet(r, seq) ==
  LET diff == sequence_diff(seq, r.max_seq) IN
  IF ~r.initialized
  THEN [initialized |-> TRUE, base_seq |-> seq, max_seq |-> seq,
        packets_lost |-> 0, expected_packets |-> 1]
  ELSE IF diff > 0
       THEN [r EXCEPT !.max_seq = seq,
                      !.expected_packets = @ + diff,
                      !.packets_lost = @ + (diff - 1)]
       ELSE r
=============================================================================
