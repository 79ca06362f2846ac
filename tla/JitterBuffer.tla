---------------------------- MODULE JitterBuffer ----------------------------
(***************************************************************************)
(* media/jitter.rs: packets are stored by timestamp and played out one     *)
(* frame at a time, in the order of the playout timestamp.                 *)
(*                                                                         *)
(* The jitter estimate follows the arrival times, which are arbitrary: the *)
(* target delay after a push is any value the estimate allows.  Samples    *)
(* are represented by the number of the packet they come from.  next_seq   *)
(* is written and never read by the code, and is left out.                 *)
(***************************************************************************)
EXTENDS RtpStream, FiniteSetsExt

CONSTANTS Spp,         \* samples_per_packet
          MinDelay,    \* min_delay_ms in samples
          MaxDelay,    \* max_delay_ms in samples
          InitialDelay \* initial_delay_ms in samples

ASSUME JitterAssumption ==
  /\ Spp \in Nat \ {0} /\ MinDelay \in Nat /\ MaxDelay \in Nat
  /\ InitialDelay \in Nat /\ MinDelay <= MaxDelay

NoTs == -1
NoStats == [received |-> 0, played |-> 0, lost |-> 0, late |-> 0, duplicate |-> 0]

NewJitterBuffer ==
  [packets |-> {}, target_delay |-> InitialDelay, next_playout_ts |-> NoTs,
   primed |-> FALSE, stats |-> NoStats]

timestamp_before(a, b) == timestamp_diff(a, b) < 0

\* adapt_delay: the target moves towards twice the jitter, kept within the
\* limits, by a fraction of the distance (a quarter up, a sixteenth down).
adapt_delay(target) ==
  {target + (new - target) \div 4 : new \in {n \in MinDelay .. MaxDelay : n > target}}
    \cup {target - (target - new) \div 16 : new \in {n \in MinDelay .. MaxDelay : n <= target}}

-----------------------------------------------------------------------------
(* push: the buffer afterwards, for the target delay adapt_delay arrives at. *)

\* Mutant: every packet moves the playout timestamp, not only the first.
Received_Moves(j, ts) ==
  [j EXCEPT !.stats.received = @ + 1, !.next_playout_ts = ts]

Received(j, ts) ==
  [j EXCEPT !.stats.received = @ + 1,
            !.next_playout_ts = IF @ = NoTs THEN ts ELSE @]

IsDuplicate(j, ts) == \E q \in j.packets : q.ts = ts
IsLate(j, ts)      == timestamp_before(ts, Received(j, ts).next_playout_ts)
Stores(j, ts)      == ~IsDuplicate(j, ts) /\ ~IsLate(j, ts)

push(j, p, target) ==
  LET r == Received(j, p.ts)
      stored == r.packets \cup {p}
      needed == Max({target \div Spp, 1})
  IN IF IsDuplicate(j, p.ts) THEN [r EXCEPT !.stats.duplicate = @ + 1]
     ELSE IF IsLate(j, p.ts) THEN [r EXCEPT !.stats.late = @ + 1]
     ELSE [r EXCEPT !.packets = stored,
                    !.target_delay = target,
                    !.primed = @ \/ Cardinality(stored) >= needed]

-----------------------------------------------------------------------------
(* pop: the decision, the packet it plays and the buffer afterwards. *)

NothingPlayed == [n |-> -1, ts |-> NoTs]

\* The first key of the BTreeMap: the smallest timestamp as a number.
FirstKey(j) == Min({q.ts : q \in j.packets})
PacketAt(j, ts) == CHOOSE q \in j.packets : q.ts = ts

\* Nothing is stored for the playout timestamp.  The buffer jumps ahead when
\* the first packet is far away.
SkipsAhead(j) ==
  /\ j.packets # {}
  /\ LET gap == timestamp_diff(FirstKey(j), j.next_playout_ts)
     IN gap > Spp /\ gap > 2 * j.target_delay

Decision(j) ==
  CASE ~j.primed -> "Silence"
    [] j.primed /\ IsDuplicate(j, j.next_playout_ts) -> "Play"
    [] j.primed /\ ~IsDuplicate(j, j.next_playout_ts) /\ SkipsAhead(j) -> "Accelerate"
    [] OTHER -> "Conceal"

\* The packet whose samples pop returns, if any.
PoppedPacket(j) ==
  CASE Decision(j) = "Play"       -> PacketAt(j, j.next_playout_ts)
    [] Decision(j) = "Accelerate" -> PacketAt(j, FirstKey(j))
    [] OTHER -> NothingPlayed

\* next_playout_ts after a jump is the timestamp of the packet just played.
pop(j) ==
  LET next == (j.next_playout_ts + Spp) % TsSpace
      rest == j.packets \ {PoppedPacket(j)}
  IN CASE Decision(j) = "Silence" -> j
       [] Decision(j) = "Play" ->
            [j EXCEPT !.next_playout_ts = next, !.packets = rest, !.stats.played = @ + 1]
       [] Decision(j) = "Accelerate" ->
            [j EXCEPT !.next_playout_ts = FirstKey(j), !.packets = rest, !.stats.played = @ + 1]
       [] OTHER -> [j EXCEPT !.next_playout_ts = next, !.stats.lost = @ + 1]

\* reset: everything but the statistics starts again.
reset(j) == [NewJitterBuffer EXCEPT !.stats = j.stats]
=============================================================================
