------------------------------ MODULE TxTimers ------------------------------
(***************************************************************************)
(* Timer values of the SIP transaction layer (transaction/timer.rs) and    *)
(* the part of a transaction that all four state machines share.           *)
(*                                                                         *)
(* Time is counted in ticks.  With the defaults of the code (T1 = 500ms,   *)
(* T2 = 4s, T4 = 5s, Timer D = 33s) and one tick = 500ms every duration    *)
(* is a whole number of ticks: T1 = 1, T2 = 8, T4 = 10, TD = 66.           *)
(*                                                                         *)
(* A transaction is a record.  `armed' holds, for each timer, the ticks    *)
(* until the owner of the transaction must call handle_timeout (Off: not   *)
(* scheduled): SetTimer and CancelTimer actions act on it.  `out' and `ev' *)
(* are the sets of Send and Event actions of the last call, drained by     *)
(* poll_actions before the next one.                                       *)
(***************************************************************************)
EXTENDS Integers

CONSTANTS
    T1,   \* round-trip estimate
    T2,   \* cap of the doubled retransmission interval
    T4,   \* longest life of a message in the network
    TD    \* Timer D, a fixed duration in the code

ASSUME TimerAssumption ==
    /\ T1 \in Nat \ {0}
    /\ T2 \in Nat /\ T1 <= T2
    /\ T4 \in Nat \ {0}
    /\ TD \in Nat \ {0}

Off == -1

Timer == {"A", "B", "D", "E", "F", "G", "H", "I", "J", "K", "N"}

-----------------------------------------------------------------------------
timer_a == T1
timer_b == 64 * T1
timer_d(reliable) == IF reliable THEN 0 ELSE TD
timer_e == T1
timer_f == 64 * T1
timer_g == T1
timer_h == 64 * T1
timer_i(reliable) == IF reliable THEN 0 ELSE T4
timer_j(reliable) == IF reliable THEN 0 ELSE 64 * T1
timer_k(reliable) == IF reliable THEN 0 ELSE T4

\* Exponential backoff, doubled up to T2.
next_retransmit(current) == IF 2 * current <= T2 THEN 2 * current ELSE T2

-----------------------------------------------------------------------------
\* Status classes: the state machines compare codes with 100, 200 and 300 only.
Provisional(code) == code \in 100..199
Success(code)     == code \in 200..299
Failure(code)     == code >= 300

\* The owner drained the actions of the previous call (poll_actions).
Polled(tx) == [tx EXCEPT !.out = {}, !.ev = {}]

\* A due timer is taken off the owner's schedule before it is handed in.
Consumed(tx, t) == [Polled(tx) EXCEPT !.armed[t] = Off]

\* One tick for every scheduled timer.
Elapsed(armed) == [t \in DOMAIN armed |-> IF armed[t] > 0 THEN armed[t] - 1
                                                          ELSE armed[t]]

Due(armed) == {t \in DOMAIN armed : armed[t] = 0}
=============================================================================
