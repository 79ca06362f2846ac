------------------------------ MODULE DtmfLink ------------------------------
(***************************************************************************)
(* rtp/dtmf.rs: a DtmfSender turns a key press into telephone-event        *)
(* packets, a DtmfReceiver turns packets into digits.  The receiver looks  *)
(* at the digit and the end bit only, not at timestamps, so two presses of *)
(* one key are told apart by the packets between them.                     *)
(* The network keeps the order and may lose any packet.  Left out: the RTP *)
(* header, volume and duration.                                            *)
(***************************************************************************)
EXTENDS Integers, Sequences, SequencesExt

CONSTANTS Digits,
          Durations,   \* packets of a press before the repeated end packets
          MaxPresses   \* bound: key presses

NoDigit == "none"

ASSUME DtmfAssumption == Durations \subseteq Nat \ {0} /\ NoDigit \notin Digits

VARIABLES pressed,     \* the digits pressed
          channel,     \* packets under way, oldest first
          receiver,    \* current_event and last_event of the DtmfReceiver
          reported,    \* the digits process_packet returned
          lost         \* whether a packet was lost

dlVars == <<pressed, channel, receiver, reported, lost>>

\* generate_packets: the last packet carries the end bit and is sent 3 times.
generate_packets(digit, count) ==
  [i \in 1 .. count + 2 |-> [digit |-> digit, end |-> i >= count]]

NewDtmfReceiver == [current_event |-> NoDigit, last_event |-> NoDigit]

\* Mutant: the start of an event does not clear the last one.
process_packet_KeepsLast(r, p) ==
  IF p.end THEN [current_event |-> NoDigit, last_event |-> p.digit]
           ELSE [current_event |-> p.digit, last_event |-> r.last_event]

\* process_packet: the receiver afterwards, and what is returned.
process_packet(r, p) ==
  IF p.end THEN [current_event |-> NoDigit, last_event |-> p.digit]
           ELSE [current_event |-> p.digit, last_event |-> NoDigit]

Returned(r, p) == IF p.end /\ r.last_event # p.digit THEN <<p.digit>> ELSE <<>>

-----------------------------------------------------------------------------
DlInit ==
  /\ pressed = <<>> /\ channel = <<>> /\ reported = <<>>
  /\ receiver = NewDtmfReceiver /\ lost = FALSE

Press(digit, count) ==
  /\ Len(pressed) < MaxPresses
  /\ pressed' = Append(pressed, digit)
  /\ channel' = channel \o generate_packets(digit, count)
  /\ UNCHANGED <<receiver, reported, lost>>

Deliver ==
  /\ channel # <<>>
  /\ channel' = Tail(channel)
  /\ receiver' = process_packet(receiver, Head(channel))
  /\ reported' = reported \o Returned(receiver, Head(channel))
  /\ UNCHANGED <<pressed, lost>>

Lose ==
  /\ channel # <<>>
  /\ channel' = Tail(channel)
  /\ lost' = TRUE
  /\ UNCHANGED <<pressed, receiver, reported>>

\* reset forgets the event in progress.
ResetReceiver ==
  /\ channel = <<>> /\ receiver # NewDtmfReceiver
  /\ receiver' = NewDtmfReceiver
  /\ UNCHANGED <<pressed, channel, reported, lost>>

DlNext ==
  \/ \E digit \in Digits, count \in Durations : Press(digit, count)
  \/ Deliver
  \/ Lose
  \/ ResetReceiver

DlSpec == DlInit /\ [][DlNext]_dlVars

-----------------------------------------------------------------------------
(* Without loss every press is reported, if no press is so short that all its
   packets carry the end bit (Durations without 1: 100 ms and more). *)
EveryPressReported == 1 \notin Durations /\ channel = <<>> /\ ~lost => reported = pressed
=============================================================================
