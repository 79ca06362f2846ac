---------------------------- MODULE MediaStream -----------------------------
(***************************************************************************)
(* One direction of a call's audio: the MediaSession of the sender         *)
(* (encode_audio), an SrtpContext that the application puts on either      *)
(* side, a network that loses, repeats, reorders and damages packets, and  *)
(* the MediaSession of the receiver (receive_rtp, get_audio_frame) with    *)
(* its statistics and its jitter buffer.  Packets are numbered in the      *)
(* order of sending; numbers are not part of a packet, they are what the   *)
(* properties compare with.                                                *)
(***************************************************************************)
EXTENDS SrtpContext, JitterBuffer

CONSTANTS InitSeqs, InitStamps,   \* where the random counters may start
          Gaps,                   \* pauses between talkspurts, in samples
          MaxPackets, MaxArrivals, MaxFrames   \* bounds of an instance

\* u16 and u32 counters.
ASSUME StreamAssumption ==
  /\ InitSeqs \subseteq Seqs /\ InitStamps \subseteq 0 .. TsSpace - 1
  /\ Gaps \subseteq Nat /\ MaxPackets \in Nat

VARIABLES
  start,      \* the first sequence number and timestamp
  tx,         \* the sender's RtpSession
  txc,        \* the sender's SrtpContext
  sent,       \* all packets sent so far
  rxc,        \* the receiver's SrtpContext
  rx,         \* the receiver's statistics
  jb,         \* the receiver's jitter buffer
  lastPlayed, \* the last packet played
  arrivals, frames,               \* arrivals and frames so far
  first, highest, jumped, synced, cleared
     \* history: the first and the highest number in the statistics, whether
     \* a packet was half the number space or more away from the highest,
     \* whether the last genuine packet came near the receiver's index and
     \* was refused, packets cleared by reset

sending   == <<start, tx, txc, sent>>
receiving == <<rxc, rx, jb, lastPlayed>>
history   == <<first, highest, jumped, synced, cleared>>
msVars    == <<sending, receiving, arrivals, frames, history>>

MsInit ==
  /\ start \in [seq : InitSeqs, ts : InitStamps]
  /\ tx = NewSender(start.seq, start.ts)
  /\ txc = NewContext /\ sent = {}
  /\ rxc = NewContext /\ rx = NewReceiver /\ jb = NewJitterBuffer
  /\ lastPlayed = NothingPlayed
  /\ arrivals = 0 /\ frames = 0
  /\ first = -1 /\ highest = -1 /\ jumped = FALSE /\ synced = TRUE /\ cleared = 0

-----------------------------------------------------------------------------
(* The sender: create_packet and protect. *)

Sends(session, ts) ==
  /\ Cardinality(sent) < MaxPackets
  /\ tx' = session
  /\ txc' = protect(txc, tx.next_seq)
  /\ sent' = sent \cup {[n |-> Cardinality(sent), seq |-> tx.next_seq, ts |-> ts,
                         roc |-> txc'.sender_roc]}
  /\ UNCHANGED <<start, receiving, arrivals, frames, history>>

encode_audio == Sends(create_packet(tx, Spp), tx.current_timestamp)

\* The first packet after a pause carries the timestamp of the new talkspurt.
TalkspurtAt(gap) ==
  LET ts == (tx.current_timestamp + gap) % TsSpace
  IN Sends(create_packet_at(tx, ts), ts)

-----------------------------------------------------------------------------
(* The receiver. *)

Plays(j) == PoppedPacket(j) # NothingPlayed

\* A frame is taken out of the buffer j, which pop leaves as jb'.
Pops(j) ==
  /\ jb' = pop(j)
  /\ lastPlayed' = IF Plays(j) THEN PoppedPacket(j) ELSE lastPlayed
  /\ frames' = frames + 1

\* receive_rtp on an accepted packet: statistics, decoder, push, and a pop if
\* the buffer is primed.
receive_rtp(p, decoded) ==
  /\ rx' = receive_packet(rx, p.seq)
  /\ \/ /\ ~decoded
        /\ UNCHANGED <<jb, lastPlayed, frames>>
     \/ /\ decoded
        /\ \E target \in IF Stores(jb, p.ts) THEN adapt_delay(jb.target_delay)
                                             ELSE {jb.target_delay} :
             LET j == push(jb, [n |-> p.n, ts |-> p.ts], target) IN
             IF j.primed THEN frames < MaxFrames /\ Pops(j)
             ELSE jb' = j /\ UNCHANGED <<lastPlayed, frames>>

RxIndex == IndexOf(rxc.receiver_roc, rxc.highest_seq)
TrueIndex(p) == start.seq + p.n
Distance(a, b) == IF a > b THEN a - b ELSE b - a

\* The statistics' view of the true numbers.
Counted(p) ==
  /\ first' = IF first = -1 THEN p.n ELSE first
  /\ highest' = Max({highest, p.n})
  /\ jumped' = (jumped \/ (highest # -1 /\ Distance(p.n, highest) >= Half))

\* A packet arrives, damaged or not; the receiver sees its sequence number.
Arrive(p, unaltered, decoded) ==
  /\ arrivals < MaxArrivals
  /\ arrivals' = arrivals + 1
  /\ rxc' = unprotect(rxc, p.seq, p.roc, unaltered)
  /\ synced' = (\/ ~unaltered \/ rxc.first_packet
                \/ Distance(TrueIndex(p), RxIndex) >= Half
                \/ Accepts(rxc, p.seq, p.roc, unaltered))
  /\ \/ /\ Accepts(rxc, p.seq, p.roc, unaltered)
        /\ receive_rtp(p, decoded)
        /\ Counted(p)
     \/ /\ ~Accepts(rxc, p.seq, p.roc, unaltered)
        /\ UNCHANGED <<rx, jb, lastPlayed, frames, first, highest, jumped>>
  /\ UNCHANGED <<sending, cleared>>

\* The application plays a frame on its own clock.
get_audio_frame ==
  /\ frames < MaxFrames
  /\ Pops(jb)
  /\ UNCHANGED <<sending, rxc, rx, arrivals, history>>

\* The buffer is reset, which drops what it holds.
ResetBuffer ==
  /\ jb.next_playout_ts # NoTs
  /\ jb' = reset(jb)
  /\ cleared' = cleared + Cardinality(jb.packets)
  /\ lastPlayed' = NothingPlayed
  /\ UNCHANGED <<sending, rxc, rx, arrivals, frames,
                 first, highest, jumped, synced>>

MsNext ==
  \/ encode_audio
  \/ \E gap \in Gaps : TalkspurtAt(gap)
  \/ \E p \in sent, unaltered \in BOOLEAN, decoded \in BOOLEAN :
       Arrive(p, unaltered, decoded)
  \/ get_audio_frame
  \/ ResetBuffer

MsSpec == MsInit /\ [][MsNext]_msVars

-----------------------------------------------------------------------------
(* The packet index survives the wrap of the sequence number on both sides:
   the sender protects no two packets under one index, and the receiver
   accepts a genuine packet less than half the number space away from its
   index, in whatever order the packets around a wrap arrive. *)
InWindowAccepted ==
  /\ \A p \in sent : IndexOf(p.roc, p.seq) = TrueIndex(p)
  /\ synced

(* The statistics are true.  The packets expected are those really numbered,
   as long as no packet is half the number space away from the highest one;
   and every accepted packet is played, refused as late or as a duplicate,
   still stored, or was dropped with a reset: none disappears. *)
StatisticsTrue ==
  /\ rx.initialized /\ ~jumped => rx.expected_packets = highest - first + 1
  /\ jb.stats.received = jb.stats.played + jb.stats.late + jb.stats.duplicate
                           + Cardinality(jb.packets) + cleared

\* Time since the start of the stream; an instance is shorter than a wrap.
MediaTime(p) == (p.ts - start.ts) % TsSpace

(* Playout never goes back in the time of the sender, through a wrap of the
   timestamp, unless the buffer is reset. *)
PlayedInOrder ==
  [][\/ lastPlayed' \in {lastPlayed, NothingPlayed}
     \/ lastPlayed = NothingPlayed
     \/ MediaTime(lastPlayed') >= MediaTime(lastPlayed)]_msVars
=============================================================================
