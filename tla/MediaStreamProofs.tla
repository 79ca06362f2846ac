------------------------- MODULE MediaStreamProofs --------------------------
(***************************************************************************)
(* One direction of audio: the packet index of SRTP and the statistics of  *)
(* the receiver, for every width of the sequence number, the timestamp and *)
(* the roll-over counter, and for every loss, repetition and order; what   *)
(* the jitter buffer plays never goes back in time.  Then                  *)
(* the key presses beside it: each is reported once, in order (DtmfLink).  *)
(* Last, the offer and the answer that set the media up (SdpNegotiation).  *)
(***************************************************************************)
EXTENDS MediaStream, DtmfLink, SdpNegotiation, WellFoundedInduction, FiniteSetTheorems,
        SequenceTheorems, TLAPS

Packets == [n : Nat, seq : Seqs, ts : Nat, roc : 0 .. RocSpace - 1]

\* The stream is shorter than the index: 2^48 packets in the code.
IndexFits == SeqSpace + MaxPackets <= RocSpace * SeqSpace

-----------------------------------------------------------------------------
(* Arithmetic.                                                             *)

LEMMA SpaceFacts ==
    /\ SeqSpace \in Nat /\ SeqSpace >= 4 /\ Half \in Nat /\ SeqSpace = 2 * Half /\ Half >= 2
    /\ TsSpace \in Nat /\ TsSpace >= 4
    /\ RocSpace \in Nat /\ RocSpace >= 2
BY RtpAssumption, RocAssumption DEF Half

LEMMA ModFacts ==
    ASSUME NEW m \in Nat, m > 0, NEW x \in Int
    PROVE  /\ x % m \in 0 .. m - 1
           /\ 0 <= x /\ x < m => x % m = x
           /\ x < 0 /\ -m <= x => x % m = x + m
           /\ m <= x /\ x < 2 * m => x % m = x - m
OBVIOUS

\* Two indices less than two number spaces apart differ in the roll-over
\* counter by at most one.
LEMMA RocApart ==
    ASSUME NEW d \in Int, d * SeqSpace < 2 * SeqSpace, -(2 * SeqSpace) < d * SeqSpace
    PROVE  d \in {-1, 0, 1}
<1> USE SpaceFacts
<1>1. d >= 2 => d * SeqSpace >= 2 * SeqSpace
  OBVIOUS
<1>2. d <= -2 => d * SeqSpace <= -(2 * SeqSpace)
  OBVIOUS
<1> QED
  BY <1>1, <1>2

LEMMA MaxOfTwo ==
    ASSUME NEW a \in Int, NEW b \in Int
    PROVE  Max({a, b}) = IF a >= b THEN a ELSE b
<1>1. \E x \in {a, b} : \A y \in {a, b} : x >= y
  OBVIOUS
<1>2. Max({a, b}) \in {a, b} /\ \A y \in {a, b} : Max({a, b}) >= y
  BY <1>1 DEF Max
<1> QED
  BY <1>2

-----------------------------------------------------------------------------
(* The sender.                                                             *)

Contexts == [sender_roc : 0 .. RocSpace - 1, receiver_roc : 0 .. RocSpace - 1,
             highest_seq : Seqs, first_packet : BOOLEAN]

\* Where the sender stands after n packets: its context holds the index of
\* the last one and the session the sequence number of the next.
SenderAt(n) ==
  IF n = 0
  THEN txc.sender_roc = 0 /\ txc.highest_seq = 0 /\ tx.next_seq = start.seq
  ELSE /\ IndexOf(txc.sender_roc, txc.highest_seq) = start.seq + n - 1
       /\ tx.next_seq = (txc.highest_seq + 1) % SeqSpace

SenderInv ==
  /\ start \in [seq : Seqs, ts : 0 .. TsSpace - 1]
  /\ tx \in [next_seq : Seqs, current_timestamp : 0 .. TsSpace - 1]
  /\ txc \in Contexts
  /\ IsFiniteSet(sent) /\ Cardinality(sent) <= MaxPackets
  /\ SenderAt(Cardinality(sent))
  /\ \A p \in sent : /\ p \in Packets /\ p.n < Cardinality(sent)
                     /\ IndexOf(p.roc, p.seq) = TrueIndex(p)

\* protect moves the index on by one when the sequence number does.
LEMMA ProtectNext ==
    ASSUME IndexFits, NEW c \in Contexts, NEW i \in Nat, i + 1 < RocSpace * SeqSpace,
           IndexOf(c.sender_roc, c.highest_seq) = i,
           NEW s \in Seqs, s = (c.highest_seq + 1) % SeqSpace
    PROVE  /\ protect(c, s) \in Contexts
           /\ protect(c, s).highest_seq = s
           /\ IndexOf(protect(c, s).sender_roc, s) = i + 1
<1> USE SpaceFacts
<1> DEFINE r == c.sender_roc
           h == c.highest_seq
           q == IF s < Half /\ h > Half THEN (r + 1) % RocSpace ELSE r
<1>1. r \in 0 .. RocSpace - 1 /\ h \in 0 .. SeqSpace - 1
  BY DEF Contexts, Seqs
<1>2. protect(c, s).highest_seq = s /\ protect(c, s).sender_roc = q
  BY DEF protect, Contexts
<1>3. q \in 0 .. RocSpace - 1 /\ IndexOf(q, s) = i + 1
  <2>1. CASE h = SeqSpace - 1
    <3>1. s = 0
      BY <2>1, ModFacts
    <3>2. i = r * SeqSpace + SeqSpace - 1
      BY <2>1, <1>1 DEF IndexOf
    <3>3. r # RocSpace - 1
      BY <3>2, <1>1
    <3>4. q = r + 1
      <4>1. (r + 1) % RocSpace = r + 1
        BY <3>3, <1>1, ModFacts
      <4> QED
        BY <4>1, <3>1, <2>1
    <3> HIDE DEF q, r, h
    <3>5. (r + 1) * SeqSpace = r * SeqSpace + SeqSpace
      BY <1>1
    <3> QED
      BY <1>1, <3>1, <3>2, <3>3, <3>4, <3>5 DEF IndexOf
  <2>2. CASE h # SeqSpace - 1
    <3>1. s = h + 1
      BY <2>2, <1>1, ModFacts
    <3>2. q = r
      BY <3>1, <1>1
    <3> QED
      BY <3>1, <3>2, <1>1 DEF IndexOf
  <2> QED
    BY <2>1, <2>2
<1>4. protect(c, s) \in Contexts
  BY <1>3 DEF protect, Contexts
<1> QED
  BY <1>2, <1>3, <1>4

\* The first packet is protected under roll-over counter 0.
LEMMA ProtectFirst ==
    ASSUME NEW c \in Contexts, c.sender_roc = 0, c.highest_seq = 0, NEW s \in Seqs
    PROVE  /\ protect(c, s) \in Contexts
           /\ protect(c, s).highest_seq = s
           /\ protect(c, s).sender_roc = 0
<1>1. ~(c.highest_seq > Half) /\ 0 \in 0 .. RocSpace - 1
  BY SpaceFacts
<1>2. protect(c, s) = [c EXCEPT !.sender_roc = c.sender_roc, !.highest_seq = s]
  BY <1>1 DEF protect
<1> QED
  BY <1>1, <1>2 DEF Contexts

LEMMA SendKeeps ==
    ASSUME IndexFits, SenderInv, NEW session, NEW ts \in 0 .. TsSpace - 1,
           session \in [next_seq : Seqs, current_timestamp : 0 .. TsSpace - 1],
           session.next_seq = (tx.next_seq + 1) % SeqSpace,
           Sends(session, ts)
    PROVE  SenderInv'
<1> USE SpaceFacts, StreamAssumption
<1>0. PICK n : n = Cardinality(sent)
  OBVIOUS
<1> DEFINE p == [n |-> n, seq |-> tx.next_seq, ts |-> ts, roc |-> txc'.sender_roc]
<1>1. n \in Nat /\ n < MaxPackets /\ n + 1 <= MaxPackets
  BY <1>0, FS_CardinalityType DEF SenderInv, Sends
<1>2. /\ tx' = session /\ txc' = protect(txc, tx.next_seq) /\ sent' = sent \cup {p}
      /\ start' = start
  BY <1>0 DEF Sends
<1>3. tx.next_seq \in Seqs /\ txc \in Contexts /\ start.seq \in Seqs /\ SenderAt(n)
  BY <1>0 DEF SenderInv
<1>4. ~(p \in sent)
  <2>1. \A q \in sent : q.n < n
    BY <1>0 DEF SenderInv
  <2>2. p.n = n
    OBVIOUS
  <2> QED
    BY <1>1, <2>1, <2>2
<1> HIDE DEF p
<1>5. IsFiniteSet(sent') /\ Cardinality(sent') = n + 1
  BY <1>0, <1>2, <1>4, FS_AddElement DEF SenderInv
<1>6. /\ txc' \in Contexts /\ txc'.highest_seq = tx.next_seq
      /\ IndexOf(txc'.sender_roc, tx.next_seq) = start.seq + n
  <2>1. CASE n = 0
    <3>1. txc.sender_roc = 0 /\ txc.highest_seq = 0 /\ tx.next_seq = start.seq
      BY <1>3, <2>1 DEF SenderAt
    <3>2. /\ txc' \in Contexts /\ txc'.highest_seq = tx.next_seq /\ txc'.sender_roc = 0
      BY <1>2, <1>3, <3>1, ProtectFirst
    <3> QED
      BY <1>3, <2>1, <3>1, <3>2 DEF IndexOf, Seqs
  <2>2. CASE n # 0
    <3>1. /\ IndexOf(txc.sender_roc, txc.highest_seq) = start.seq + n - 1
          /\ tx.next_seq = (txc.highest_seq + 1) % SeqSpace
      BY <1>3, <2>2 DEF SenderAt
    <3>2. start.seq + n - 1 \in Nat /\ (start.seq + n - 1) + 1 = start.seq + n
      BY <1>1, <1>3, <2>2 DEF Seqs
    <3>3. (start.seq + n - 1) + 1 < RocSpace * SeqSpace
      <4>1. start.seq + n < SeqSpace + MaxPackets
        BY <1>1, <1>3 DEF Seqs
      <4>2. RocSpace * SeqSpace \in Nat
        OBVIOUS
      <4> QED
        BY <4>1, <4>2, <1>1, <1>3, <3>2 DEF IndexFits, Seqs
    <3>4. /\ protect(txc, tx.next_seq) \in Contexts
          /\ protect(txc, tx.next_seq).highest_seq = tx.next_seq
          /\ IndexOf(protect(txc, tx.next_seq).sender_roc, tx.next_seq)
               = (start.seq + n - 1) + 1
      BY <1>3, <3>1, <3>2, <3>3, ProtectNext
    <3> QED
      BY <1>2, <3>2, <3>4
  <2> QED
    BY <2>1, <2>2
<1>7. p \in Packets /\ p.n = n /\ p.roc = txc'.sender_roc /\ p.seq = tx.next_seq
  BY <1>1, <1>3, <1>6 DEF p, Packets, Contexts
<1>8. SenderAt(n + 1)'
  <2>1. n + 1 # 0 /\ start'.seq + (n + 1) - 1 = start.seq + n
    BY <1>1, <1>2, <1>3 DEF Seqs
  <2>2. tx'.next_seq = (txc'.highest_seq + 1) % SeqSpace
    BY <1>2, <1>6
  <2> QED
    BY <2>1, <2>2, <1>6 DEF SenderAt
<1>9. ASSUME NEW q \in sent'
      PROVE  /\ q \in Packets /\ q.n < n + 1
             /\ IndexOf(q.roc, q.seq) = start.seq + q.n
  <2>1. CASE q = p
    BY <2>1, <1>1, <1>6, <1>7
  <2>2. CASE q \in sent
    <3>1. q \in Packets /\ q.n < n /\ IndexOf(q.roc, q.seq) = start.seq + q.n
      BY <1>0, <2>2 DEF SenderInv, TrueIndex
    <3>2. q.n \in Nat
      BY <3>1 DEF Packets
    <3> QED
      BY <1>1, <3>1, <3>2
  <2> QED
    BY <1>2, <2>1, <2>2
<1>10. /\ start' \in [seq : Seqs, ts : 0 .. TsSpace - 1]
       /\ tx' \in [next_seq : Seqs, current_timestamp : 0 .. TsSpace - 1]
  BY <1>2 DEF SenderInv
<1> QED
  BY <1>1, <1>2, <1>5, <1>6, <1>8, <1>9, <1>10 DEF SenderInv, TrueIndex
-----------------------------------------------------------------------------
(* The receiver's index.                                                   *)

\* A sequence number less than half the number space away from the
\* receiver's index is given the roll-over counter it was sent under, before
\* and after a wrap.
LEMMA EstimateRight ==
    ASSUME NEW r \in 0 .. RocSpace - 1, NEW h \in Seqs,
           NEW roc \in 0 .. RocSpace - 1, NEW s \in Seqs,
           Distance(IndexOf(roc, s), IndexOf(r, h)) < Half
    PROVE  estimate_roc(r, h, s) = roc
<1> USE SpaceFacts
<1> DEFINE d == roc - r
<1>0. s \in 0 .. SeqSpace - 1 /\ h \in 0 .. SeqSpace - 1
  BY DEF Seqs
<1>1. /\ d \in Int /\ d * SeqSpace \in Int /\ roc = r + d
      /\ roc * SeqSpace \in Int /\ r * SeqSpace \in Int
      /\ roc * SeqSpace - r * SeqSpace = d * SeqSpace
  OBVIOUS
<1>2. /\ (roc * SeqSpace + s) - (r * SeqSpace + h) < Half
      /\ (r * SeqSpace + h) - (roc * SeqSpace + s) < Half
  BY <1>0, <1>1 DEF Distance, IndexOf
<1>3. d * SeqSpace + s - h < Half /\ -Half < d * SeqSpace + s - h
  BY <1>0, <1>1, <1>2
<1> HIDE DEF d
<1>4. d \in {-1, 0, 1}
  BY <1>0, <1>1, <1>3, RocApart
<1>5. CASE d = 0
  <2>1. s - h < Half /\ h - s < Half
    BY <1>0, <1>3, <1>5
  <2> QED
    BY <1>0, <1>1, <1>5, <2>1 DEF estimate_roc
<1>6. CASE d = 1
  <2>1. h - s > Half /\ h >= Half /\ s < h
    BY <1>0, <1>3, <1>6
  <2>2. (r + 1) % RocSpace = r + 1
    BY <1>1, <1>6, ModFacts
  <2> QED
    BY <1>0, <1>1, <1>6, <2>1, <2>2 DEF estimate_roc
<1>7. CASE d = -1
  <2>1. s - h > Half /\ h < Half /\ s > h
    BY <1>0, <1>3, <1>7
  <2>2. (r - 1) % RocSpace = r - 1
    BY <1>1, <1>7, ModFacts
  <2> QED
    BY <1>0, <1>1, <1>7, <2>1, <2>2 DEF estimate_roc
<1> QED
  BY <1>4, <1>5, <1>6, <1>7

LEMMA UnprotectType ==
    ASSUME NEW c \in Contexts, NEW s \in Seqs, NEW roc \in 0 .. RocSpace - 1, NEW u \in BOOLEAN
    PROVE  unprotect(c, s, roc, u) \in Contexts
<1> DEFINE q == Primed(c, s)
<1>1. q \in Contexts
  BY DEF Primed, Contexts
<1>2. [q EXCEPT !.receiver_roc = roc, !.highest_seq = s] \in Contexts
  BY <1>1 DEF Contexts
<1> HIDE DEF q
<1>3. unprotect(c, s, roc, u) \in {q, [q EXCEPT !.receiver_roc = roc, !.highest_seq = s]}
  BY DEF unprotect, q
<1> QED
  BY <1>1, <1>2, <1>3

\* The index of every packet is the one it was numbered with, and the
\* receiver has refused no genuine packet near its own index.
IndexInv == SenderInv /\ rxc \in Contexts /\ synced = TRUE

LEMMA ArriveSynced ==
    ASSUME IndexInv, NEW p \in sent, NEW u \in BOOLEAN, NEW d \in BOOLEAN, Arrive(p, u, d)
    PROVE  IndexInv'
<1>1. /\ p \in Packets /\ IndexOf(p.roc, p.seq) = TrueIndex(p)
      /\ rxc \in Contexts
  BY DEF IndexInv, SenderInv
<1>2. p.seq \in Seqs /\ p.roc \in 0 .. RocSpace - 1
  BY <1>1 DEF Packets
<1>3. rxc' \in Contexts
  <2>1. rxc' = unprotect(rxc, p.seq, p.roc, u)
    BY DEF Arrive
  <2> QED
    BY <1>1, <1>2, <2>1, UnprotectType
<1>4. synced' <=> \/ ~u \/ rxc.first_packet
                  \/ Distance(TrueIndex(p), RxIndex) >= Half
                  \/ Accepts(rxc, p.seq, p.roc, u)
  BY DEF Arrive
<1>5. synced' \in BOOLEAN
  BY DEF Arrive
<1>6. synced'
  <2> SUFFICES ASSUME u, ~rxc.first_packet, ~(Distance(TrueIndex(p), RxIndex) >= Half)
               PROVE  Accepts(rxc, p.seq, p.roc, u)
    BY <1>4
  <2>1. rxc.receiver_roc \in 0 .. RocSpace - 1 /\ rxc.highest_seq \in Seqs
    BY <1>1 DEF Contexts
  <2>2. Distance(IndexOf(p.roc, p.seq), IndexOf(rxc.receiver_roc, rxc.highest_seq)) \in Int
    BY <1>2, <2>1, SpaceFacts DEF Distance, IndexOf, Seqs
  <2>3. Distance(IndexOf(p.roc, p.seq), IndexOf(rxc.receiver_roc, rxc.highest_seq)) < Half
    BY <1>1, <2>2, SpaceFacts DEF RxIndex
  <2>4. estimate_roc(rxc.receiver_roc, rxc.highest_seq, p.seq) = p.roc
    BY <1>2, <2>1, <2>3, EstimateRight
  <2> QED
    BY <2>4 DEF Accepts, GuessedRoc
<1>7. SenderInv'
  <2>1. UNCHANGED <<start, tx, txc, sent>>
    BY DEF Arrive, sending
  <2> QED
    BY <2>1 DEF IndexInv, SenderInv, SenderAt, TrueIndex
<1> QED
  BY <1>3, <1>5, <1>6, <1>7 DEF IndexInv

LEMMA IndexInit ==
    ASSUME MsInit
    PROVE  IndexInv
<1> USE SpaceFacts, StreamAssumption
<1>1. start.seq \in Seqs /\ start.ts \in 0 .. TsSpace - 1 /\ start \in [seq : Seqs, ts : 0 .. TsSpace - 1]
  BY DEF MsInit
<1>2. NewContext \in Contexts /\ NewContext.sender_roc = 0 /\ NewContext.highest_seq = 0
  BY DEF NewContext, Contexts, Seqs
<1>3. /\ tx \in [next_seq : Seqs, current_timestamp : 0 .. TsSpace - 1]
      /\ tx.next_seq = start.seq
  BY <1>1 DEF MsInit, NewSender
<1>4. IsFiniteSet(sent) /\ Cardinality(sent) = 0 /\ sent = {}
  BY FS_EmptySet DEF MsInit
<1>5. SenderAt(Cardinality(sent))
  BY <1>2, <1>3, <1>4 DEF SenderAt, MsInit
<1>6. synced = TRUE /\ txc = NewContext /\ rxc = NewContext
  BY DEF MsInit
<1> QED
  BY <1>1, <1>2, <1>3, <1>4, <1>5, <1>6 DEF IndexInv, SenderInv

LEMMA IndexStep ==
    ASSUME IndexFits, IndexInv, [MsNext]_msVars
    PROVE  IndexInv'
<1> USE SpaceFacts, StreamAssumption
<1>0. tx \in [next_seq : Seqs, current_timestamp : 0 .. TsSpace - 1]
  BY DEF IndexInv, SenderInv
<1>1. (tx.next_seq + 1) % SeqSpace \in Seqs
  BY <1>0, ModFacts DEF Seqs
<1>2. CASE encode_audio
  <2>1. (tx.current_timestamp + Spp) % TsSpace \in 0 .. TsSpace - 1
    BY <1>0, ModFacts, JitterAssumption
  <2>2. /\ create_packet(tx, Spp) \in [next_seq : Seqs, current_timestamp : 0 .. TsSpace - 1]
        /\ create_packet(tx, Spp).next_seq = (tx.next_seq + 1) % SeqSpace
    BY <1>1, <2>1 DEF create_packet
  <2>3. SenderInv'
    BY <1>0, <1>2, <2>2, SendKeeps DEF IndexInv, encode_audio
  <2>4. rxc' = rxc /\ synced' = synced
    BY <1>2 DEF encode_audio, Sends, receiving, history
  <2> QED
    BY <2>3, <2>4 DEF IndexInv
<1>3. ASSUME NEW gap \in Gaps, TalkspurtAt(gap)
      PROVE  IndexInv'
  <2> DEFINE ts == (tx.current_timestamp + gap) % TsSpace
  <2>1. ts \in 0 .. TsSpace - 1
    BY <1>0, ModFacts
  <2>0. Sends(create_packet_at(tx, ts), ts)
    BY <1>3 DEF TalkspurtAt
  <2> HIDE DEF ts
  <2>2. /\ create_packet_at(tx, ts) \in [next_seq : Seqs, current_timestamp : 0 .. TsSpace - 1]
        /\ create_packet_at(tx, ts).next_seq = (tx.next_seq + 1) % SeqSpace
    BY <1>1, <2>1 DEF create_packet_at
  <2>3. SenderInv'
    BY <2>0, <2>1, <2>2, SendKeeps DEF IndexInv
  <2>4. rxc' = rxc /\ synced' = synced
    BY <2>0 DEF Sends, receiving, history
  <2> QED
    BY <2>3, <2>4 DEF IndexInv
<1>4. CASE \/ UNCHANGED msVars \/ get_audio_frame \/ ResetBuffer
  <2>1. UNCHANGED <<start, tx, txc, sent, rxc, synced>>
    BY <1>4 DEF msVars, sending, receiving, history, get_audio_frame, ResetBuffer
  <2> QED
    BY <2>1 DEF IndexInv, SenderInv, SenderAt, TrueIndex
<1> QED
  BY <1>2, <1>3, <1>4, ArriveSynced DEF MsNext

(* The packet index survives the wrap of the sequence number on both       *)
(* sides: protect gives every packet the index it was numbered with, and   *)
(* unprotect refuses no genuine packet less than half the number space     *)
(* away from its index, however often the number wraps and whatever the    *)
(* network does.                                                           *)
THEOREM IndexAgreement ==
    ASSUME IndexFits
    PROVE  MsSpec => []InWindowAccepted
<1>1. MsInit => IndexInv
  BY IndexInit
<1>2. IndexInv /\ [MsNext]_msVars => IndexInv'
  BY IndexStep
<1>3. IndexInv => InWindowAccepted
  BY DEF IndexInv, SenderInv, InWindowAccepted
<1> QED
  BY <1>1, <1>2, <1>3, PTL DEF MsSpec

-----------------------------------------------------------------------------
(* The statistics of the receiver.                                         *)

Receivers == [initialized : BOOLEAN, base_seq : Seqs, max_seq : Seqs,
              packets_lost : Int, expected_packets : Int]

\* Until a packet jumps, max_seq is the sequence number of the packet with
\* the highest number, and the packets expected are those from the first to
\* that one.
CountInv ==
  /\ rx \in Receivers
  /\ IF rx.initialized THEN first \in Nat /\ highest \in Nat
                       ELSE first = -1 /\ highest = -1
  /\ rx.initialized /\ ~jumped =>
       /\ rx.expected_packets = highest - first + 1
       /\ \E r \in Int : IndexOf(r, rx.max_seq) = start.seq + highest

\* Two sequence numbers less than half the number space apart: their
\* difference modulo the space is the true one.
LEMMA DiffTrue ==
    ASSUME NEW a \in Seqs, NEW b \in Seqs, NEW r \in Int, NEW q \in Int,
           NEW i \in Int, NEW k \in Int, IndexOf(r, a) = i, IndexOf(q, b) = k,
           i - k < Half, k - i < Half
    PROVE  sequence_diff(a, b) = i - k
<1> USE SpaceFacts
<1> DEFINE d == r - q
<1>0. a \in 0 .. SeqSpace - 1 /\ b \in 0 .. SeqSpace - 1
  BY DEF Seqs
<1>1. /\ d \in Int /\ d * SeqSpace \in Int
      /\ r * SeqSpace \in Int /\ q * SeqSpace \in Int
      /\ r * SeqSpace - q * SeqSpace = d * SeqSpace
  OBVIOUS
<1>2. d * SeqSpace + a - b = i - k
  BY <1>0, <1>1 DEF IndexOf
<1> HIDE DEF d
<1>4. d \in {-1, 0, 1}
  BY <1>0, <1>1, <1>2, RocApart
<1> DEFINE e == i - k
           m == (a - b) % SeqSpace
<1>5. a - b = e - d * SeqSpace /\ e \in Int /\ e < Half /\ -Half < e
  BY <1>0, <1>1, <1>2
<1>6. sequence_diff(a, b) = IF m < Half THEN m ELSE m - SeqSpace
  BY DEF sequence_diff, SignedDiff, Half
<1>7. a - b \in Int /\ a - b < SeqSpace /\ -SeqSpace < a - b
  BY <1>0
<1>8. m = IF a - b < 0 THEN a - b + SeqSpace ELSE a - b
  BY <1>7, ModFacts
<1> HIDE DEF e, m
<1>9. sequence_diff(a, b) = e
  BY <1>4, <1>5, <1>6, <1>7, <1>8
<1> QED
  BY <1>9 DEF e

LEMMA CountKeeps ==
    ASSUME SenderInv, CountInv, NEW p \in sent, rx' = receive_packet(rx, p.seq),
           Counted(p), start' = start
    PROVE  CountInv'
<1> USE SpaceFacts
<1>1. /\ p.n \in Nat /\ p.seq \in Seqs /\ p.roc \in Int /\ start.seq \in Nat
      /\ IndexOf(p.roc, p.seq) = start.seq + p.n
  BY DEF SenderInv, Packets, TrueIndex, Seqs
<1>2. CASE ~rx.initialized
  <2>1. first = -1 /\ highest = -1
    BY <1>2 DEF CountInv
  <2>2. first' = p.n /\ highest' = p.n
    BY <1>1, <2>1, MaxOfTwo DEF Counted
  <2>3. /\ rx' \in Receivers /\ rx'.initialized
        /\ rx'.max_seq = p.seq /\ rx'.expected_packets = 1
    BY <1>1, <1>2 DEF receive_packet, Receivers
  <2>4. rx'.expected_packets = highest' - first' + 1
    BY <1>1, <2>2, <2>3
  <2> QED
    BY <1>1, <2>2, <2>3, <2>4 DEF CountInv
<1>3. CASE rx.initialized
  <2>1. first \in Nat /\ highest \in Nat /\ rx \in Receivers
    BY <1>3 DEF CountInv
  <2>2. first' = first /\ highest' = IF highest >= p.n THEN highest ELSE p.n
    BY <1>1, <2>1, MaxOfTwo DEF Counted
  <2>3. first' \in Nat /\ highest' \in Nat
    BY <1>1, <2>1, <2>2
  <2> DEFINE diff == sequence_diff(p.seq, rx.max_seq)
  <2>4. diff \in Int
    <3>1. rx.max_seq \in Seqs
      BY <2>1 DEF Receivers
    <3>2. (p.seq - rx.max_seq) % SeqSpace \in Int
      BY <1>1, <3>1, ModFacts DEF Seqs
    <3> QED
      BY <3>2 DEF sequence_diff, SignedDiff
  <2>5. rx' = IF diff > 0
              THEN [rx EXCEPT !.max_seq = p.seq,
                              !.expected_packets = rx.expected_packets + diff,
                              !.packets_lost = rx.packets_lost + (diff - 1)]
              ELSE rx
    BY <1>3 DEF receive_packet
  <2> HIDE DEF diff
  <2>6. /\ rx' \in Receivers /\ rx'.initialized
        /\ rx'.max_seq = IF diff > 0 THEN p.seq ELSE rx.max_seq
        /\ rx'.expected_packets = IF diff > 0 THEN rx.expected_packets + diff
                                               ELSE rx.expected_packets
    <3>1. rx.expected_packets + diff \in Int /\ rx.packets_lost + (diff - 1) \in Int
      BY <2>1, <2>4 DEF Receivers
    <3>2. CASE diff > 0
      BY <1>1, <1>3, <2>1, <2>5, <3>1, <3>2 DEF Receivers
    <3>3. CASE ~(diff > 0)
      BY <1>3, <2>1, <2>5, <3>3
    <3> QED
      BY <3>2, <3>3
  <2>7. ASSUME ~jumped'
        PROVE  /\ rx'.expected_packets = highest' - first' + 1
               /\ \E r \in Int : IndexOf(r, rx'.max_seq) = start.seq + highest'
    <3>1. ~jumped /\ ~(Distance(p.n, highest) >= Half)
      <4>1. highest # -1
        BY <2>1
      <4> QED
        BY <2>7, <4>1, Zenon DEF Counted
    <3>2. p.n - highest < Half /\ highest - p.n < Half
      BY <1>1, <2>1, <3>1 DEF Distance
    <3>3. PICK r \in Int : IndexOf(r, rx.max_seq) = start.seq + highest
      BY <1>3, <3>1 DEF CountInv
    <3>4. rx.expected_packets = highest - first + 1 /\ rx.max_seq \in Seqs
      BY <1>3, <3>1 DEF CountInv, Receivers
    <3>5. diff = (start.seq + p.n) - (start.seq + highest)
      <4>1. /\ start.seq + p.n \in Int /\ start.seq + highest \in Int
            /\ (start.seq + p.n) - (start.seq + highest) < Half
            /\ (start.seq + highest) - (start.seq + p.n) < Half
        BY <1>1, <2>1, <3>2
      <4> QED
        BY <1>1, <3>3, <3>4, <4>1, DiffTrue DEF diff
    <3>6. diff = p.n - highest
      BY <1>1, <2>1, <3>5
    <3>7. CASE p.n > highest
      BY <1>1, <2>1, <2>2, <2>6, <3>4, <3>6, <3>7
    <3>8. CASE ~(p.n > highest)
      BY <1>1, <2>1, <2>2, <2>6, <3>3, <3>4, <3>6, <3>8
    <3> QED
      BY <3>7, <3>8
  <2> QED
    BY <2>3, <2>6, <2>7 DEF CountInv
<1> QED
  BY <1>2, <1>3

-----------------------------------------------------------------------------
(* The jitter buffer.                                                      *)

Stored == [n : Nat, ts : Nat]
Statistics == [received : Int, played : Int, lost : Int, late : Int, duplicate : Int]
Buffers == [packets : SUBSET Stored, target_delay : Int, next_playout_ts : Int,
            primed : BOOLEAN, stats : Statistics]

\* Every packet received by buffer j is accounted for, c of them as cleared.
Balanced(j, c) ==
  /\ j \in Buffers /\ IsFiniteSet(j.packets) /\ c \in Int
  /\ j.stats.received = j.stats.played + j.stats.late + j.stats.duplicate
                          + Cardinality(j.packets) + c

LEMMA StatsType ==
    ASSUME NEW st \in Statistics
    PROVE  /\ st.received \in Int /\ st.played \in Int /\ st.lost \in Int
           /\ st.late \in Int /\ st.duplicate \in Int
           /\ \A x \in Int : /\ [st EXCEPT !.received = x] \in Statistics
                             /\ [st EXCEPT !.played = x] \in Statistics
                             /\ [st EXCEPT !.lost = x] \in Statistics
                             /\ [st EXCEPT !.late = x] \in Statistics
                             /\ [st EXCEPT !.duplicate = x] \in Statistics
BY DEF Statistics

\* The smallest of the stored timestamps is that of a stored packet.
LEMMA FirstKeyStored ==
    ASSUME NEW j \in Buffers, j.packets # {}
    PROVE  IsDuplicate(j, FirstKey(j)) /\ FirstKey(j) \in Nat
<1> DEFINE F == {q.ts : q \in j.packets}
<1>1. F \subseteq Nat /\ F # {}
  BY DEF Buffers, Stored
<1>2. FirstKey(j) = Min(F)
  BY DEF FirstKey
<1>3. \A x \in F : IsDuplicate(j, x)
  BY DEF IsDuplicate
<1> HIDE DEF F
<1>4. PICK x \in F : \A y \in F : ~(<<y, x>> \in OpToRel(<, Nat))
  BY <1>1, NatLessThanWellFounded, WFMin
<1>5. \A y \in F : x <= y
  <2> SUFFICES ASSUME NEW y \in F, ~(x <= y) PROVE FALSE
    OBVIOUS
  <2>1. x \in Nat /\ y \in Nat /\ y < x
    BY <1>1
  <2>2. <<y, x>> \in OpToRel(<, Nat)
    BY <2>1 DEF OpToRel
  <2> QED
    BY <1>4, <2>2
<1>6. Min(F) \in F
  BY <1>5 DEF Min
<1> QED
  BY <1>1, <1>2, <1>3, <1>6

LEMMA DecisionCases ==
    ASSUME NEW j \in Buffers
    PROVE  \/ Decision(j) = "Silence"
           \/ Decision(j) = "Play" /\ IsDuplicate(j, j.next_playout_ts)
           \/ Decision(j) = "Accelerate" /\ j.packets # {}
           \/ Decision(j) = "Conceal"
<1>0. j.primed \in BOOLEAN /\ IsDuplicate(j, j.next_playout_ts) \in BOOLEAN
      /\ SkipsAhead(j) \in BOOLEAN
  BY DEF Buffers, IsDuplicate, SkipsAhead
<1>1. CASE ~j.primed
  BY <1>1 DEF Decision
<1>2. CASE j.primed /\ IsDuplicate(j, j.next_playout_ts)
  BY <1>2 DEF Decision
<1>3. CASE j.primed /\ ~IsDuplicate(j, j.next_playout_ts) /\ SkipsAhead(j)
  <2>1. Decision(j) = "Accelerate"
    BY <1>3 DEF Decision
  <2>2. j.packets # {}
    BY <1>3 DEF SkipsAhead
  <2> QED
    BY <2>1, <2>2
<1>4. CASE j.primed /\ ~IsDuplicate(j, j.next_playout_ts) /\ ~SkipsAhead(j)
  BY <1>4 DEF Decision
<1> QED
  BY <1>0, <1>1, <1>2, <1>3, <1>4

\* A packet that pop plays was stored.
LEMMA PoppedIsStored ==
    ASSUME NEW j \in Buffers, Decision(j) \in {"Play", "Accelerate"}
    PROVE  PoppedPacket(j) \in j.packets
<1>1. \A ts : IsDuplicate(j, ts) => PacketAt(j, ts) \in j.packets
  BY DEF IsDuplicate, PacketAt
<1>2. CASE Decision(j) = "Play"
  <2>1. IsDuplicate(j, j.next_playout_ts)
    BY <1>2, DecisionCases
  <2>2. PoppedPacket(j) = PacketAt(j, j.next_playout_ts)
    BY <1>2 DEF PoppedPacket
  <2> QED
    BY <1>1, <2>1, <2>2
<1>3. CASE Decision(j) = "Accelerate"
  <2>1. IsDuplicate(j, FirstKey(j))
    BY <1>3, DecisionCases, FirstKeyStored
  <2>2. PoppedPacket(j) = PacketAt(j, FirstKey(j))
    BY <1>3 DEF PoppedPacket
  <2> QED
    BY <1>1, <2>1, <2>2
<1> QED
  BY <1>2, <1>3

\* A pop moves one packet from the stored to the played, or none.
LEMMA PopKeeps ==
    ASSUME NEW j, NEW c, Balanced(j, c)
    PROVE  Balanced(pop(j), c)
<1>0. /\ j \in Buffers /\ IsFiniteSet(j.packets) /\ c \in Int
      /\ j.stats \in Statistics /\ Cardinality(j.packets) \in Int
  BY FS_CardinalityType DEF Balanced, Buffers
<1> DEFINE next == (j.next_playout_ts + Spp) % TsSpace
           rest == j.packets \ {PoppedPacket(j)}
<1>1. next \in Int
  BY <1>0, SpaceFacts, ModFacts, JitterAssumption DEF Buffers
<1>2. j.stats.played + 1 \in Int /\ j.stats.lost + 1 \in Int
  BY <1>0, StatsType
<1>3. CASE Decision(j) = "Silence"
  <2>1. pop(j) = j
    BY <1>3 DEF pop
  <2> QED
    BY <2>1
<1>4. ASSUME Decision(j) \in {"Play", "Accelerate"}
      PROVE  Balanced(pop(j), c)
  <2>1. PICK t \in Int : pop(j) = [j EXCEPT !.next_playout_ts = t, !.packets = rest,
                                           !.stats.played = j.stats.played + 1]
    <3>1. CASE Decision(j) = "Play"
      BY <1>1, <3>1 DEF pop
    <3>2. CASE Decision(j) = "Accelerate"
      <4>1. FirstKey(j) \in Int
        BY <1>0, <3>2, DecisionCases, FirstKeyStored
      <4>2. pop(j) = [j EXCEPT !.next_playout_ts = FirstKey(j), !.packets = rest,
                              !.stats.played = j.stats.played + 1]
        BY <3>2 DEF pop
      <4> QED
        BY <4>1, <4>2
    <3> QED
      BY <1>4, <3>1, <3>2
  <2>2. IsFiniteSet(rest) /\ Cardinality(rest) = Cardinality(j.packets) - 1
    BY <1>0, <1>4, PoppedIsStored, FS_RemoveElement
  <2>3. rest \in SUBSET Stored
    BY <1>0 DEF Buffers
  <2> HIDE DEF rest
  <2> DEFINE st == [j.stats EXCEPT !.played = j.stats.played + 1]
             k == pop(j)
  <2>4. /\ st \in Statistics /\ st.played = j.stats.played + 1 /\ st.late = j.stats.late
        /\ st.duplicate = j.stats.duplicate /\ st.received = j.stats.received
    BY <1>0, <1>2, StatsType DEF Statistics
  <2>5. k = [j EXCEPT !.next_playout_ts = t, !.packets = rest, !.stats = st]
    BY <2>1, <1>0 DEF Buffers, Statistics
  <2> HIDE DEF st, k
  <2>6. k \in Buffers /\ k.packets = rest /\ k.stats = st
    BY <1>0, <2>1, <2>3, <2>4, <2>5 DEF Buffers
  <2> QED
    BY <1>0, <2>2, <2>4, <2>6, StatsType DEF Balanced, k
<1>5. CASE Decision(j) = "Conceal"
  <2>1. pop(j) = [j EXCEPT !.next_playout_ts = next, !.stats.lost = j.stats.lost + 1]
    BY <1>5 DEF pop
  <2> HIDE DEF next
  <2> DEFINE st == [j.stats EXCEPT !.lost = j.stats.lost + 1]
             k == pop(j)
  <2>4. /\ st \in Statistics /\ st.played = j.stats.played /\ st.late = j.stats.late
        /\ st.duplicate = j.stats.duplicate /\ st.received = j.stats.received
    BY <1>0, <1>2, StatsType DEF Statistics
  <2>5. k = [j EXCEPT !.next_playout_ts = next, !.stats = st]
    BY <2>1, <1>0 DEF Buffers, Statistics
  <2> HIDE DEF st, k
  <2>6. k \in Buffers /\ k.packets = j.packets /\ k.stats = st
    BY <1>0, <1>1, <2>4, <2>5 DEF Buffers
  <2> QED
    BY <1>0, <2>4, <2>6 DEF Balanced, k
<1> QED
  BY <1>0, <1>3, <1>4, <1>5, DecisionCases

\* A packet pushed is counted as received and stored, or as late, or as a
\* duplicate.
LEMMA PushKeeps ==
    ASSUME NEW j, NEW c, Balanced(j, c), NEW p \in Stored, NEW target \in Int
    PROVE  Balanced(push(j, p, target), c)
<1>0. /\ j \in Buffers /\ IsFiniteSet(j.packets) /\ c \in Int
      /\ j.stats \in Statistics /\ Cardinality(j.packets) \in Int
  BY FS_CardinalityType DEF Balanced, Buffers
<1>1. PICK r : r = Received(j, p.ts)
  OBVIOUS
<1>2. PICK st : st = [j.stats EXCEPT !.received = j.stats.received + 1]
  OBVIOUS
<1>3. /\ st \in Statistics /\ st.played = j.stats.played /\ st.late = j.stats.late
      /\ st.duplicate = j.stats.duplicate /\ st.received = j.stats.received + 1
  <2>1. j.stats.received + 1 \in Int
    BY <1>0, StatsType
  <2> QED
    BY <1>0, <1>2, <2>1, StatsType DEF Statistics
<1>4. /\ r \in Buffers /\ r.packets = j.packets /\ r.stats = st
  <2>1. PICK t \in Int : r = [j EXCEPT !.stats.received = j.stats.received + 1,
                                       !.next_playout_ts = t]
    <3>1. PICK t : t = IF j.next_playout_ts = NoTs THEN p.ts ELSE j.next_playout_ts
      OBVIOUS
    <3>2. t \in Int
      BY <1>0, <3>1 DEF Buffers, Stored
    <3>3. r = [j EXCEPT !.stats.received = j.stats.received + 1, !.next_playout_ts = t]
      BY <1>1, <3>1 DEF Received
    <3> QED
      BY <3>2, <3>3
  <2>2. r = [j EXCEPT !.stats = st, !.next_playout_ts = t]
    BY <1>0, <1>2, <2>1 DEF Buffers, Statistics
  <2> QED
    BY <1>0, <1>3, <2>1, <2>2 DEF Buffers
<1>5. CASE IsDuplicate(j, p.ts)
  <2>1. push(j, p, target) = [r EXCEPT !.stats.duplicate = st.duplicate + 1]
    BY <1>1, <1>4, <1>5 DEF push
  <2>2. PICK su : su = [st EXCEPT !.duplicate = st.duplicate + 1]
    OBVIOUS
  <2>3. st.duplicate + 1 \in Int
    BY <1>3, StatsType
  <2>4. /\ su \in Statistics /\ su.played = st.played /\ su.late = st.late
        /\ su.duplicate = st.duplicate + 1 /\ su.received = st.received
    BY <1>3, <2>2, <2>3, StatsType DEF Statistics
  <2>5. PICK k : k = push(j, p, target)
    OBVIOUS
  <2>6. k = [r EXCEPT !.stats = su]
    BY <1>3, <1>4, <2>1, <2>2, <2>5 DEF Buffers, Statistics
  <2>7. k \in Buffers /\ k.packets = j.packets /\ k.stats = su
    BY <1>4, <2>4, <2>6 DEF Buffers
  <2> QED
    BY <1>0, <1>3, <2>4, <2>5, <2>7, StatsType DEF Balanced
<1>6. CASE ~IsDuplicate(j, p.ts) /\ IsLate(j, p.ts)
  <2>1. push(j, p, target) = [r EXCEPT !.stats.late = st.late + 1]
    BY <1>1, <1>4, <1>6 DEF push
  <2>2. PICK su : su = [st EXCEPT !.late = st.late + 1]
    OBVIOUS
  <2>3. st.late + 1 \in Int
    BY <1>3, StatsType
  <2>4. /\ su \in Statistics /\ su.played = st.played /\ su.late = st.late + 1
        /\ su.duplicate = st.duplicate /\ su.received = st.received
    BY <1>3, <2>2, <2>3, StatsType DEF Statistics
  <2>5. PICK k : k = push(j, p, target)
    OBVIOUS
  <2>6. k = [r EXCEPT !.stats = su]
    BY <1>3, <1>4, <2>1, <2>2, <2>5 DEF Buffers, Statistics
  <2>7. k \in Buffers /\ k.packets = j.packets /\ k.stats = su
    BY <1>4, <2>4, <2>6 DEF Buffers
  <2> QED
    BY <1>0, <1>3, <2>4, <2>5, <2>7, StatsType DEF Balanced
<1>7. CASE ~IsDuplicate(j, p.ts) /\ ~IsLate(j, p.ts)
  <2>1. PICK more : more = j.packets \cup {p}
    OBVIOUS
  <2>2. PICK ready \in BOOLEAN :
          push(j, p, target) = [r EXCEPT !.packets = more, !.target_delay = target,
                                         !.primed = ready]
    BY <1>1, <1>4, <1>7, <2>1 DEF push, Buffers
  <2>3. ~(p \in j.packets)
    BY <1>7 DEF IsDuplicate
  <2>4. IsFiniteSet(more) /\ Cardinality(more) = Cardinality(j.packets) + 1
    BY <1>0, <2>1, <2>3, FS_AddElement
  <2>5. more \in SUBSET Stored
    BY <1>0, <2>1 DEF Buffers
  <2>6. PICK k : k = push(j, p, target)
    OBVIOUS
  <2>7. k \in Buffers /\ k.packets = more /\ k.stats = st
    BY <1>4, <2>2, <2>5, <2>6 DEF Buffers
  <2> QED
    BY <1>0, <1>3, <2>4, <2>6, <2>7, StatsType DEF Balanced
<1> QED
  BY <1>5, <1>6, <1>7

\* A reset moves what is stored to the cleared.
LEMMA ResetKeeps ==
    ASSUME NEW j, NEW c, Balanced(j, c)
    PROVE  Balanced(reset(j), c + Cardinality(j.packets))
<1>0. /\ j \in Buffers /\ IsFiniteSet(j.packets) /\ c \in Int
      /\ j.stats \in Statistics /\ Cardinality(j.packets) \in Int
  BY FS_CardinalityType DEF Balanced, Buffers
<1>1. PICK k : k = reset(j)
  OBVIOUS
<1>2. k \in Buffers /\ k.packets = {} /\ k.stats = j.stats
  <2>1. PICK new : new = NewJitterBuffer
    OBVIOUS
  <2>2. new \in Buffers /\ new.packets = {}
    BY <2>1, JitterAssumption DEF NewJitterBuffer, NoTs, NoStats, Buffers, Statistics
  <2>3. k = [new EXCEPT !.stats = j.stats]
    BY <1>1, <2>1 DEF reset
  <2> QED
    BY <1>0, <2>2, <2>3 DEF Buffers
<1>3. IsFiniteSet({}) /\ Cardinality({}) = 0
  BY FS_EmptySet
<1> QED
  BY <1>0, <1>1, <1>2, <1>3, StatsType DEF Balanced

LEMMA TargetType ==
    ASSUME NEW t \in Int
    PROVE  adapt_delay(t) \subseteq Int
BY JitterAssumption DEF adapt_delay

-----------------------------------------------------------------------------
(* The statistics of a call.                                               *)

StatInv == IndexInv /\ CountInv /\ Balanced(jb, cleared)

LEMMA StatInit ==
    ASSUME MsInit
    PROVE  StatInv
<1>1. rx \in Receivers /\ ~rx.initialized /\ first = -1 /\ highest = -1
  BY SpaceFacts DEF MsInit, NewReceiver, Receivers, Seqs
<1>2. CountInv
  BY <1>1 DEF CountInv
<1>3. jb \in Buffers /\ jb.packets = {} /\ jb.stats = NoStats /\ cleared = 0
  BY JitterAssumption DEF MsInit, NewJitterBuffer, NoTs, NoStats, Buffers, Statistics
<1>4. Balanced(jb, cleared)
  BY <1>3, FS_EmptySet DEF Balanced, NoStats
<1> QED
  BY <1>2, <1>4, IndexInit DEF StatInv

\* An accepted packet is counted and, once decoded, pushed; a pop may follow.
LEMMA ArriveKeeps ==
    ASSUME StatInv, NEW p \in sent, NEW u \in BOOLEAN, NEW d \in BOOLEAN, Arrive(p, u, d)
    PROVE  CountInv' /\ Balanced(jb, cleared)'
<1>0. start' = start /\ cleared' = cleared
  BY DEF Arrive, sending
<1>1. CASE ~Accepts(rxc, p.seq, p.roc, u)
  <2>1. UNCHANGED <<rx, jb, first, highest, jumped>>
    BY <1>1 DEF Arrive
  <2> QED
    BY <1>0, <2>1 DEF StatInv, CountInv, Balanced
<1>2. CASE receive_rtp(p, d) /\ Counted(p)
  <2>1. CountInv'
    BY <1>0, <1>2, CountKeeps DEF StatInv, IndexInv, receive_rtp
  <2>2. Balanced(jb', cleared)
    <3>1. CASE jb' = jb
      BY <3>1 DEF StatInv
    <3>2. CASE \E target \in IF Stores(jb, p.ts) THEN adapt_delay(jb.target_delay)
                                                 ELSE {jb.target_delay} :
                 LET j == push(jb, [n |-> p.n, ts |-> p.ts], target) IN
                 IF j.primed THEN frames < MaxFrames /\ Pops(j)
                 ELSE jb' = j /\ UNCHANGED <<lastPlayed, frames>>
      <4>1. PICK target \in IF Stores(jb, p.ts) THEN adapt_delay(jb.target_delay)
                                                ELSE {jb.target_delay} :
                 LET j == push(jb, [n |-> p.n, ts |-> p.ts], target) IN
                 IF j.primed THEN frames < MaxFrames /\ Pops(j)
                 ELSE jb' = j /\ UNCHANGED <<lastPlayed, frames>>
        BY <3>2
      <4>2. jb.target_delay \in Int
        BY DEF StatInv, Balanced, Buffers
      <4>3. target \in Int
        BY <4>2, TargetType
      <4>4. PICK s : s = [n |-> p.n, ts |-> p.ts]
        OBVIOUS
      <4>5. s \in Stored
        BY <4>4 DEF StatInv, IndexInv, SenderInv, Packets, Stored
      <4>6. PICK k : k = push(jb, s, target)
        OBVIOUS
      <4>7. Balanced(k, cleared)
        BY <4>3, <4>5, <4>6, PushKeeps DEF StatInv
      <4>8. jb' = k \/ jb' = pop(k)
        BY <4>1, <4>4, <4>6 DEF Pops
      <4> QED
        BY <4>7, <4>8, PopKeeps
    <3> QED
      BY <1>2, <3>1, <3>2 DEF receive_rtp
  <2>3. Balanced(jb, cleared)'
    BY <1>0, <2>2
  <2> QED
    BY <2>1, <2>3
<1> QED
  BY <1>1, <1>2 DEF Arrive

LEMMA StatStep ==
    ASSUME IndexFits, StatInv, [MsNext]_msVars
    PROVE  StatInv'
<1>0. IndexInv'
  BY IndexStep DEF StatInv
<1>1. ASSUME UNCHANGED <<start, rx, first, highest, jumped>>
      PROVE  CountInv'
  BY <1>1 DEF StatInv, CountInv
<1>2. ASSUME NEW session, NEW ts, Sends(session, ts)
      PROVE  StatInv'
  <2>1. UNCHANGED <<start, rx, jb, first, highest, jumped, cleared>>
    BY <1>2 DEF Sends, receiving, history
  <2> QED
    BY <1>0, <1>1, <2>1 DEF StatInv
<1>3. CASE get_audio_frame
  <2>1. UNCHANGED <<start, rx, first, highest, jumped, cleared>> /\ jb' = pop(jb)
    BY <1>3 DEF get_audio_frame, sending, history, Pops
  <2>2. Balanced(pop(jb), cleared)
    BY PopKeeps DEF StatInv
  <2> QED
    BY <1>0, <1>1, <2>1, <2>2 DEF StatInv
<1>4. CASE ResetBuffer
  <2>1. /\ UNCHANGED <<start, rx, first, highest, jumped>>
        /\ jb' = reset(jb) /\ cleared' = cleared + Cardinality(jb.packets)
    BY <1>4 DEF ResetBuffer, sending
  <2>2. Balanced(reset(jb), cleared + Cardinality(jb.packets))
    BY ResetKeeps DEF StatInv
  <2> QED
    BY <1>0, <1>1, <2>1, <2>2 DEF StatInv
<1>5. CASE UNCHANGED msVars
  <2>1. UNCHANGED <<start, rx, jb, first, highest, jumped, cleared>>
    BY <1>5 DEF msVars, sending, receiving, history
  <2> QED
    BY <1>0, <1>1, <2>1 DEF StatInv
<1> QED
  BY <1>0, <1>2, <1>3, <1>4, <1>5, ArriveKeeps
    DEF MsNext, encode_audio, TalkspurtAt, StatInv

(* The statistics of the receiver are true: while no packet jumps half the *)
(* number space, the packets expected are those numbered from the first to *)
(* the highest, through every wrap; and every packet the jitter buffer was *)
(* given is played, late, a duplicate, stored, or cleared by a reset.      *)
THEOREM StatisticsAgree ==
    ASSUME IndexFits
    PROVE  MsSpec => []StatisticsTrue
<1>1. MsInit => StatInv
  BY StatInit
<1>2. StatInv /\ [MsNext]_msVars => StatInv'
  BY StatStep
<1>3. StatInv => StatisticsTrue
  BY DEF StatInv, CountInv, Balanced, StatisticsTrue
<1> QED
  BY <1>1, <1>2, <1>3, PTL DEF MsSpec

-----------------------------------------------------------------------------
(* The order of playout.                                                   *)

Stamps == 0 .. TsSpace - 1

\* Time since the start of the stream.
Since(ts) == (ts - start.ts) % TsSpace

\* A pause and the samples of a packet are at most w, and the whole stream,
\* concealed frames included, is shorter than half the timestamp space.
FitsWith(w) ==
  /\ w \in Nat /\ Spp <= w /\ \A g \in Gaps : g <= w
  /\ MaxFrames \in Nat
  /\ MaxPackets * w + MaxFrames * Spp < TsSpace \div 2
StreamFits == \E w : FitsWith(w)

\* What buffer j holds was sent by time b; its playout is at most at f, and
\* the last packet played is not ahead of it.
Ordered(j, last, b, f) ==
  /\ \A q \in j.packets : q.ts \in Stamps /\ Since(q.ts) <= b
  /\ j.next_playout_ts # NoTs =>
       /\ j.next_playout_ts \in Stamps /\ Since(j.next_playout_ts) <= f
       /\ last # NothingPlayed =>
            last.ts \in Stamps /\ Since(last.ts) <= Since(j.next_playout_ts)
  /\ j.next_playout_ts = NoTs => ~j.primed /\ last = NothingPlayed

SentBy(b) ==
  /\ tx.current_timestamp \in Stamps /\ Since(tx.current_timestamp) <= b
  /\ \A p \in sent : p.n \in Nat /\ p.ts \in Stamps /\ Since(p.ts) <= b

\* The time packets are sent by, and the time frames are played by.
Spoken(w) == Cardinality(sent) * w
Heard(w)  == Spoken(w) + frames * Spp

OrderInv(w) ==
  /\ start.ts \in Stamps
  /\ IsFiniteSet(sent) /\ Cardinality(sent) <= MaxPackets
  /\ \A p \in sent : p.n < Cardinality(sent)
  /\ frames \in 0 .. MaxFrames
  /\ SentBy(Spoken(w))
  /\ Balanced(jb, cleared)
  /\ Ordered(jb, lastPlayed, Spoken(w), Heard(w))

LEMMA StampMod ==
    ASSUME NEW x \in Int, -TsSpace <= x, x < 2 * TsSpace
    PROVE  x % TsSpace = IF x < 0 THEN x + TsSpace
                         ELSE IF x < TsSpace THEN x ELSE x - TsSpace
BY SpaceFacts, ModFacts

LEMMA SinceIs ==
    ASSUME start.ts \in Stamps, NEW a \in Stamps
    PROVE  Since(a) = IF a >= start.ts THEN a - start.ts ELSE a - start.ts + TsSpace
<1>1. a - start.ts \in Int /\ -TsSpace <= a - start.ts /\ a - start.ts < 2 * TsSpace
  BY SpaceFacts DEF Stamps
<1>2. Since(a) = (a - start.ts) % TsSpace
  BY DEF Since
<1> QED
  BY <1>1, <1>2, StampMod, SpaceFacts DEF Stamps

LEMMA SinceFacts ==
    ASSUME start.ts \in Stamps, NEW a \in Stamps
    PROVE  /\ Since(a) \in Stamps
           /\ a = start.ts => Since(a) = 0
           /\ \A x \in Nat : Since(a) + x < TsSpace =>
                 /\ (a + x) % TsSpace \in Stamps
                 /\ Since((a + x) % TsSpace) = Since(a) + x
<1> USE SpaceFacts
<1>0. PICK s \in Stamps : s = start.ts
  OBVIOUS
<1>1. Since(a) = IF a >= s THEN a - s ELSE a - s + TsSpace
  BY <1>0, SinceIs
<1>2. ASSUME NEW x \in Nat, Since(a) + x < TsSpace
      PROVE  /\ (a + x) % TsSpace \in Stamps
             /\ Since((a + x) % TsSpace) = Since(a) + x
  <2>1. x < TsSpace /\ a + x \in Int /\ -TsSpace <= a + x /\ a + x < 2 * TsSpace /\ a + x >= 0
    BY <1>1, <1>2 DEF Stamps
  <2>2. PICK y \in Int : y = a + x
    BY <2>1
  <2>2a. y % TsSpace = IF y < TsSpace THEN y ELSE y - TsSpace
    BY <2>1, <2>2, StampMod
  <2>2b. PICK b : b = y % TsSpace
    OBVIOUS
  <2>2c. b = (a + x) % TsSpace
    BY <2>2, <2>2b
  <2>3. b = IF y < TsSpace THEN y ELSE y - TsSpace
    BY <2>2a, <2>2b
  <2>4. b \in Stamps
    BY <2>1, <2>2, <2>3 DEF Stamps
  <2>5. Since(b) = IF b >= s THEN b - s ELSE b - s + TsSpace
    BY <1>0, <2>4, SinceIs
  <2> QED
    BY <1>1, <1>2, <2>1, <2>2, <2>2c, <2>3, <2>4, <2>5 DEF Stamps
<1> QED
  BY <1>0, <1>1, <1>2 DEF Stamps

\* The signed difference orders two timestamps that are in the first half of
\* the stream's space as time does.
LEMMA DiffIsTime ==
    ASSUME start.ts \in Stamps, NEW a \in Stamps, NEW b \in Stamps,
           Since(a) < TsSpace \div 2, Since(b) < TsSpace \div 2
    PROVE  timestamp_diff(a, b) = Since(a) - Since(b)
<1> USE SpaceFacts
<1>0. PICK s \in Stamps : s = start.ts
  OBVIOUS
<1>1. /\ Since(a) = IF a >= s THEN a - s ELSE a - s + TsSpace
      /\ Since(b) = IF b >= s THEN b - s ELSE b - s + TsSpace
  BY <1>0, SinceIs
<1>2. PICK h \in Nat : h = TsSpace \div 2 /\ TsSpace = 2 * h
  BY RtpAssumption
<1>3. (a - b) % TsSpace = IF a >= b THEN a - b ELSE a - b + TsSpace
  BY StampMod DEF Stamps
<1> QED
  BY <1>1, <1>2, <1>3 DEF timestamp_diff, SignedDiff, Stamps

\* The fields of the buffer after a pop.
LEMMA PopFacts ==
    ASSUME NEW j \in Buffers
    PROVE  /\ pop(j).packets \subseteq j.packets /\ pop(j).primed = j.primed
           /\ pop(j).next_playout_ts =
                CASE Decision(j) = "Silence" -> j.next_playout_ts
                  [] Decision(j) = "Accelerate" -> FirstKey(j)
                  [] OTHER -> (j.next_playout_ts + Spp) % TsSpace
<1>1. CASE Decision(j) = "Silence"
  BY <1>1 DEF pop
<1>2. CASE Decision(j) = "Play"
  BY <1>2 DEF pop, Buffers
<1>3. CASE Decision(j) = "Accelerate"
  BY <1>3 DEF pop, Buffers
<1>4. CASE Decision(j) = "Conceal"
  BY <1>4 DEF pop, Buffers
<1> QED
  BY <1>1, <1>2, <1>3, <1>4, DecisionCases

\* The fields of the buffer after a push.
LEMMA PushFacts ==
    ASSUME NEW j \in Buffers, NEW p \in Stored, NEW target
    PROVE  /\ push(j, p, target).packets \subseteq j.packets \cup {p}
           /\ push(j, p, target).next_playout_ts =
                IF j.next_playout_ts = NoTs THEN p.ts ELSE j.next_playout_ts
<1>1. PICK r : r = Received(j, p.ts)
  OBVIOUS
<1>2. PICK t : t = IF j.next_playout_ts = NoTs THEN p.ts ELSE j.next_playout_ts
  OBVIOUS
<1>3. PICK st : st = [j.stats EXCEPT !.received = @ + 1]
  OBVIOUS
<1>4. r = [j EXCEPT !.stats = st, !.next_playout_ts = t]
  BY <1>1, <1>2, <1>3 DEF Received, Buffers
<1>5. /\ r.packets = j.packets /\ r.next_playout_ts = t
      /\ r = [f \in {"packets", "target_delay", "next_playout_ts", "primed", "stats"} |-> r[f]]
  BY <1>4 DEF Buffers
<1>6. CASE IsDuplicate(j, p.ts)
  BY <1>1, <1>2, <1>5, <1>6 DEF push
<1>7. CASE ~IsDuplicate(j, p.ts) /\ IsLate(j, p.ts)
  BY <1>1, <1>2, <1>5, <1>7 DEF push
<1>8. CASE ~IsDuplicate(j, p.ts) /\ ~IsLate(j, p.ts)
  BY <1>1, <1>2, <1>5, <1>8 DEF push
<1> QED
  BY <1>6, <1>7, <1>8

\* A pop plays nothing older than what was played before.
LEMMA PopOrdered ==
    ASSUME start.ts \in Stamps, NEW j \in Buffers, NEW last, NEW b \in Nat, NEW f \in Nat,
           b <= f, f + Spp < TsSpace \div 2, Ordered(j, last, b, f),
           NEW new, new = IF Plays(j) THEN PoppedPacket(j) ELSE last
    PROVE  /\ Ordered(pop(j), new, b, f + Spp)
           /\ new = last \/ last = NothingPlayed \/ Since(new.ts) >= Since(last.ts)
<1> USE SpaceFacts, JitterAssumption
<1>1. PICK k : k = pop(j)
  OBVIOUS
<1>2. PICK next : next = j.next_playout_ts
  OBVIOUS
<1>3. /\ k.packets \subseteq j.packets /\ k.primed = j.primed
      /\ k.next_playout_ts = CASE Decision(j) = "Silence" -> next
                               [] Decision(j) = "Accelerate" -> FirstKey(j)
                               [] OTHER -> (next + Spp) % TsSpace
  BY <1>1, <1>2, PopFacts
<1>4. \A q \in k.packets : q.ts \in Stamps /\ Since(q.ts) <= b
  BY <1>3 DEF Ordered
<1>5. CASE Decision(j) = "Silence"
  <2>1. PoppedPacket(j) = NothingPlayed
    BY <1>5 DEF PoppedPacket
  <2>2. new = last
    BY <2>1 DEF Plays
  <2>3. k.next_playout_ts = next
    BY <1>3, <1>5
  <2>4. next # NoTs => next \in Stamps /\ Since(next) <= f
    BY <1>2 DEF Ordered
  <2>5. next # NoTs => Since(next) <= f + Spp
    BY <2>4, SinceFacts DEF Stamps
  <2> QED
    BY <1>1, <1>2, <1>3, <1>4, <2>2, <2>3, <2>4, <2>5 DEF Ordered
<1>6. ASSUME Decision(j) # "Silence"
      PROVE  /\ j.primed /\ next # NoTs /\ next \in Stamps
             /\ Since(next) \in Int /\ Since(next) <= f
             /\ last # NothingPlayed => last.ts \in Stamps /\ Since(last.ts) <= Since(next)
  <2>1. j.primed
    BY <1>6 DEF Decision
  <2>2. next # NoTs
    BY <1>2, <2>1 DEF Ordered
  <2>3. next \in Stamps
    BY <1>2, <2>2 DEF Ordered
  <2> QED
    BY <1>2, <2>1, <2>2, <2>3, SinceFacts DEF Ordered, Stamps
<1>7. ASSUME Decision(j) # "Silence", Decision(j) # "Accelerate"
      PROVE  /\ k.next_playout_ts \in Stamps /\ k.next_playout_ts # NoTs
             /\ Since(k.next_playout_ts) = Since(next) + Spp
             /\ Since(k.next_playout_ts) <= f + Spp
  <2>1. k.next_playout_ts = (next + Spp) % TsSpace
    BY <1>3, <1>7
  <2>2. Since(next) + Spp < TsSpace
    BY <1>6, <1>7
  <2>3. /\ (next + Spp) % TsSpace \in Stamps
        /\ Since((next + Spp) % TsSpace) = Since(next) + Spp
    BY <1>6, <1>7, <2>2, SinceFacts
  <2> QED
    BY <1>6, <1>7, <2>1, <2>3 DEF NoTs, Stamps
<1>8. CASE Decision(j) = "Play"
  <2>1. IsDuplicate(j, next)
    BY <1>2, <1>8, DecisionCases
  <2>2. PoppedPacket(j) = PacketAt(j, next)
    BY <1>2, <1>8 DEF PoppedPacket
  <2>3. PoppedPacket(j) \in j.packets /\ PoppedPacket(j).ts = next
    BY <2>1, <2>2 DEF IsDuplicate, PacketAt
  <2>4. PoppedPacket(j) # NothingPlayed
    BY <1>6, <1>8, <2>3 DEF NothingPlayed
  <2>5. new.ts = next
    BY <2>3, <2>4 DEF Plays
  <2>6. Since(new.ts) <= Since(k.next_playout_ts) /\ new.ts \in Stamps
    BY <1>6, <1>7, <1>8, <2>5
  <2>7. last = NothingPlayed \/ Since(new.ts) >= Since(last.ts)
    <3>1. ASSUME last # NothingPlayed PROVE Since(new.ts) >= Since(last.ts)
      <4>1. last.ts \in Stamps /\ Since(last.ts) <= Since(next)
        BY <1>6, <1>8, <3>1
      <4>2. Since(last.ts) \in Int
        BY <4>1, SinceFacts DEF Stamps
      <4> QED
        BY <1>6, <1>8, <2>5, <4>1, <4>2
    <3> QED
      BY <3>1
  <2>8. Ordered(k, new, b, f + Spp)
    BY <1>4, <1>7, <1>8, <2>6 DEF Ordered
  <2> QED
    BY <1>1, <2>7, <2>8
<1>9. CASE Decision(j) = "Accelerate"
  <2>1. j.packets # {} /\ SkipsAhead(j)
    <3>1. j.primed \in BOOLEAN /\ IsDuplicate(j, j.next_playout_ts) \in BOOLEAN
          /\ SkipsAhead(j) \in BOOLEAN
      BY DEF Buffers, IsDuplicate, SkipsAhead
    <3>2. CASE ~j.primed
      BY <1>9, <3>2 DEF Decision
    <3>3. CASE j.primed /\ IsDuplicate(j, j.next_playout_ts)
      BY <1>9, <3>3 DEF Decision
    <3>4. CASE j.primed /\ ~IsDuplicate(j, j.next_playout_ts) /\ ~SkipsAhead(j)
      BY <1>9, <3>4 DEF Decision
    <3>5. j.packets # {}
      BY <1>9, DecisionCases
    <3> QED
      BY <3>1, <3>2, <3>3, <3>4, <3>5
  <2>2. PICK key : key = FirstKey(j)
    OBVIOUS
  <2>3. IsDuplicate(j, key)
    BY <2>1, <2>2, FirstKeyStored
  <2>4. PoppedPacket(j) = PacketAt(j, key)
    BY <1>9, <2>2 DEF PoppedPacket
  <2>5. PoppedPacket(j) \in j.packets /\ PoppedPacket(j).ts = key
    BY <2>3, <2>4 DEF IsDuplicate, PacketAt
  <2>6. key \in Stamps /\ Since(key) <= b
    BY <2>5 DEF Ordered
  <2>7. PoppedPacket(j) # NothingPlayed
    BY <2>5, <2>6 DEF NothingPlayed, NoTs, Stamps
  <2>8. new.ts = key
    BY <2>5, <2>7 DEF Plays
  <2>9. timestamp_diff(key, next) > Spp
    BY <1>2, <2>1, <2>2 DEF SkipsAhead
  <2>10. Since(key) \in Int /\ Since(key) < TsSpace \div 2 /\ Since(next) < TsSpace \div 2
    BY <1>6, <1>9, <2>6, SinceFacts DEF Stamps
  <2>11. timestamp_diff(key, next) = Since(key) - Since(next)
    BY <1>6, <1>9, <2>6, <2>10, DiffIsTime
  <2>12. Since(key) > Since(next)
    BY <1>6, <1>9, <2>9, <2>10, <2>11
  <2>13. k.next_playout_ts = key /\ key # NoTs
    BY <1>3, <1>9, <2>2, <2>6 DEF NoTs, Stamps
  <2>14. Since(key) <= f + Spp
    BY <2>6, <2>10
  <2>15. last = NothingPlayed \/ Since(new.ts) >= Since(last.ts)
    <3>1. ASSUME last # NothingPlayed PROVE Since(new.ts) >= Since(last.ts)
      <4>1. last.ts \in Stamps /\ Since(last.ts) <= Since(next)
        BY <1>6, <1>9, <3>1
      <4>2. Since(last.ts) \in Int
        BY <4>1, SinceFacts DEF Stamps
      <4> QED
        BY <1>6, <1>9, <2>8, <2>10, <2>12, <4>1, <4>2
    <3> QED
      BY <3>1
  <2>16. Ordered(k, new, b, f + Spp)
    BY <1>4, <2>6, <2>8, <2>10, <2>13, <2>14 DEF Ordered
  <2> QED
    BY <1>1, <2>15, <2>16
<1>10. CASE Decision(j) = "Conceal"
  <2>1. PoppedPacket(j) = NothingPlayed
    BY <1>10 DEF PoppedPacket
  <2>2. new = last
    BY <2>1 DEF Plays
  <2>3. ASSUME last # NothingPlayed
        PROVE  last.ts \in Stamps /\ Since(last.ts) <= Since(k.next_playout_ts)
    <3>1. last.ts \in Stamps /\ Since(last.ts) <= Since(next)
      BY <1>6, <1>10, <2>3
    <3>2. Since(last.ts) \in Int
      BY <3>1, SinceFacts DEF Stamps
    <3> QED
      BY <1>6, <1>7, <1>10, <3>1, <3>2
  <2>4. Ordered(k, new, b, f + Spp)
    BY <1>4, <1>7, <1>10, <2>2, <2>3 DEF Ordered
  <2> QED
    BY <1>1, <2>2, <2>4
<1> QED
  BY <1>5, <1>8, <1>9, <1>10, DecisionCases

\* A packet pushed starts the playout clock, or leaves it alone.
LEMMA PushOrdered ==
    ASSUME NEW j \in Buffers, NEW last, NEW b, NEW f, Ordered(j, last, b, f),
           NEW p \in Stored, NEW target, p.ts \in Stamps, Since(p.ts) <= b, Since(p.ts) <= f
    PROVE  Ordered(push(j, p, target), last, b, f)
<1>1. PICK k : k = push(j, p, target)
  OBVIOUS
<1>2. /\ k.packets \subseteq j.packets \cup {p}
      /\ k.next_playout_ts = IF j.next_playout_ts = NoTs THEN p.ts ELSE j.next_playout_ts
  BY <1>1, PushFacts
<1>3. k.next_playout_ts # NoTs
  BY <1>2, SpaceFacts DEF NoTs, Stamps
<1>4. Ordered(k, last, b, f)
  BY <1>2, <1>3 DEF Ordered
<1> QED
  BY <1>1, <1>4

LEMMA OrderedLater ==
    ASSUME start.ts \in Stamps, NEW j, NEW last, NEW b \in Nat, NEW f \in Nat,
           Ordered(j, last, b, f),
           NEW c \in Nat, NEW g \in Nat, b <= c, f <= g
    PROVE  Ordered(j, last, c, g)
<1>1. \A z \in Stamps : Since(z) \in Int
  BY SinceFacts, SpaceFacts DEF Stamps
<1>2. \A q \in j.packets : q.ts \in Stamps /\ Since(q.ts) <= c
  BY <1>1 DEF Ordered
<1>3. j.next_playout_ts # NoTs => Since(j.next_playout_ts) <= g
  BY <1>1 DEF Ordered
<1> QED
  BY <1>2, <1>3 DEF Ordered

\* Products of the two counts stay within the stream.
LEMMA Bounds ==
    ASSUME NEW w, FitsWith(w), NEW n \in Nat, n <= MaxPackets, NEW k \in 0 .. MaxFrames
    PROVE  /\ n * w \in Nat /\ k * Spp \in Nat
           /\ n * w + k * Spp < TsSpace \div 2
           /\ (n + 1) * w = n * w + w
           /\ (k + 1) * Spp = k * Spp + Spp
<1> USE JitterAssumption, StreamAssumption, SpaceFacts
<1>1. w \in Nat /\ MaxFrames \in Nat /\ MaxPackets * w + MaxFrames * Spp < TsSpace \div 2
  BY DEF FitsWith
<1>2. n * w \in Nat /\ n * w <= MaxPackets * w /\ (n + 1) * w = n * w + w
      /\ MaxPackets * w \in Nat
  BY <1>1
<1>3. k * Spp \in Nat /\ k * Spp <= MaxFrames * Spp /\ (k + 1) * Spp = k * Spp + Spp
      /\ MaxFrames * Spp \in Nat
  BY <1>1
<1> QED
  BY <1>1, <1>2, <1>3

\* The action that PlayedInOrder allows.
InOrder ==
  \/ lastPlayed' \in {lastPlayed, NothingPlayed}
  \/ lastPlayed = NothingPlayed
  \/ MediaTime(lastPlayed') >= MediaTime(lastPlayed)

\* A pop of a buffer in order, which leaves all but what is heard alone.
LEMMA PopInOrder ==
    ASSUME NEW w, FitsWith(w), OrderInv(w), frames < MaxFrames,
           NEW j, Balanced(j, cleared), Ordered(j, lastPlayed, Spoken(w), Heard(w)), Pops(j),
           UNCHANGED <<start, tx, sent, cleared>>
    PROVE  OrderInv(w)' /\ InOrder
<1>0. PICK b, f : b = Spoken(w) /\ f = Heard(w)
  OBVIOUS
<1>1. Cardinality(sent) \in Nat /\ Cardinality(sent) <= MaxPackets /\ start.ts \in Stamps
  BY FS_CardinalityType DEF OrderInv
<1>2. MaxFrames \in Nat /\ frames \in 0 .. MaxFrames /\ frames + 1 \in 0 .. MaxFrames
  BY DEF FitsWith, OrderInv
<1>3. /\ Cardinality(sent) * w \in Nat /\ frames * Spp \in Nat
      /\ (frames + 1) * Spp = frames * Spp + Spp
      /\ Cardinality(sent) * w + (frames + 1) * Spp < TsSpace \div 2
  BY <1>1, <1>2, Bounds
<1>4. b \in Nat /\ f \in Nat /\ b <= f /\ f + Spp < TsSpace \div 2
  BY <1>0, <1>3, JitterAssumption, SpaceFacts DEF Spoken, Heard
<1>5. /\ jb' = pop(j) /\ frames' = frames + 1
      /\ lastPlayed' = IF Plays(j) THEN PoppedPacket(j) ELSE lastPlayed
  BY DEF Pops
<1>6. Spoken(w)' = b /\ Heard(w)' = f + Spp
  BY <1>0, <1>3, <1>5, JitterAssumption DEF Spoken, Heard
<1>7. j \in Buffers
  BY DEF Balanced
<1>8. PICK new : new = IF Plays(j) THEN PoppedPacket(j) ELSE lastPlayed
  OBVIOUS
<1>9. /\ Ordered(pop(j), new, b, f + Spp)
      /\ new = lastPlayed \/ lastPlayed = NothingPlayed \/ Since(new.ts) >= Since(lastPlayed.ts)
  BY <1>0, <1>1, <1>4, <1>7, <1>8, PopOrdered
<1>10. Balanced(pop(j), cleared)
  BY PopKeeps
<1>11. \A q : Since(q)' = Since(q)
  BY DEF Since
<1>12. Ordered(jb, lastPlayed, Spoken(w), Heard(w))'
  BY <1>5, <1>6, <1>8, <1>9 DEF Ordered, Since
<1>13. SentBy(Spoken(w))'
  BY <1>0, <1>6 DEF OrderInv, SentBy, Since
<1>14. OrderInv(w)'
  BY <1>1, <1>2, <1>5, <1>10, <1>12, <1>13 DEF OrderInv, Balanced
<1>15. InOrder
  BY <1>5, <1>8, <1>9 DEF InOrder, MediaTime, Since
<1> QED
  BY <1>14, <1>15

LEMMA ArriveInOrder ==
    ASSUME NEW w, FitsWith(w), OrderInv(w), NEW p \in sent, NEW u \in BOOLEAN, NEW d \in BOOLEAN,
           Arrive(p, u, d)
    PROVE  OrderInv(w)' /\ InOrder
<1>0. UNCHANGED <<start, tx, sent, cleared>>
  BY DEF Arrive, sending
<1>1. CASE UNCHANGED <<jb, lastPlayed, frames>>
  BY <1>0, <1>1 DEF OrderInv, SentBy, Spoken, Heard, Balanced, Ordered, Since, InOrder
<1>2. CASE \E target \in IF Stores(jb, p.ts) THEN adapt_delay(jb.target_delay)
                                              ELSE {jb.target_delay} :
             LET j == push(jb, [n |-> p.n, ts |-> p.ts], target) IN
             IF j.primed THEN frames < MaxFrames /\ Pops(j)
             ELSE jb' = j /\ UNCHANGED <<lastPlayed, frames>>
  <2>1. PICK target \in IF Stores(jb, p.ts) THEN adapt_delay(jb.target_delay)
                                            ELSE {jb.target_delay} :
             LET j == push(jb, [n |-> p.n, ts |-> p.ts], target) IN
             IF j.primed THEN frames < MaxFrames /\ Pops(j)
             ELSE jb' = j /\ UNCHANGED <<lastPlayed, frames>>
    BY <1>2
  <2>2. jb \in Buffers /\ jb.target_delay \in Int
    BY DEF OrderInv, Balanced, Buffers
  <2>3. target \in Int
    BY <2>2, TargetType
  <2>4. PICK s : s = [n |-> p.n, ts |-> p.ts]
    OBVIOUS
  <2>5. s \in Stored /\ s.ts \in Stamps /\ Since(s.ts) <= Spoken(w)
    BY <2>4, SpaceFacts DEF OrderInv, SentBy, Stored, Stamps
  <2>6. PICK k : k = push(jb, s, target)
    OBVIOUS
  <2>7. Balanced(k, cleared)
    BY <2>3, <2>5, <2>6, PushKeeps DEF OrderInv
  <2>8. Since(s.ts) <= Heard(w)
    <3>1. Cardinality(sent) \in Nat /\ Cardinality(sent) <= MaxPackets /\ start.ts \in Stamps
      BY FS_CardinalityType DEF OrderInv
    <3>2. frames \in 0 .. MaxFrames
      BY DEF OrderInv
    <3>3. Cardinality(sent) * w \in Nat /\ frames * Spp \in Nat
      BY <3>1, <3>2, Bounds
    <3>4. Since(s.ts) \in Int
      BY <2>5, <3>1, SinceFacts DEF Stamps
    <3> QED
      BY <2>5, <3>3, <3>4 DEF Spoken, Heard
  <2>9. Ordered(k, lastPlayed, Spoken(w), Heard(w))
    BY <2>2, <2>5, <2>6, <2>8, PushOrdered DEF OrderInv
  <2>10. CASE jb' = k /\ UNCHANGED <<lastPlayed, frames>>
    BY <1>0, <2>7, <2>9, <2>10
      DEF OrderInv, SentBy, Spoken, Heard, Balanced, Ordered, Since, InOrder
  <2>11. CASE frames < MaxFrames /\ Pops(k)
    BY <1>0, <2>7, <2>9, <2>11, PopInOrder
  <2> QED
    BY <2>1, <2>4, <2>6, <2>10, <2>11
<1> QED
  BY <1>1, <1>2 DEF Arrive, receive_rtp

\* A packet sent moves the sender's clock by at most w.
LEMMA SendInOrder ==
    ASSUME NEW w, FitsWith(w), OrderInv(w), NEW session, NEW ts \in Stamps, Sends(session, ts),
           session.current_timestamp \in Stamps,
           Since(ts) <= Spoken(w) + w, Since(session.current_timestamp) <= Spoken(w) + w
    PROVE  OrderInv(w)' /\ InOrder
<1>0. PICK n : n = Cardinality(sent)
  OBVIOUS
<1>1. n \in Nat /\ n < MaxPackets /\ n + 1 \in Nat /\ n + 1 <= MaxPackets /\ start.ts \in Stamps
  BY <1>0, FS_CardinalityType, StreamAssumption DEF OrderInv, Sends
<1>2. PICK p : p = [n |-> n, seq |-> tx.next_seq, ts |-> ts, roc |-> txc'.sender_roc]
  OBVIOUS
<1>3. p.n = n /\ p.ts = ts
  BY <1>2
<1>4. /\ sent' = sent \cup {p} /\ tx' = session
      /\ UNCHANGED <<start, jb, lastPlayed, frames, cleared>>
  BY <1>0, <1>2 DEF Sends, receiving, history
<1>5. ~(p \in sent)
  <2>1. \A q \in sent : q.n < n
    BY <1>0 DEF OrderInv
  <2> QED
    BY <1>1, <1>3, <2>1
<1>6. IsFiniteSet(sent') /\ Cardinality(sent') = n + 1
  BY <1>0, <1>4, <1>5, FS_AddElement DEF OrderInv
<1>7. frames \in 0 .. MaxFrames /\ w \in Nat
  BY DEF OrderInv, FitsWith
<1>8. /\ n * w \in Nat /\ frames * Spp \in Nat /\ (n + 1) * w = n * w + w
  BY <1>1, <1>7, Bounds
<1>9. PICK b, f, c, g : /\ b = Spoken(w) /\ f = Heard(w) /\ c = b + w /\ g = f + w
  OBVIOUS
<1>10. b \in Nat /\ f \in Nat /\ c \in Nat /\ g \in Nat /\ b <= c /\ f <= g
  BY <1>0, <1>7, <1>8, <1>9 DEF Spoken, Heard
<1>11. Spoken(w)' = c /\ Heard(w)' = g
  BY <1>0, <1>4, <1>6, <1>7, <1>8, <1>9 DEF Spoken, Heard
<1>12. Ordered(jb, lastPlayed, c, g)
  BY <1>1, <1>9, <1>10, OrderedLater DEF OrderInv
<1>13. Ordered(jb, lastPlayed, Spoken(w), Heard(w))'
  BY <1>4, <1>11, <1>12 DEF Ordered, Since
<1>14. \A z \in Stamps : Since(z) \in Int
  BY <1>1, SinceFacts, SpaceFacts DEF Stamps
<1>15. \A q \in sent' : q.n \in Nat /\ q.n < n + 1 /\ q.ts \in Stamps /\ Since(q.ts) <= c
  <2> SUFFICES ASSUME NEW q \in sent'
               PROVE  q.n \in Nat /\ q.n < n + 1 /\ q.ts \in Stamps /\ Since(q.ts) <= c
    OBVIOUS
  <2>1. CASE q = p
    BY <1>1, <1>3, <1>9, <2>1
  <2>2. CASE q \in sent
    <3>1. q.n \in Nat /\ q.n < n /\ q.ts \in Stamps /\ Since(q.ts) <= b
      BY <1>0, <1>9, <2>2 DEF OrderInv, SentBy
    <3>2. Since(q.ts) \in Int
      BY <1>14, <3>1
    <3> QED
      BY <1>1, <1>10, <3>1, <3>2
  <2> QED
    BY <1>4, <2>1, <2>2
<1>16. SentBy(Spoken(w))'
  BY <1>4, <1>9, <1>11, <1>15 DEF SentBy, Since
<1>17. OrderInv(w)'
  BY <1>1, <1>4, <1>6, <1>7, <1>13, <1>15, <1>16 DEF OrderInv, Balanced
<1> QED
  BY <1>4, <1>17 DEF InOrder

LEMMA OrderStep ==
    ASSUME NEW w, FitsWith(w), OrderInv(w), [MsNext]_msVars
    PROVE  OrderInv(w)' /\ [InOrder]_msVars
<1> USE SpaceFacts, JitterAssumption, StreamAssumption
<1>1. PICK n : n = Cardinality(sent)
  OBVIOUS
<1>2. n \in Nat /\ n <= MaxPackets /\ start.ts \in Stamps /\ frames \in 0 .. MaxFrames
      /\ w \in Nat /\ Spp <= w
  BY <1>1, FS_CardinalityType DEF OrderInv, FitsWith
<1>3. PICK now : now = tx.current_timestamp
  OBVIOUS
<1>4. PICK b : b = Spoken(w)
  OBVIOUS
<1>5. now \in Stamps /\ Since(now) \in Nat /\ Since(now) <= b /\ b \in Nat
  <2>1. now \in Stamps /\ Since(now) <= b
    BY <1>3, <1>4 DEF OrderInv, SentBy
  <2>2. b \in Nat
    BY <1>1, <1>2, <1>4, Bounds DEF Spoken
  <2> QED
    BY <1>2, <2>1, <2>2, SinceFacts DEF Stamps
<1>6. ASSUME n < MaxPackets, NEW x \in Nat, x <= w
      PROVE  /\ (now + x) % TsSpace \in Stamps
             /\ Since((now + x) % TsSpace) = Since(now) + x
  <2>1. n + 1 \in Nat /\ n + 1 <= MaxPackets
    BY <1>2, <1>6
  <2>2. (n + 1) * w = n * w + w /\ n * w \in Nat /\ frames * Spp \in Nat
    BY <1>2, Bounds
  <2>3. (n + 1) * w + frames * Spp < TsSpace \div 2
    BY <1>2, <2>1, Bounds
  <2>4. b + w < TsSpace
    BY <1>1, <1>2, <1>4, <2>2, <2>3 DEF Spoken
  <2>5. Since(now) + x < TsSpace
    BY <1>2, <1>5, <1>6, <2>4
  <2> QED
    BY <1>2, <1>5, <2>5, SinceFacts
<1>7. CASE encode_audio
  <2>1. Sends(create_packet(tx, Spp), now)
    BY <1>3, <1>7 DEF encode_audio
  <2>2. n < MaxPackets
    BY <1>1, <2>1 DEF Sends
  <2>3. create_packet(tx, Spp).current_timestamp = (now + Spp) % TsSpace
    BY <1>3 DEF create_packet
  <2>4. (now + Spp) % TsSpace \in Stamps /\ Since((now + Spp) % TsSpace) = Since(now) + Spp
    BY <1>2, <1>6, <2>2
  <2>5. Since(now) <= Spoken(w) + w /\ Since((now + Spp) % TsSpace) <= Spoken(w) + w
    BY <1>2, <1>4, <1>5, <2>4
  <2> QED
    BY <1>5, <2>1, <2>3, <2>4, <2>5, SendInOrder
<1>8. ASSUME NEW gap \in Gaps, TalkspurtAt(gap)
      PROVE  OrderInv(w)' /\ InOrder
  <2>1. gap \in Nat /\ gap <= w
    BY DEF FitsWith
  <2>2. PICK ts : ts = (now + gap) % TsSpace
    OBVIOUS
  <2>3. Sends(create_packet_at(tx, ts), ts)
    BY <1>3, <1>8, <2>2 DEF TalkspurtAt
  <2>4. n < MaxPackets
    BY <1>1, <2>3 DEF Sends
  <2>5. create_packet_at(tx, ts).current_timestamp = ts
    BY DEF create_packet_at
  <2>6. ts \in Stamps /\ Since(ts) = Since(now) + gap
    BY <1>6, <2>1, <2>2, <2>4
  <2>7. Since(ts) <= Spoken(w) + w
    BY <1>2, <1>4, <1>5, <2>1, <2>6
  <2> QED
    BY <2>3, <2>5, <2>6, <2>7, SendInOrder
<1>9. CASE get_audio_frame
  <2>1. UNCHANGED <<start, tx, sent, cleared>> /\ frames < MaxFrames /\ Pops(jb)
    BY <1>9 DEF get_audio_frame, sending, history
  <2>2. Balanced(jb, cleared) /\ Ordered(jb, lastPlayed, Spoken(w), Heard(w))
    BY DEF OrderInv
  <2> QED
    BY <2>1, <2>2, PopInOrder
<1>10. CASE ResetBuffer
  <2>1. /\ UNCHANGED <<start, tx, sent, frames>> /\ jb' = reset(jb)
        /\ cleared' = cleared + Cardinality(jb.packets) /\ lastPlayed' = NothingPlayed
    BY <1>10 DEF ResetBuffer, sending
  <2>2. Balanced(reset(jb), cleared + Cardinality(jb.packets))
    BY ResetKeeps DEF OrderInv
  <2>3. /\ reset(jb).packets = {} /\ reset(jb).next_playout_ts = NoTs
        /\ ~reset(jb).primed
    BY DEF reset, NewJitterBuffer
  <2>4. Ordered(jb, lastPlayed, Spoken(w), Heard(w))'
    BY <2>1, <2>3 DEF Ordered
  <2>5. Balanced(jb, cleared)'
    BY <2>1, <2>2
  <2>6. SentBy(Spoken(w))'
    BY <2>1 DEF OrderInv, SentBy, Spoken, Since
  <2>7. OrderInv(w)'
    BY <2>1, <2>4, <2>5, <2>6 DEF OrderInv
  <2> QED
    BY <2>1, <2>7 DEF InOrder
<1>11. CASE UNCHANGED msVars
  <2>1. UNCHANGED <<start, tx, sent, jb, lastPlayed, frames, cleared>>
    BY <1>11 DEF msVars, sending, receiving, history
  <2>2. OrderInv(w)'
    BY <2>1 DEF OrderInv, SentBy, Spoken, Heard, Balanced, Ordered, Since
  <2> QED
    BY <1>11, <2>2
<1> QED
  BY <1>7, <1>8, <1>9, <1>10, <1>11, ArriveInOrder DEF MsNext

LEMMA OrderInit ==
    ASSUME NEW w, FitsWith(w), MsInit
    PROVE  OrderInv(w)
<1> USE SpaceFacts, JitterAssumption, StreamAssumption
<1>1. start.ts \in Stamps /\ tx.current_timestamp = start.ts
  BY DEF MsInit, NewSender, Stamps
<1>2. sent = {} /\ IsFiniteSet(sent) /\ Cardinality(sent) = 0 /\ frames = 0 /\ w \in Nat
      /\ MaxFrames \in Nat
  BY FS_EmptySet DEF MsInit, FitsWith
<1>3. Spoken(w) = 0
  BY <1>2 DEF Spoken
<1>4. SentBy(Spoken(w))
  BY <1>1, <1>2, <1>3, SinceFacts DEF SentBy
<1>5. /\ jb.packets = {} /\ jb.next_playout_ts = NoTs /\ ~jb.primed
      /\ lastPlayed = NothingPlayed
  BY DEF MsInit, NewJitterBuffer
<1>6. Ordered(jb, lastPlayed, Spoken(w), Heard(w))
  BY <1>5 DEF Ordered
<1>7. Balanced(jb, cleared)
  BY StatInit DEF StatInv
<1> QED
  BY <1>1, <1>2, <1>4, <1>6, <1>7 DEF OrderInv

(* Playout never goes back in the time of the sender, through every wrap   *)
(* of the timestamp and whatever is lost, repeated, reordered or cleared,  *)
(* for a stream that, with the frames concealed in it, is shorter than     *)
(* half the timestamp space (2^31 samples in the code).                    *)
THEOREM PlayoutIsOrdered ==
    ASSUME StreamFits
    PROVE  MsSpec => PlayedInOrder
<1>1. PICK w : FitsWith(w)
  BY DEF StreamFits
<1>2. MsInit => OrderInv(w)
  BY <1>1, OrderInit
<1>3. OrderInv(w) /\ [MsNext]_msVars => OrderInv(w)' /\ [InOrder]_msVars
  BY <1>1, OrderStep
<1>4. MsSpec => [][InOrder]_msVars
  BY <1>2, <1>3, PTL DEF MsSpec
<1>5. InOrder <=> \/ lastPlayed' \in {lastPlayed, NothingPlayed}
                  \/ lastPlayed = NothingPlayed
                  \/ MediaTime(lastPlayed') >= MediaTime(lastPlayed)
  BY DEF InOrder
<1> QED
  BY <1>4, <1>5, PTL DEF PlayedInOrder

-----------------------------------------------------------------------------
(* Key presses.                                                            *)

DtmfPackets == [digit : Digits, end : BOOLEAN]
DtmfReceivers == [current_event : Digits \cup {NoDigit}, last_event : Digits \cup {NoDigit}]

\* The packets under way as blocks, one for every press: block k ends at
\* place b[k] of the channel, counted from the receiver's end, so that what
\* was delivered has places below 1.  Of a block the last three packets have
\* the end bit and at least one has not.  The first c blocks are delivered.
Framed(b, c, pr, ch, re, last) ==
  /\ pr \in Seq(Digits) /\ ch \in Seq(DtmfPackets) /\ re \in Seq(Digits)
  /\ b \in [0 .. Len(pr) -> Int] /\ c \in 0 .. Len(pr)
  /\ b[c] <= 0 /\ b[Len(pr)] = Len(ch)
  /\ c < Len(pr) => b[c + 1] >= 1
  /\ \A j, k \in 0 .. Len(pr) : j < k => b[j] + 4 <= b[k]
  /\ \A k \in 1 .. Len(pr), i \in 1 .. Len(ch) :
       b[k - 1] < i /\ i <= b[k] => /\ ch[i].digit = pr[k]
                                    /\ ch[i].end <=> i > b[k] - 3
  /\ Len(re) = IF c < Len(pr) /\ b[c + 1] <= 2 THEN c + 1 ELSE c
  /\ \A k \in 1 .. Len(re) : re[k] = pr[k]
  /\ c < Len(pr) /\ b[c + 1] <= 2 => last = pr[c + 1]
  /\ c < Len(pr) /\ b[c + 1] = 3 => last = NoDigit

\* While nothing is lost, and with no press of a single packet.
DtmfInv ==
  /\ lost \in BOOLEAN
  /\ 1 \notin Durations /\ ~lost =>
       /\ receiver \in DtmfReceivers
       /\ \E b, c : Framed(b, c, pressed, channel, reported, receiver.last_event)

LEMMA FramedInit ==
    Framed([k \in 0 .. 0 |-> 0], 0, <<>>, <<>>, <<>>, NoDigit)
BY DEF Framed

LEMMA FramedDone ==
    ASSUME NEW b, NEW c, NEW pr, NEW re, NEW last, Framed(b, c, pr, <<>>, re, last)
    PROVE  re = pr
<1>1. /\ pr \in Seq(Digits) /\ re \in Seq(Digits) /\ Len(pr) \in Nat
      /\ c \in 0 .. Len(pr) /\ b[Len(pr)] = 0
      /\ b \in [0 .. Len(pr) -> Int]
  BY DEF Framed
<1>2. c = Len(pr)
  <2> SUFFICES ASSUME c < Len(pr) PROVE FALSE
    BY <1>1
  <2>1. b[c + 1] >= 1
    BY DEF Framed
  <2>2. c + 1 = Len(pr) \/ b[c + 1] + 4 <= b[Len(pr)]
    BY <1>1 DEF Framed
  <2>3. b[c + 1] \in Int
    BY <1>1
  <2> QED
    BY <1>1, <2>1, <2>2, <2>3
<1>3. Len(re) = Len(pr) /\ \A k \in 1 .. Len(re) : re[k] = pr[k]
  BY <1>1, <1>2 DEF Framed
<1> QED
  BY <1>1, <1>3, SeqEqual

LEMMA FramedPress ==
    ASSUME NEW b, NEW c, NEW pr, NEW ch, NEW re, NEW last, Framed(b, c, pr, ch, re, last),
           NEW digit \in Digits, NEW count \in Nat, count >= 2
    PROVE  \E b2 : Framed(b2, c, Append(pr, digit), ch \o generate_packets(digit, count), re, last)
<1>0. PICK n : n = Len(pr)
  OBVIOUS
<1> DEFINE g == generate_packets(digit, count)
           b2 == [k \in 0 .. n + 1 |-> IF k <= n THEN b[k] ELSE Len(ch) + count + 2]
           pr2 == Append(pr, digit)
           ch2 == ch \o g
<1>1. /\ pr \in Seq(Digits) /\ ch \in Seq(DtmfPackets) /\ re \in Seq(Digits) /\ n \in Nat
      /\ Len(ch) \in Nat /\ b \in [0 .. n -> Int] /\ c \in 0 .. n
      /\ b[c] <= 0 /\ b[n] = Len(ch)
  BY <1>0 DEF Framed
<1>2. /\ g \in Seq(DtmfPackets) /\ Len(g) = count + 2
      /\ \A i \in 1 .. count + 2 : g[i].digit = digit /\ (g[i].end <=> i >= count)
  <2>1. \A i \in 1 .. count + 2 : [digit |-> digit, end |-> i >= count] \in DtmfPackets
    BY DEF DtmfPackets
  <2>2. g = [i \in 1 .. count + 2 |-> [digit |-> digit, end |-> i >= count]]
    BY DEF generate_packets
  <2> HIDE DEF g
  <2>3. g \in Seq(DtmfPackets) /\ Len(g) = count + 2
    BY <2>1, <2>2
  <2> QED
    BY <2>2, <2>3
<1> HIDE DEF g
<1>3. /\ ch2 \in Seq(DtmfPackets) /\ Len(ch2) = Len(ch) + count + 2
      /\ \A i \in 1 .. Len(ch2) : ch2[i] = IF i <= Len(ch) THEN ch[i] ELSE g[i - Len(ch)]
  <2>0. ch \in Seq(DtmfPackets) /\ g \in Seq(DtmfPackets)
    BY <1>1, <1>2
  <2>1. /\ ch \o g \in Seq(DtmfPackets)
        /\ Len(ch \o g) = Len(ch) + Len(g)
        /\ \A i \in 1 .. Len(ch) + Len(g) :
             (ch \o g)[i] = IF i <= Len(ch) THEN ch[i] ELSE g[i - Len(ch)]
    <3>1. ch \o g \in Seq(DtmfPackets)
      BY <2>0, ConcatProperties
    <3>2. Len(ch \o g) = Len(ch) + Len(g)
      BY <2>0, ConcatProperties
    <3>3. \A i \in 1 .. Len(ch) + Len(g) :
             (ch \o g)[i] = IF i <= Len(ch) THEN ch[i] ELSE g[i - Len(ch)]
      BY <2>0, ConcatProperties
    <3> QED
      BY <3>1, <3>2, <3>3
  <2>2. Len(ch) + Len(g) = Len(ch) + count + 2
    BY <1>1, <1>2
  <2> QED
    BY <2>1, <2>2
<1>4. /\ pr2 \in Seq(Digits) /\ Len(pr2) = n + 1
      /\ \A k \in 1 .. n + 1 : pr2[k] = IF k <= n THEN pr[k] ELSE digit
  BY <1>0, <1>1
<1>5. /\ b2 \in [0 .. n + 1 -> Int] /\ b2[n + 1] = Len(ch) + count + 2
      /\ \A k \in 0 .. n : b2[k] = b[k] /\ b[k] \in Int
  <2>1. \A k \in 0 .. n : b[k] \in Int
    BY <1>1
  <2>2. Len(ch) + count + 2 \in Int /\ n + 1 \in 0 .. n + 1 /\ ~(n + 1 <= n)
    BY <1>1
  <2>3. \A k \in 0 .. n + 1 : (k <= n => k \in 0 .. n)
    BY <1>1
  <2>4. \A k \in 0 .. n : k \in 0 .. n + 1 /\ k <= n
    BY <1>1
  <2> QED
    BY <2>1, <2>2, <2>3, <2>4
<1> HIDE DEF ch2, pr2, b2
<1>6. c \in 0 .. n + 1 /\ b2[c] <= 0 /\ b2[Len(pr2)] = Len(ch2)
  BY <1>1, <1>3, <1>4, <1>5
<1>7. c < n + 1 /\ b2[c + 1] >= 1
  <2>1. CASE c < n
    BY SMTT(30), <1>0, <1>1, <1>5, <2>1 DEF Framed
  <2>2. CASE c = n
    BY <1>1, <1>5, <2>2
  <2> QED
    BY <1>1, <2>1, <2>2
<1>8. \A j, k \in 0 .. n + 1 : j < k => b2[j] + 4 <= b2[k]
  <2> SUFFICES ASSUME NEW j \in 0 .. n + 1, NEW k \in 0 .. n + 1, j < k
               PROVE  b2[j] + 4 <= b2[k]
    OBVIOUS
  <2>1. CASE k <= n
    <3>1. j \in 0 .. n /\ k \in 0 .. n
      BY <1>1, <2>1
    <3>2. b[j] + 4 <= b[k]
      BY <1>0, <3>1 DEF Framed
    <3> QED
      BY <1>5, <3>1, <3>2
  <2>2. CASE k = n + 1
    <3>1. b[j] <= b[n]
      <4>1. CASE j = n
        BY <1>1, <4>1
      <4>2. CASE j < n
        <5>1. b[j] + 4 <= b[n]
          BY <1>0, <1>1, <4>2 DEF Framed
        <5> QED
          BY <1>1, <1>5, <4>2, <5>1
      <4> QED
        BY <1>1, <2>2, <4>1, <4>2
    <3> QED
      BY <1>1, <1>5, <2>2, <3>1
  <2> QED
    BY <1>1, <2>1, <2>2
<1>9. ASSUME NEW k \in 1 .. n + 1, NEW i \in 1 .. Len(ch2), b2[k - 1] < i, i <= b2[k]
      PROVE  ch2[i].digit = pr2[k] /\ (ch2[i].end <=> i > b2[k] - 3)
  <2>1. CASE k <= n
    <3>1. b[k] <= b[n]
      <4>1. k = n \/ b[k] + 4 <= b[n]
        BY <1>0, <1>1, <2>1 DEF Framed
      <4> QED
        BY SMTT(30), <1>1, <1>5, <2>1, <4>1
    <3>2. i <= Len(ch) /\ b2[k] = b[k] /\ b2[k - 1] = b[k - 1]
      BY SMTT(30), <1>1, <1>3, <1>5, <1>9, <2>1, <3>1
    <3>3. ch[i].digit = pr[k] /\ (ch[i].end <=> i > b[k] - 3)
      <4>1. i \in 1 .. Len(ch) /\ k \in 1 .. n /\ b[k - 1] < i /\ i <= b[k]
        BY <1>1, <1>3, <1>9, <2>1, <3>2
      <4> QED
        BY <1>0, <4>1 DEF Framed
    <3> QED
      BY <1>3, <1>4, <2>1, <3>2, <3>3
  <2>2. CASE k = n + 1
    <3>1. i > Len(ch) /\ i - Len(ch) \in 1 .. count + 2 /\ b2[k] = Len(ch) + count + 2
      BY <1>1, <1>3, <1>5, <1>9, <2>2
    <3>2. ch2[i] = g[i - Len(ch)] /\ pr2[k] = digit
      BY <1>1, <1>3, <1>4, <2>2, <3>1
    <3>a. i \in Int /\ Len(ch) \in Int
      BY <1>1, <1>3
    <3>3. (i - Len(ch) >= count) <=> (i > b2[k] - 3)
      BY <3>a, <3>1
    <3> QED
      BY <1>2, <3>1, <3>2, <3>3
  <2> QED
    BY <1>1, <2>1, <2>2
<1>10. b2[n + 1] >= 4 + b[n]
  BY <1>1, <1>5
<1>11. /\ Len(re) = IF c < n + 1 /\ b2[c + 1] <= 2 THEN c + 1 ELSE c
       /\ c < n + 1 /\ b2[c + 1] <= 2 => last = pr2[c + 1]
       /\ c < n + 1 /\ b2[c + 1] = 3 => last = NoDigit
  <2>1. CASE c < n
    BY SMTT(30), <1>0, <1>1, <1>4, <1>5, <2>1 DEF Framed
  <2>2. CASE c = n
    <3>1. Len(re) = c
      BY <1>0, <1>1, <2>2 DEF Framed
    <3>2. b2[c + 1] >= 4
      BY <1>1, <1>5, <2>2
    <3> QED
      BY <1>5, <2>2, <3>1, <3>2
  <2> QED
    BY <1>1, <2>1, <2>2
<1>12. \A k \in 1 .. Len(re) : re[k] = pr2[k]
  <2>1. Len(re) <= n /\ Len(re) \in Nat
    BY <1>0, <1>1 DEF Framed
  <2> QED
    BY <1>0, <1>1, <1>4, <2>1 DEF Framed
<1>13. Framed(b2, c, pr2, ch2, re, last)
  BY <1>0, <1>1, <1>3, <1>4, <1>5, <1>6, <1>7, <1>8, <1>9, <1>11, <1>12 DEF Framed
<1> QED
  BY <1>13 DEF pr2, ch2, g

\* The receiver takes the first packet of the channel.
LEMMA FramedDeliver ==
    ASSUME NEW b, NEW c, NEW pr, NEW ch, NEW re, NEW r,
           r \in DtmfReceivers,
           Framed(b, c, pr, ch, re, r.last_event), ch # <<>>
    PROVE  \E b2, c2 : Framed(b2, c2, pr, Tail(ch), re \o Returned(r, Head(ch)),
                              process_packet(r, Head(ch)).last_event)
<1>0. PICK n, p : n = Len(pr) /\ p = ch[1]
  OBVIOUS
<1>1. /\ pr \in Seq(Digits) /\ ch \in Seq(DtmfPackets) /\ re \in Seq(Digits) /\ n \in Nat
      /\ Len(ch) \in Nat /\ Len(ch) >= 1 /\ Len(re) \in Nat
      /\ b \in [0 .. n -> Int] /\ c \in 0 .. n
      /\ b[c] <= 0 /\ b[n] = Len(ch)
  BY <1>0 DEF Framed
<1>2. c < n /\ c + 1 \in 1 .. n /\ b[c] \in Int /\ b[c + 1] \in Int
  <2>1. c # n
    BY <1>1
  <2> QED
    BY <1>1, <2>1
<1>3. PICK e : e = b[c + 1]
  OBVIOUS
<1>4. e \in Int /\ e >= 1
  BY <1>0, <1>2, <1>3 DEF Framed
<1>5. p = Head(ch) /\ p.digit = pr[c + 1] /\ (p.end <=> 1 > e - 3) /\ p.digit \in Digits
  <2>1. 1 \in 1 .. Len(ch) /\ b[(c + 1) - 1] < 1 /\ 1 <= b[c + 1]
    BY <1>1, <1>2, <1>3, <1>4
  <2>2. p.digit = pr[c + 1] /\ (p.end <=> 1 > b[c + 1] - 3)
    BY <1>0, <1>2, <2>1 DEF Framed
  <2>3. pr[c + 1] \in Digits
    BY <1>0, <1>1, <1>2
  <2> QED
    BY <1>0, <1>1, <1>3, <2>2, <2>3
<1> DEFINE b2 == [k \in 0 .. n |-> b[k] - 1]
           c2 == IF e = 1 THEN c + 1 ELSE c
           last2 == process_packet(r, p).last_event
<1>6. b2 \in [0 .. n -> Int] /\ \A k \in 0 .. n : b2[k] = b[k] - 1 /\ b[k] \in Int
  <2>1. \A k \in 0 .. n : b[k] \in Int /\ b[k] - 1 \in Int
    BY <1>1
  <2> QED
    BY <2>1
<1>7. PICK t : t = Tail(ch)
  OBVIOUS
<1>8. /\ t \in Seq(DtmfPackets) /\ Len(t) = Len(ch) - 1
      /\ \A i \in 1 .. Len(t) : t[i] = ch[i + 1]
  BY <1>1, <1>7, HeadTailProperties
<1>9. c2 \in 0 .. n
  BY <1>1, <1>2
<1> HIDE DEF b2
<1>10. b2[c2] <= 0 /\ b2[n] = Len(t)
  <2>1. /\ c \in 0 .. n /\ c + 1 \in 0 .. n /\ n \in 0 .. n
    BY <1>1, <1>2
  <2>2. b2[c] = b[c] - 1 /\ b2[c + 1] = e - 1 /\ b2[n] = Len(ch) - 1
    BY <1>1, <1>3, <1>6, <2>1
  <2>3. b2[c2] = IF e = 1 THEN e - 1 ELSE b[c] - 1
    BY <2>2
  <2> QED
    BY <1>1, <1>2, <1>4, <1>8, <2>2, <2>3
<1>11. c2 < n => b2[c2 + 1] >= 1
  <2>1. CASE e = 1
    <3> SUFFICES ASSUME c + 1 < n PROVE b2[c + 2] >= 1
      BY <1>1, <2>1
    <3>1. c + 1 \in 0 .. n /\ c + 2 \in 0 .. n /\ c + 1 < c + 2
      BY <1>1, <1>2
    <3>2. b[c + 1] + 4 <= b[c + 2]
      BY <1>0, <3>1 DEF Framed
    <3> QED
      BY <1>3, <1>6, <2>1, <3>1, <3>2
  <2>2. CASE e # 1
    BY SMTT(30), <1>1, <1>2, <1>3, <1>4, <1>6, <2>2
  <2> QED
    BY <2>1, <2>2
<1>12. \A j, k \in 0 .. n : j < k => b2[j] + 4 <= b2[k]
  <2> SUFFICES ASSUME NEW j \in 0 .. n, NEW k \in 0 .. n, j < k
               PROVE  b2[j] + 4 <= b2[k]
    OBVIOUS
  <2>1. b[j] + 4 <= b[k]
    BY <1>0 DEF Framed
  <2> QED
    BY <1>6, <2>1
<1>13. ASSUME NEW k \in 1 .. n, NEW i \in 1 .. Len(t), b2[k - 1] < i, i <= b2[k]
       PROVE  t[i].digit = pr[k] /\ (t[i].end <=> i > b2[k] - 3)
  <2>1. /\ i + 1 \in 1 .. Len(ch) /\ b2[k - 1] = b[k - 1] - 1 /\ b2[k] = b[k] - 1
        /\ b[k] \in Int /\ b[k - 1] \in Int
    BY SMTT(30), <1>1, <1>6, <1>8
  <2>2. b[k - 1] < i + 1 /\ i + 1 <= b[k]
    BY <1>8, <1>13, <2>1
  <2>3. ch[i + 1].digit = pr[k] /\ (ch[i + 1].end <=> i + 1 > b[k] - 3)
    BY <1>0, <2>1, <2>2 DEF Framed
  <2>4. (i + 1 > b[k] - 3) <=> (i > b2[k] - 3)
    BY <1>8, <2>1
  <2> QED
    BY <1>8, <2>3, <2>4
<1>14. /\ e <= 2 => r.last_event = pr[c + 1] /\ Len(re) = c + 1
       /\ e = 3 => r.last_event = NoDigit
       /\ e >= 3 => Len(re) = c
  BY <1>0, <1>2, <1>3, <1>4 DEF Framed
<1>15. last2 = IF e <= 3 THEN pr[c + 1] ELSE NoDigit
  <2>1. last2 = IF p.end THEN p.digit ELSE NoDigit
    BY DEF process_packet
  <2>2. p.end <=> e <= 3
    BY <1>4, <1>5
  <2> QED
    BY <1>5, <2>1, <2>2
<1>16. Returned(r, p) = IF e = 3 THEN <<pr[c + 1]>> ELSE <<>>
  <2>1. CASE e <= 2
    BY <1>4, <1>5, <1>14, <2>1 DEF Returned
  <2>2. CASE e = 3
    <3>1. p.end /\ r.last_event # p.digit
      BY <1>5, <1>14, <2>2, DtmfAssumption
    <3> QED
      BY <1>5, <2>2, <3>1 DEF Returned
  <2>3. CASE e > 3
    BY <1>4, <1>5, <2>3 DEF Returned
  <2> QED
    BY <1>4, <2>1, <2>2, <2>3
<1>17. PICK re2 : re2 = re \o Returned(r, p)
  OBVIOUS
<1>18. /\ re2 \in Seq(Digits) /\ Len(re2) = IF e <= 3 THEN c + 1 ELSE c
       /\ \A k \in 1 .. Len(re2) : re2[k] = pr[k]
  <2>0. \A k \in 1 .. Len(re) : re[k] = pr[k]
    BY DEF Framed
  <2>1. CASE e # 3
    <3>1. re2 = re
      BY <1>1, <1>16, <1>17, <2>1, ConcatEmptySeq
    <3> QED
      BY <1>1, <1>4, <1>14, <2>0, <2>1, <3>1
  <2>2. CASE e = 3
    <3>1. re2 = Append(re, pr[c + 1]) /\ pr[c + 1] \in Digits
      BY <1>1, <1>5, <1>16, <1>17, <2>2
    <3>2. /\ re2 \in Seq(Digits) /\ Len(re2) = Len(re) + 1
          /\ \A k \in 1 .. Len(re) + 1 : re2[k] = IF k = Len(re) + 1 THEN pr[c + 1] ELSE re[k]
      BY <1>1, <3>1
    <3>3. Len(re) = c
      BY <1>14, <2>2
    <3> QED
      BY <1>1, <1>2, <2>0, <2>2, <3>2, <3>3
  <2> QED
    BY <2>1, <2>2
<1> HIDE DEF last2
<1>19. /\ Len(re2) = IF c2 < n /\ b2[c2 + 1] <= 2 THEN c2 + 1 ELSE c2
       /\ c2 < n /\ b2[c2 + 1] <= 2 => last2 = pr[c2 + 1]
       /\ c2 < n /\ b2[c2 + 1] = 3 => last2 = NoDigit
  <2>1. CASE e = 1
    <3>1. c + 1 < n => b2[c + 2] >= 4
      <4> SUFFICES ASSUME c + 1 < n PROVE b2[c + 2] >= 4
        OBVIOUS
      <4>1. c + 1 \in 0 .. n /\ c + 2 \in 0 .. n /\ c + 1 < c + 2
        BY <1>1, <1>2
      <4>2. b[c + 1] + 4 <= b[c + 2]
        BY <1>0, <4>1 DEF Framed
      <4> QED
        BY <1>3, <1>6, <2>1, <4>1, <4>2
    <3>2. c2 = c + 1 /\ c2 + 1 = c + 2 /\ Len(re2) = c + 1
      BY <1>1, <1>18, <2>1
    <3>3. c2 < n => b2[c2 + 1] \in Int
      BY <1>1, <1>6, <3>2
    <3> QED
      BY <3>1, <3>2, <3>3
  <2>2. CASE e # 1
    <3>1. c2 = c /\ b2[c + 1] = e - 1
      BY <1>1, <1>2, <1>3, <1>6, <2>2
    <3> QED
      BY <1>2, <1>4, <1>15, <1>18, <2>2, <3>1
  <2> QED
    BY <2>1, <2>2
<1> HIDE DEF c2
<1>20. Framed(b2, c2, pr, t, re2, last2)
  BY <1>0, <1>1, <1>6, <1>8, <1>9, <1>10, <1>11, <1>12, <1>13, <1>18, <1>19 DEF Framed
<1> QED
  BY <1>5, <1>7, <1>17, <1>20 DEF last2

LEMMA FramedReset ==
    ASSUME NEW b, NEW c, NEW pr, NEW re, NEW last, NEW last2, Framed(b, c, pr, <<>>, re, last)
    PROVE  Framed(b, c, pr, <<>>, re, last2)
<1>1. c \in 0 .. Len(pr) /\ Len(pr) \in Nat /\ b[Len(pr)] = 0 /\ b \in [0 .. Len(pr) -> Int]
  BY DEF Framed
<1>2. ~(c < Len(pr))
  <2> SUFFICES ASSUME c < Len(pr) PROVE FALSE
    OBVIOUS
  <2>1. b[c + 1] >= 1
    BY DEF Framed
  <2>2. c + 1 = Len(pr) \/ b[c + 1] + 4 <= b[Len(pr)]
    BY <1>1 DEF Framed
  <2>3. b[c + 1] \in Int
    BY <1>1
  <2> QED
    BY <1>1, <2>1, <2>2, <2>3
<1> QED
  BY <1>2 DEF Framed

LEMMA DtmfStep ==
    ASSUME DtmfInv, [DlNext]_dlVars
    PROVE  DtmfInv'
<1>0. lost \in BOOLEAN /\ (1 \notin Durations /\ ~lost => receiver \in DtmfReceivers)
  BY DEF DtmfInv
<1>1. ASSUME NEW digit \in Digits, NEW count \in Durations, Press(digit, count)
      PROVE  DtmfInv'
  <2>1. /\ pressed' = Append(pressed, digit)
        /\ channel' = channel \o generate_packets(digit, count)
        /\ UNCHANGED <<receiver, reported, lost>>
    BY <1>1 DEF Press
  <2>2. ASSUME 1 \notin Durations, ~lost
        PROVE  \E b, c : Framed(b, c, pressed', channel', reported', receiver'.last_event)
    <3>1. PICK b, c : Framed(b, c, pressed, channel, reported, receiver.last_event)
      BY <2>2 DEF DtmfInv
    <3>2. count \in Nat /\ count >= 2
      BY <2>2, DtmfAssumption
    <3> QED
      BY <2>1, <3>1, <3>2, FramedPress
  <2> QED
    BY <1>0, <2>1, <2>2 DEF DtmfInv
<1>2. CASE Deliver
  <2>1. /\ channel # <<>> /\ channel' = Tail(channel)
        /\ receiver' = process_packet(receiver, Head(channel))
        /\ reported' = reported \o Returned(receiver, Head(channel))
        /\ UNCHANGED <<pressed, lost>>
    BY <1>2 DEF Deliver
  <2>2. ASSUME 1 \notin Durations, ~lost
        PROVE  /\ receiver' \in DtmfReceivers
               /\ \E b, c : Framed(b, c, pressed', channel', reported', receiver'.last_event)
    <3>1. PICK b, c : Framed(b, c, pressed, channel, reported, receiver.last_event)
      BY <2>2 DEF DtmfInv
    <3>2. \E b2, c2 : Framed(b2, c2, pressed, Tail(channel),
                             reported \o Returned(receiver, Head(channel)),
                             process_packet(receiver, Head(channel)).last_event)
      BY <1>0, <2>1, <2>2, <3>1, FramedDeliver
    <3>3. Head(channel) \in DtmfPackets
      BY <2>1, <3>1 DEF Framed
    <3>4. receiver' \in DtmfReceivers
      BY <2>1, <3>3 DEF process_packet, DtmfPackets, DtmfReceivers
    <3> QED
      BY <2>1, <3>2, <3>4
  <2> QED
    BY <1>0, <2>1, <2>2 DEF DtmfInv
<1>3. CASE Lose
  BY <1>0, <1>3 DEF Lose, DtmfInv
<1>4. CASE ResetReceiver
  <2>1. /\ channel = <<>> /\ receiver' = NewDtmfReceiver
        /\ UNCHANGED <<pressed, channel, reported, lost>>
    BY <1>4 DEF ResetReceiver
  <2>2. receiver' \in DtmfReceivers
    BY <2>1 DEF NewDtmfReceiver, DtmfReceivers
  <2>3. ASSUME 1 \notin Durations, ~lost
        PROVE  \E b, c : Framed(b, c, pressed', channel', reported', receiver'.last_event)
    <3>1. PICK b, c : Framed(b, c, pressed, channel, reported, receiver.last_event)
      BY <2>3 DEF DtmfInv
    <3>2. Framed(b, c, pressed, <<>>, reported, receiver'.last_event)
      BY <2>1, <3>1, FramedReset
    <3> QED
      BY <2>1, <3>2
  <2> QED
    BY <1>0, <2>1, <2>2, <2>3 DEF DtmfInv
<1>5. CASE UNCHANGED dlVars
  BY <1>5 DEF dlVars, DtmfInv
<1> QED
  BY <1>1, <1>2, <1>3, <1>4, <1>5 DEF DlNext

(* Without loss every key press is reported once and in order, also when a *)
(* key is pressed twice in a row: for every alphabet, every number of      *)
(* presses and every length of a press of two packets and more, through    *)
(* the repeated end packets and a reset of the receiver between presses.   *)
THEOREM PressesAreReported == DlSpec => []EveryPressReported
<1>1. DlInit => DtmfInv
  <2> SUFFICES ASSUME DlInit PROVE DtmfInv
    OBVIOUS
  <2>1. receiver \in DtmfReceivers /\ receiver.last_event = NoDigit /\ lost = FALSE
    BY DEF DlInit, NewDtmfReceiver, DtmfReceivers
  <2> QED
    BY <2>1, FramedInit DEF DlInit, DtmfInv
<1>2. DtmfInv /\ [DlNext]_dlVars => DtmfInv'
  BY DtmfStep
<1>3. DtmfInv => EveryPressReported
  BY FramedDone DEF DtmfInv, EveryPressReported
<1> QED
  BY <1>1, <1>2, <1>3, PTL DEF DlSpec

-----------------------------------------------------------------------------
(* SdpNegotiation.                                                         *)

\* Where the media of the callee comes from, what its answer is, and that the
\* caller takes the first line it can use; a refresh is of the session that is up.
SdpInv ==
    /\ offer \in SdpOffers /\ media = [s \in Sides |-> media[s]]
    /\ stage = "pending" =>
          path = "deferred" /\ \E k \in Negotiated(offer) : pending = NegotiatedMedia(offer, k)
    /\ stage \in {"answered", "up"} =>
          \/ /\ path = "direct" /\ Negotiated(offer) # {}
             /\ media["uas"] = NegotiatedMedia(offer, Min(Negotiated(offer)))
             /\ answer = AnswerTo(offer, CalleePort)
          \/ /\ path = "deferred" /\ answer = DeferredAnswer(media["uas"])
             /\ \E k \in Negotiated(offer) : media["uas"] = NegotiatedMedia(offer, k)
    /\ stage = "up" => /\ UsableLines(answer) # {}
                       /\ media["uac"] = process_answer(answer, Min(UsableLines(answer)))
    /\ refresh # NoSdp => stage = "up" /\ \E s \in Sides : refresh = build_refresh_invite_sdp(s)

LEMMA LeastIs ==
    ASSUME NEW S, S \subseteq Nat, S # {}
    PROVE  Min(S) \in S /\ \A y \in S : Min(S) <= y
<1>1. \E x \in S : \A y \in S : ~(<<y, x>> \in OpToRel(<, Nat))
  BY NatLessThanWellFounded, WFMin
<1>2. PICK x \in S : \A y \in S : ~(y < x)
  BY <1>1 DEF OpToRel
<1>3. \A y \in S : x <= y
  BY <1>2
<1> QED
  BY <1>3 DEF Min

LEMMA LeastOf ==
    ASSUME NEW S, S \subseteq Nat, NEW x \in S, \A y \in S : x <= y
    PROVE  Min(S) = x
<1>1. PICK least : least = Min(S)
  OBVIOUS
<1>2. least \in S /\ least <= x
  BY <1>1, LeastIs
<1>3. least \in Nat /\ x \in Nat /\ x <= least
  BY <1>2
<1>4. least = x
  BY <1>2, <1>3
<1> QED
  BY <1>1, <1>4

LEMMA GreatestIs ==
    ASSUME NEW n \in Nat, NEW S, S \subseteq 1 .. n, S # {}
    PROVE  Max(S) \in S
<1>1. PICK T : T = {n - x : x \in S}
  OBVIOUS
<1>a. \A x \in S : x \in Nat /\ n - x \in Nat
  OBVIOUS
<1>2. T \subseteq Nat /\ T # {}
  BY <1>1, <1>a
<1>3. Min(T) \in T /\ \A y \in T : Min(T) <= y
  BY <1>2, LeastIs
<1>4. PICK x \in S : n - x = Min(T)
  BY <1>1, <1>3
<1>5. ASSUME NEW y \in S PROVE x >= y
  <2>1. n - y \in T
    BY <1>1
  <2>2. n - x <= n - y
    BY <1>3, <1>4, <2>1
  <2> QED
    BY <2>2
<1> QED
  BY <1>5 DEF Max

LEMMA OfferFacts ==
    ASSUME NEW sdp \in SdpOffers
    PROVE  /\ Description(sdp) /\ DOMAIN sdp.media \subseteq Nat
           /\ Negotiated(sdp) \subseteq Nat /\ AudioLines(sdp) \subseteq Nat
           /\ Negotiated(sdp) \subseteq AudioLines(sdp)
<1>1. Description(sdp)
  BY SdpAssumption
<1> QED
  BY <1>1 DEF Description, Negotiated, AudioLines, Answerable

\* The codec negotiated on a line is one of ours and one the line offers.
LEMMA CodecIsOurs ==
    ASSUME NEW sdp \in SdpOffers, NEW k \in Negotiated(sdp)
    PROVE  /\ NegotiatedMedia(sdp, k).codec.encoding \in Codecs
           /\ Offered(sdp.media[k], NegotiatedMedia(sdp, k).codec)
           /\ NegotiatedMedia(sdp, k).codec = CodecFor(sdp.media[k])
           /\ NegotiatedMedia(sdp, k).remote_port = sdp.media[k].port
<1>1. PICK m : m = sdp.media[k]
  OBVIOUS
<1>2. /\ DOMAIN m.formats \subseteq Nat /\ DOMAIN m.rtpmaps \subseteq Nat
      /\ MappedMatches(m) \cup StaticMatches(m) # {}
  BY <1>1, OfferFacts DEF Description, Negotiated, Answerable
<1>3. PICK c : c = CodecFor(m)
  OBVIOUS
<1>4. c.encoding \in Codecs /\ Offered(m, c)
  <2>1. CASE MappedMatches(m) # {}
    <3>1. MappedMatches(m) \subseteq Nat
      BY <1>2 DEF MappedMatches
    <3>2. PICK i : i = Min(MappedMatches(m))
      OBVIOUS
    <3>3. i \in MappedMatches(m)
      BY <2>1, <3>1, <3>2, LeastIs
    <3>4. c = m.rtpmaps[i]
      BY <1>3, <2>1, <3>2 DEF CodecFor
    <3> QED
      BY <3>3, <3>4 DEF MappedMatches, Offered
  <2>2. CASE MappedMatches(m) = {}
    <3>1. StaticMatches(m) \subseteq Nat /\ StaticMatches(m) # {}
      BY <1>2, <2>2 DEF StaticMatches
    <3>2. PICK i : i = Min(StaticMatches(m))
      OBVIOUS
    <3>3. i \in StaticMatches(m)
      BY <3>1, <3>2, LeastIs
    <3>4. c = [pt |-> m.formats[i], encoding |-> Static[m.formats[i]]]
      BY <1>3, <2>2, <3>2 DEF CodecFor
    <3>5. c.pt = m.formats[i] /\ c.encoding = Static[m.formats[i]]
      BY <3>4
    <3> QED
      BY <3>3, <3>5 DEF StaticMatches, Offered
  <2> QED
    BY <2>1, <2>2
<1>5. NegotiatedMedia(sdp, k).codec = c /\ NegotiatedMedia(sdp, k).remote_port = m.port
  BY <1>1, <1>3 DEF NegotiatedMedia
<1> QED
  BY <1>1, <1>3, <1>4, <1>5

\* What the lines of the direct answer are.
LEMMA AnswerFacts ==
    ASSUME NEW sdp \in SdpOffers, NEW i \in DOMAIN sdp.media,
           NEW a, a = AnswerLine(sdp.media[i], CalleePort)
    PROVE  /\ i \in Negotiated(sdp) =>
                 /\ a.port = CalleePort /\ a.rtpmaps = <<CodecFor(sdp.media[i])>>
                 /\ a.direction = Swapped(sdp.media[i].direction) /\ a.type = "audio"
           /\ i \notin Negotiated(sdp) => a.port = 0
<1>1. PICK m : m = sdp.media[i]
  OBVIOUS
<1>2. m = [type |-> m.type, port |-> m.port, formats |-> m.formats, rtpmaps |-> m.rtpmaps,
           direction |-> m.direction, ice |-> m.ice, mux |-> m.mux, connection |-> m.connection]
  BY <1>1, OfferFacts DEF Description
<1>3. i \in Negotiated(sdp) <=> Answerable(m)
  BY <1>1 DEF Negotiated
<1>4. CASE Answerable(m)
  <2>1. a = Rewritten(m, CodecFor(m), CalleePort, Swapped(m.direction)) /\ m.type = "audio"
    BY <1>1, <1>4 DEF AnswerLine, Answerable
  <2>2. PICK codec, d : codec = CodecFor(m) /\ d = Swapped(m.direction)
    OBVIOUS
  <2>3. a = [m EXCEPT !.port = CalleePort, !.formats = <<codec.pt>>, !.rtpmaps = <<codec>>,
                      !.direction = d, !.ice = FALSE]
    BY <2>1, <2>2 DEF Rewritten
  <2>4. a.port = CalleePort /\ a.rtpmaps = <<codec>> /\ a.direction = d /\ a.type = m.type
    BY <1>2, <2>3
  <2> QED
    BY <1>1, <1>3, <1>4, <2>1, <2>2, <2>4
<1>5. CASE ~Answerable(m)
  <2>1. \/ a = [m EXCEPT !.port = 0, !.rtpmaps = <<>>, !.direction = "sendrecv", !.ice = FALSE]
        \/ a = [m EXCEPT !.port = 0]
    BY <1>1, <1>5 DEF AnswerLine
  <2>2. a.port = 0
    BY <1>2, <2>1
  <2> QED
    BY <1>3, <1>5, <2>2
<1> QED
  BY <1>4, <1>5

LEMMA DirectFacts ==
    ASSUME NEW sdp \in SdpOffers, NEW ans, ans = AnswerTo(sdp, CalleePort), Negotiated(sdp) # {},
           NEW k, k = Min(Negotiated(sdp))
    PROVE  /\ k \in Negotiated(sdp) /\ Min(UsableLines(ans)) = k
           /\ process_answer(ans, k).codec = CodecFor(sdp.media[k])
           /\ process_answer(ans, k).remote_port = ans.media[k].port
           /\ \A i \in DOMAIN sdp.media : ans.media[i].port # 0 =>
                 /\ i \in AudioLines(sdp) /\ Len(ans.media[i].rtpmaps) = 1
                 /\ ans.media[i].direction = Swapped(sdp.media[i].direction)
<1>0. /\ Negotiated(sdp) \subseteq Nat /\ Negotiated(sdp) \subseteq AudioLines(sdp)
      /\ Negotiated(sdp) \subseteq DOMAIN sdp.media
      /\ sdp = [connection |-> sdp.connection, media |-> sdp.media] /\ 0 # CalleePort
  BY OfferFacts, SdpAssumption DEF Description, Negotiated
<1>1. k \in Negotiated(sdp)
  BY <1>0, LeastIs
<1>2. ans.media = [i \in DOMAIN sdp.media |-> AnswerLine(sdp.media[i], CalleePort)]
  BY <1>0 DEF AnswerTo
<1>3. ASSUME NEW i \in DOMAIN sdp.media
      PROVE  /\ i \in Negotiated(sdp) =>
                  /\ ans.media[i].port = CalleePort
                  /\ ans.media[i].rtpmaps = <<CodecFor(sdp.media[i])>>
                  /\ ans.media[i].direction = Swapped(sdp.media[i].direction)
                  /\ ans.media[i].type = "audio"
             /\ i \notin Negotiated(sdp) => ans.media[i].port = 0
  <2>1. PICK a : a = ans.media[i]
    OBVIOUS
  <2>2. a = AnswerLine(sdp.media[i], CalleePort)
    BY <1>2, <2>1
  <2> QED
    BY <2>1, <2>2, AnswerFacts
<1>4. UsableLines(ans) = Negotiated(sdp)
  <2>1. DOMAIN ans.media = DOMAIN sdp.media
    BY <1>2
  <2>2. ASSUME NEW i \in DOMAIN sdp.media PROVE Usable(ans.media[i]) <=> i \in Negotiated(sdp)
    BY <1>0, <1>3 DEF Usable
  <2> QED
    BY <1>0, <2>1, <2>2 DEF UsableLines
<1>5. k \in DOMAIN sdp.media /\ ans.media[k].rtpmaps = <<CodecFor(sdp.media[k])>>
  BY <1>0, <1>1, <1>3
<1>6. PICK c : c = CodecFor(sdp.media[k])
  OBVIOUS
<1>7. process_answer(ans, k).codec = c /\ process_answer(ans, k).remote_port = ans.media[k].port
  BY <1>5, <1>6 DEF process_answer
<1>8. ASSUME NEW i \in DOMAIN sdp.media, ans.media[i].port # 0
      PROVE  /\ i \in AudioLines(sdp) /\ Len(ans.media[i].rtpmaps) = 1
             /\ ans.media[i].direction = Swapped(sdp.media[i].direction)
  <2>1. i \in Negotiated(sdp)
    BY <1>3, <1>8
  <2>2. PICK e : e = CodecFor(sdp.media[i])
    OBVIOUS
  <2>3. ans.media[i].rtpmaps = <<e>> /\ Len(<<e>>) = 1
    BY <1>3, <2>1, <2>2
  <2> QED
    BY <1>0, <1>3, <2>1, <2>3
<1> QED
  BY <1>1, <1>4, <1>6, <1>7, <1>8

LEMMA DeferredFacts ==
    ASSUME offer \in SdpOffers, NEW kept, NEW i, i = Min(AudioLines(offer)), AudioLines(offer) # {},
           NEW ans, ans = DeferredAnswer(kept)
    PROVE  /\ i \in AudioLines(offer) /\ Min(UsableLines(ans)) = i
           /\ process_answer(ans, i).codec = kept.codec
           /\ process_answer(ans, i).remote_port = ans.media[i].port
<1>0. /\ AudioLines(offer) \subseteq Nat /\ Description(offer) /\ 0 # CalleePort
      /\ DOMAIN offer.media \subseteq Nat
  BY OfferFacts, SdpAssumption
<1>1. i \in AudioLines(offer) /\ i \in DOMAIN offer.media
  BY <1>0, LeastIs DEF AudioLines
<1>2. PICK m : m = offer.media[i]
  OBVIOUS
<1>3. /\ m = [type |-> m.type, port |-> m.port, formats |-> m.formats, rtpmaps |-> m.rtpmaps,
              direction |-> m.direction, ice |-> m.ice, mux |-> m.mux, connection |-> m.connection]
      /\ m.type = "audio" /\ offer = [connection |-> offer.connection, media |-> offer.media]
  BY <1>0, <1>1, <1>2 DEF Description, AudioLines
<1>4. PICK codec, d : codec = kept.codec /\ d = Swapped(kept.direction)
  OBVIOUS
<1>5. PICK re : re = [m EXCEPT !.port = CalleePort, !.formats = <<codec.pt>>, !.rtpmaps = <<codec>>,
                               !.direction = d, !.ice = FALSE]
  OBVIOUS
<1>6. PICK line : line = [re EXCEPT !.connection = "uas", !.ice = TRUE, !.mux = TRUE]
  OBVIOUS
<1>7. line.port = CalleePort /\ line.rtpmaps = <<codec>> /\ line.type = "audio"
  BY <1>3, <1>5, <1>6
<1>8. ans = [offer EXCEPT !.media[i] = line]
  <2>1. re = Rewritten(m, codec, CalleePort, d)
    BY <1>5 DEF Rewritten
  <2> QED
    BY <1>2, <1>4, <1>6, <2>1 DEF DeferredAnswer
<1>9. ans.media = [j \in DOMAIN offer.media |-> IF j = i THEN line ELSE offer.media[j]]
  BY <1>1, <1>3, <1>8
<1>10. UsableLines(ans) \subseteq AudioLines(offer)
  BY <1>2, <1>3, <1>9 DEF UsableLines, Usable, AudioLines
<1>11. i \in UsableLines(ans)
  <2>1. <<codec>> # <<>> /\ ans.media[i] = line /\ i \in DOMAIN ans.media
    BY <1>1, <1>9
  <2>2. Usable(line)
    BY <1>0, <1>7, <2>1 DEF Usable
  <2> QED
    BY <2>1, <2>2 DEF UsableLines
<1>12. \A j \in UsableLines(ans) : i <= j
  BY <1>0, <1>10, LeastIs
<1>13. Min(UsableLines(ans)) = i
  <2>1. PICK S : S = UsableLines(ans)
    OBVIOUS
  <2>2. S \subseteq Nat /\ i \in S /\ \A j \in S : i <= j
    BY <1>0, <1>10, <1>11, <1>12, <2>1
  <2> QED
    BY <2>1, <2>2, LeastOf
<1>14. ans.media[i] = line
  BY <1>1, <1>9
<1>15. process_answer(ans, i).codec = codec /\ process_answer(ans, i).remote_port = line.port
  BY <1>7, <1>14 DEF process_answer
<1> QED
  BY <1>1, <1>4, <1>13, <1>14, <1>15

\* What a refresh says about the codec c of the call.
LEMMA RefreshFacts ==
    ASSUME NEW s \in Sides, NEW c, c = media[s].codec, c.encoding \in Codecs,
           NEW sdp, sdp = build_refresh_invite_sdp(s)
    PROVE  /\ Negotiated(sdp) = {1}
           /\ NegotiatedMedia(sdp, 1).codec.encoding = c.encoding
<1>1. PICK pt, port, e :
         /\ pt = IF \E t \in DOMAIN Static : Static[t] = c.encoding THEN StaticType(c.encoding) ELSE c.pt
         /\ port = IF s = "uac" THEN CallerPort ELSE CalleePort
         /\ e = [pt |-> pt, encoding |-> c.encoding]
  OBVIOUS
<1>2. PICK line : line = [type |-> "audio", port |-> port, formats |-> <<pt>>, rtpmaps |-> <<e>>,
                          direction |-> "sendrecv", ice |-> FALSE, mux |-> FALSE,
                          connection |-> None]
  OBVIOUS
<1>3. sdp = [connection |-> s, media |-> <<line>>]
  BY <1>1, <1>2 DEF build_refresh_invite_sdp
<1>4. sdp.media = <<line>> /\ DOMAIN sdp.media = {1} /\ sdp.media[1] = line
  <2>1. sdp.media = <<line>>
    BY <1>3
  <2> QED
    BY <2>1
<1>5. DOMAIN line.rtpmaps = {1} /\ line.rtpmaps[1] = e /\ e.encoding = c.encoding
  <2>1. line.rtpmaps = <<e>>
    BY <1>2
  <2> QED
    BY <1>1, <2>1
<1>6. MappedMatches(line) = {1}
  BY <1>5 DEF MappedMatches
<1>7. Min({1}) = 1
  BY LeastOf
<1>8. CodecFor(line) = e
  BY <1>5, <1>6, <1>7 DEF CodecFor
<1>9. Answerable(line)
  BY <1>2, <1>6 DEF Answerable
<1> QED
  BY <1>4, <1>5, <1>8, <1>9 DEF Negotiated, NegotiatedMedia

LEMMA SdpAgree == SdpInv => OfferAnswerAgree
<1> SUFFICES ASSUME SdpInv, stage = "up" PROVE OfferAnswerAgree
  BY DEF OfferAnswerAgree
<1>0. offer \in SdpOffers
  BY DEF SdpInv
<1>1. PICK taken : taken = Min(UsableLines(answer))
  OBVIOUS
<1>2. media["uac"] = process_answer(answer, taken)
  BY <1>1 DEF SdpInv
\* The refresh needs only that both calls have one codec of ours.
<1>3. ASSUME media["uac"].codec = media["uas"].codec, media["uas"].codec.encoding \in Codecs,
             refresh # NoSdp
      PROVE  /\ Negotiated(refresh) = {1}
             /\ NegotiatedMedia(refresh, 1).codec.encoding = media["uac"].codec.encoding
  <2>1. PICK s \in Sides : refresh = build_refresh_invite_sdp(s)
    BY <1>3 DEF SdpInv
  <2>2. media[s].codec = media["uac"].codec
    BY <1>3 DEF Sides
  <2>3. PICK c : c = media[s].codec
    OBVIOUS
  <2>4. c.encoding \in Codecs
    BY <1>3, <2>2, <2>3
  <2>5. Negotiated(refresh) = {1} /\ NegotiatedMedia(refresh, 1).codec.encoding = c.encoding
    BY <2>1, <2>3, <2>4, RefreshFacts
  <2> QED
    BY <2>2, <2>3, <2>5
<1>4. CASE path = "direct"
  <2>1. /\ Negotiated(offer) # {} /\ answer = AnswerTo(offer, CalleePort)
        /\ media["uas"] = NegotiatedMedia(offer, Min(Negotiated(offer)))
    BY <1>4 DEF SdpInv
  <2>2. PICK k : k = Min(Negotiated(offer))
    OBVIOUS
  <2>3. /\ k \in Negotiated(offer) /\ Min(UsableLines(answer)) = k
        /\ process_answer(answer, k).codec = CodecFor(offer.media[k])
        /\ process_answer(answer, k).remote_port = answer.media[k].port
        /\ \A i \in DOMAIN offer.media : answer.media[i].port # 0 =>
              /\ i \in AudioLines(offer) /\ Len(answer.media[i].rtpmaps) = 1
              /\ answer.media[i].direction = Swapped(offer.media[i].direction)
    BY <1>0, <2>1, <2>2, DirectFacts
  <2>4. /\ media["uas"].codec.encoding \in Codecs
        /\ Offered(offer.media[k], media["uas"].codec)
        /\ media["uas"].codec = CodecFor(offer.media[k])
        /\ media["uas"].remote_port = offer.media[k].port
    BY <1>0, <2>1, <2>2, <2>3, CodecIsOurs
  <2>5. /\ media["uac"].codec = media["uas"].codec
        /\ media["uac"].remote_port = answer.media[k].port
    BY <1>1, <1>2, <2>3, <2>4
  <2>6. k \in AudioLines(offer)
    BY <1>0, <2>3, OfferFacts
  <2> QED
    BY <1>3, <1>4, <2>3, <2>4, <2>5, <2>6 DEF OfferAnswerAgree
<1>5. CASE path # "direct"
  <2>1. answer = DeferredAnswer(media["uas"])
    BY <1>5 DEF SdpInv
  <2>2. PICK k \in Negotiated(offer) : media["uas"] = NegotiatedMedia(offer, k)
    BY <1>5 DEF SdpInv
  <2>3. k \in AudioLines(offer)
    BY <1>0, <2>2, OfferFacts
  <2>4. PICK i : i = Min(AudioLines(offer))
    OBVIOUS
  <2>5. /\ i \in AudioLines(offer) /\ Min(UsableLines(answer)) = i
        /\ process_answer(answer, i).codec = media["uas"].codec
        /\ process_answer(answer, i).remote_port = answer.media[i].port
    <3>1. PICK kept : kept = media["uas"]
      OBVIOUS
    <3>2. AudioLines(offer) # {} /\ answer = DeferredAnswer(kept)
      BY <2>1, <2>3, <3>1
    <3> QED
      BY <1>0, <2>4, <3>1, <3>2, DeferredFacts
  <2>6. /\ media["uas"].codec.encoding \in Codecs
        /\ Offered(offer.media[k], media["uas"].codec)
        /\ media["uas"].remote_port = offer.media[k].port
    BY <1>0, <2>2, CodecIsOurs
  <2>7. /\ media["uac"].codec = media["uas"].codec
        /\ media["uac"].remote_port = answer.media[i].port
    BY <1>1, <1>2, <2>5
  <2>8. ASSUME Cardinality(AudioLines(offer)) = 1 PROVE k = i
    <3>1. PICK S : S = AudioLines(offer)
      OBVIOUS
    <3>a. PICK n : n = Len(offer.media)
      OBVIOUS
    <3>b. n \in Nat /\ S \subseteq 1 .. n
      BY <1>0, <3>1, <3>a, OfferFacts DEF Description, AudioLines
    <3>2. IsFiniteSet(1 .. n) /\ S \subseteq 1 .. n
      BY <3>b, FS_Interval
    <3>3. IsFiniteSet(S)
      BY <3>2, FS_Subset
    <3>4. \E x : S = {x}
      <4>1. Cardinality(S) = 1
        BY <2>8, <3>1
      <4>2. IsFiniteSet(S) /\ Cardinality(S) = 1 <=> \E x : S = {x}
        BY FS_Singleton
      <4> QED
        BY <3>3, <4>1, <4>2
    <3> QED
      BY <2>3, <2>5, <3>1, <3>4
  <2> QED
    BY <1>3, <1>5, <2>3, <2>5, <2>6, <2>7, <2>8 DEF OfferAnswerAgree
<1> QED
  BY <1>4, <1>5

\* set_negotiated_media either stores the media or gives the call up.
LEMMA SetMediaFacts ==
    ASSUME SdpInv, NEW s \in Sides, NEW m, NEW next, SetMedia(s, m, next)
    PROVE  \/ stage' = "refused" /\ media' = media
           \/ stage' = next /\ media' = [media EXCEPT ![s] = m] /\ media'[s] = m
BY DEF SetMedia, SdpInv

LEMMA SdpInductive == SdpInv /\ [SdpNext]_sdpVars => SdpInv'
<1> SUFFICES ASSUME SdpInv, [SdpNext]_sdpVars PROVE SdpInv'
  OBVIOUS
<1>0. offer \in SdpOffers /\ media = [s \in Sides |-> media[s]]
  BY DEF SdpInv
<1> USE DEF Sides
<1>1. CASE UNCHANGED sdpVars
  BY <1>1 DEF SdpInv, sdpVars, DeferredAnswer, build_refresh_invite_sdp
<1>2. CASE Refuse
  BY <1>2 DEF Refuse, SdpInv, DeferredAnswer, build_refresh_invite_sdp
<1>3. CASE AnswerAtOnce
  <2>1. /\ refresh' = refresh /\ refresh = NoSdp /\ offer' = offer /\ path' = path /\ path = "direct"
        /\ Negotiated(offer) # {}
        /\ answer' = IF stage' = "answered" THEN AnswerTo(offer, CalleePort) ELSE answer
        /\ SetMedia("uas", NegotiatedMedia(offer, Min(Negotiated(offer))), "answered")
    BY <1>3 DEF AnswerAtOnce, SdpInv
  <2>2. PICK m : m = NegotiatedMedia(offer, Min(Negotiated(offer)))
    OBVIOUS
  <2>3. \/ stage' = "refused" /\ media' = media
        \/ stage' = "answered" /\ media' = [media EXCEPT !["uas"] = m] /\ media'["uas"] = m
    BY <2>1, <2>2, SetMediaFacts
  <2>4. media' = [s \in Sides |-> media'[s]]
    BY <1>0, <2>3
  <2> QED
    BY <1>0, <2>1, <2>2, <2>3, <2>4 DEF SdpInv
<1>4. CASE KeepOffer
  <2>1. /\ refresh' = refresh /\ refresh = NoSdp /\ offer' = offer /\ path' = path /\ media' = media
        /\ path = "deferred" /\ Negotiated(offer) # {} /\ stage' = "pending"
        /\ pending' = NegotiatedMedia(offer, Max(Negotiated(offer)))
    BY <1>4 DEF KeepOffer, SdpInv
  <2>2. PICK n : n = Len(offer.media)
    OBVIOUS
  <2>3. n \in Nat /\ Negotiated(offer) \subseteq 1 .. n
    BY <1>0, <2>2, OfferFacts DEF Description, Negotiated
  <2>4. Max(Negotiated(offer)) \in Negotiated(offer)
    BY <2>1, <2>3, GreatestIs
  <2> QED
    BY <1>0, <2>1, <2>4 DEF SdpInv
<1>5. CASE BuildAnswer
  <2>1. /\ refresh' = refresh /\ refresh = NoSdp /\ offer' = offer /\ path' = path
        /\ path = "deferred"
        /\ answer' = IF stage' = "answered" THEN DeferredAnswer(pending) ELSE answer
        /\ SetMedia("uas", pending, "answered")
    BY <1>5 DEF BuildAnswer, SdpInv
  <2>2. PICK k \in Negotiated(offer) : pending = NegotiatedMedia(offer, k)
    BY <1>5 DEF BuildAnswer, SdpInv
  <2>3. \/ stage' = "refused" /\ media' = media
        \/ stage' = "answered" /\ media' = [media EXCEPT !["uas"] = pending]
           /\ media'["uas"] = pending
    BY <2>1, SetMediaFacts
  <2>4. media' = [s \in Sides |-> media'[s]]
    BY <1>0, <2>3
  <2> QED
    BY <1>0, <2>1, <2>2, <2>3, <2>4 DEF SdpInv, DeferredAnswer
<1>6. CASE TakeAnswer
  <2>1. /\ refresh' = refresh /\ refresh = NoSdp /\ offer' = offer /\ path' = path
        /\ answer' = answer /\ stage = "answered"
        /\ \/ /\ UsableLines(answer) # {}
              /\ SetMedia("uac", process_answer(answer, Min(UsableLines(answer))), "up")
           \/ stage' = "refused" /\ media' = media
    BY <1>6 DEF TakeAnswer, SdpInv
  <2>2. PICK m : m = process_answer(answer, Min(UsableLines(answer)))
    OBVIOUS
  <2>3. \/ stage' = "refused" /\ media' = media
        \/ /\ stage' = "up" /\ media' = [media EXCEPT !["uac"] = m] /\ media'["uac"] = m
           /\ UsableLines(answer) # {}
    BY <2>1, <2>2, SetMediaFacts
  <2>4. media' = [s \in Sides |-> media'[s]] /\ media'["uas"] = media["uas"]
    BY <1>0, <2>3
  <2> QED
    BY <1>0, <2>1, <2>2, <2>3, <2>4 DEF SdpInv, DeferredAnswer
<1>7. ASSUME NEW s \in Sides, Refresh(s) PROVE SdpInv'
  <2>1. /\ stage = "up" /\ refresh' = build_refresh_invite_sdp(s)
        /\ stage' = stage /\ path' = path /\ offer' = offer /\ pending' = pending
        /\ answer' = answer /\ media' = media
    BY <1>7 DEF Refresh
  <2>2. refresh' = build_refresh_invite_sdp(s)'
    BY <2>1 DEF build_refresh_invite_sdp
  <2> QED
    BY <2>1, <2>2 DEF SdpInv, DeferredAnswer
<1>8. CASE Settled
  BY <1>1, <1>8 DEF Settled
<1> QED
  BY <1>1, <1>2, <1>3, <1>4, <1>5, <1>6, <1>7, <1>8 DEF SdpNext

\* Whatever lines, formats and directions an offer has, on either answering
\* path: caller and callee end up with one codec under the payload type the
\* caller offered, on the line the answer accepts, and a refresh keeps it.
THEOREM CallsAgreeOnMedia == SdpSpec => []OfferAnswerAgree
<1>1. SdpInit => SdpInv
  BY DEF SdpInit, SdpInv
<1> QED
  BY <1>1, SdpInductive, SdpAgree, PTL DEF SdpSpec
=============================================================================
