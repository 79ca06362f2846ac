--------------------------- MODULE SdpNegotiation ---------------------------
(***************************************************************************)
(* The SDP of one call: sdp/negotiation.rs, and what CallManager makes of  *)
(* it.  The callee answers an offer at once (handle_incoming_invite), or   *)
(* keeps it while ICE gathers (accept_inbound_invite, build_answer_for);   *)
(* the caller takes its media from the answer; either side may repeat the  *)
(* session in a re-INVITE of the session timer.                            *)
(*                                                                         *)
(* A description is its connection address and its media lines.  An        *)
(* encoding stands for encoding name and clock rate.                       *)
(***************************************************************************)
EXTENDS Integers, Sequences, FiniteSetsExt

CONSTANTS
    SdpOffers,    \* the offers a caller may make
    Codecs,       \* the encodings in the configuration of both sides
    Paths,        \* how the callee answers: "direct", "deferred"
    CallerPort,   \* the port allocate_rtp_port gives the caller at the 200 OK
    CalleePort    \* the port of the callee, or of its default candidate

\* A description as parsing builds it: its lines and their attributes are lists.
Description(sdp) ==
    /\ sdp = [connection |-> sdp.connection, media |-> sdp.media]
    /\ Len(sdp.media) \in Nat /\ DOMAIN sdp.media = 1 .. Len(sdp.media)
    /\ \A i \in DOMAIN sdp.media :
         LET m == sdp.media[i]
         IN  /\ m = [type |-> m.type, port |-> m.port, formats |-> m.formats, rtpmaps |-> m.rtpmaps,
                     direction |-> m.direction, ice |-> m.ice, mux |-> m.mux,
                     connection |-> m.connection]
             /\ DOMAIN m.formats \subseteq Nat /\ DOMAIN m.rtpmaps \subseteq Nat

ASSUME SdpAssumption ==
    /\ CalleePort \in Nat \ {0}
    /\ \A sdp \in SdpOffers : Description(sdp)

VARIABLES
    stage,        \* offered, pending, answered, up or refused
    path,
    offer,
    pending,      \* PendingAnswer: the media negotiated with the offer
    answer,
    media,        \* negotiated_media of either call
    refresh       \* the offer in a re-INVITE of the session timer

sdpVars == <<stage, path, offer, pending, answer, media, refresh>>

Sides == {"uac", "uas"}
None == "none"
NoSdp == [connection |-> None, media |-> <<>>]
NoMedia == [codec |-> [pt |-> 0, encoding |-> None], remote_port |-> 0, remote_addr |-> None,
            direction |-> "inactive"]

\* Payload types with an encoding of their own.
Static == [pt \in {0, 8, 9} |-> CASE pt = 0 -> "PCMU" [] pt = 8 -> "PCMA" [] OTHER -> "G722"]
StaticType(e) == CHOOSE pt \in DOMAIN Static : Static[pt] = e

\* SessionCodec::for_negotiated knows these.
Playable == {"PCMU", "PCMA", "G722", "opus"}

SdpInit ==
    /\ stage = "offered" /\ path \in Paths /\ offer \in SdpOffers
    /\ pending = NoMedia /\ answer = NoSdp /\ refresh = NoSdp
    /\ media = [s \in Sides |-> NoMedia]

-----------------------------------------------------------------------------
(* negotiation.rs.                                                         *)

Swapped(d) == CASE d = "sendonly" -> "recvonly" [] d = "recvonly" -> "sendonly" [] OTHER -> d

\* Positions of the rtpmaps and of the formats that a codec of ours matches.
MappedMatches(m) == {i \in DOMAIN m.rtpmaps : m.rtpmaps[i].encoding \in Codecs}
StaticMatches(m) ==
    {i \in DOMAIN m.formats : m.formats[i] \in DOMAIN Static /\ Static[m.formats[i]] \in Codecs}

\* Mutant: with the payload type of our own configuration.
CodecFor_OwnType(m) ==
    IF MappedMatches(m) # {}
    THEN LET e == m.rtpmaps[Min(MappedMatches(m))].encoding
         IN  [pt |-> IF \E pt \in DOMAIN Static : Static[pt] = e THEN StaticType(e) ELSE 111,
              encoding |-> e]
    ELSE LET f == m.formats[Min(StaticMatches(m))] IN [pt |-> f, encoding |-> Static[f]]

\* negotiate_media: the first rtpmap that matches, with the payload type offered, or else the
\* first format.
CodecFor(m) ==
    IF MappedMatches(m) # {} THEN m.rtpmaps[Min(MappedMatches(m))]
    ELSE LET f == m.formats[Min(StaticMatches(m))] IN [pt |-> f, encoding |-> Static[f]]

AudioLines(sdp) == {i \in DOMAIN sdp.media : sdp.media[i].type = "audio"}

AddressIn(sdp, m) == IF m.connection # None THEN m.connection ELSE sdp.connection

\* ICE without rtcp-mux is rejected, and so is a line without a codec of ours.
Answerable(m) ==
    /\ m.type = "audio" /\ ~(m.ice /\ ~m.mux)
    /\ MappedMatches(m) \cup StaticMatches(m) # {}

\* A line rewritten for a codec: create_media_attributes leaves nothing else on it.
Rewritten(m, codec, port, d) ==
    [m EXCEPT !.port = port, !.formats = <<codec.pt>>, !.rtpmaps = <<codec>>, !.direction = d,
              !.ice = FALSE]

AnswerLine(m, port) ==
    IF Answerable(m) THEN Rewritten(m, CodecFor(m), port, Swapped(m.direction))
    ELSE IF m.type = "audio" /\ m.ice /\ ~m.mux
    THEN [m EXCEPT !.port = 0, !.rtpmaps = <<>>, !.direction = "sendrecv", !.ice = FALSE]
    ELSE [m EXCEPT !.port = 0]

\* create_answer: the answer is the offer with its lines rewritten, the address included.
AnswerTo(sdp, port) ==
    [sdp EXCEPT !.media = [i \in DOMAIN sdp.media |-> AnswerLine(sdp.media[i], port)]]

\* The lines it negotiates, in their order, and the NegotiatedMedia of a line.
Negotiated(sdp) == {i \in DOMAIN sdp.media : Answerable(sdp.media[i])}
NegotiatedMedia(sdp, i) ==
    LET m == sdp.media[i]
    IN  [codec |-> CodecFor(m), remote_port |-> m.port, remote_addr |-> AddressIn(sdp, m),
         direction |-> Swapped(m.direction)]

\* process_answer: the lines that were not rejected, each with its first codec.
Usable(m) ==
    /\ m.port # 0 /\ m.type = "audio"
    /\ m.rtpmaps # <<>> \/ (m.formats # <<>> /\ Head(m.formats) \in DOMAIN Static)

UsableLines(sdp) == {i \in DOMAIN sdp.media : Usable(sdp.media[i])}

process_answer(sdp, i) ==
    LET m == sdp.media[i]
    IN  [codec |-> IF m.rtpmaps # <<>> THEN Head(m.rtpmaps)
                   ELSE [pt |-> Head(m.formats), encoding |-> Static[Head(m.formats)]],
         remote_port |-> m.port, remote_addr |-> AddressIn(sdp, m), direction |-> m.direction]

-----------------------------------------------------------------------------
(* CallManager.                                                            *)

\* set_negotiated_media: a call whose codec cannot be built is given up.
SetMedia(s, m, next) ==
    IF m.codec.encoding \in Playable
    THEN media' = [media EXCEPT ![s] = m] /\ stage' = next
    ELSE UNCHANGED media /\ stage' = "refused"

\* No line has a codec of ours: 488, on either path.
Refuse ==
    /\ stage = "offered" /\ Negotiated(offer) = {}
    /\ stage' = "refused"
    /\ UNCHANGED <<path, offer, pending, answer, media, refresh>>

\* handle_incoming_invite: the first line negotiated.
AnswerAtOnce ==
    /\ stage = "offered" /\ path = "direct" /\ Negotiated(offer) # {}
    /\ SetMedia("uas", NegotiatedMedia(offer, Min(Negotiated(offer))), "answered")
    /\ answer' = IF stage' = "answered" THEN AnswerTo(offer, CalleePort) ELSE answer
    /\ UNCHANGED <<path, offer, pending, refresh>>

\* accept_inbound_invite: the last line negotiated is kept (pop).
KeepOffer ==
    /\ stage = "offered" /\ path = "deferred" /\ Negotiated(offer) # {}
    /\ stage' = "pending"
    /\ pending' = NegotiatedMedia(offer, Max(Negotiated(offer)))
    /\ UNCHANGED <<path, offer, answer, media, refresh>>

\* The first audio line of the kept offer is rewritten, its direction from the one negotiated,
\* and gets address, candidates and rtcp-mux of the callee; other lines stay as offered.
DeferredAnswer(kept) ==
    LET i == Min(AudioLines(offer))
    IN  [offer EXCEPT !.media[i] =
            [Rewritten(offer.media[i], kept.codec, CalleePort, Swapped(kept.direction)) EXCEPT
                !.connection = "uas", !.ice = TRUE, !.mux = TRUE]]

\* build_answer_for, once candidates are gathered.
BuildAnswer ==
    /\ stage = "pending"
    /\ SetMedia("uas", pending, "answered")
    /\ answer' = IF stage' = "answered" THEN DeferredAnswer(pending) ELSE answer
    /\ pending' = NoMedia
    /\ UNCHANGED <<path, offer, refresh>>

\* handle_invite_success: the first line of the answer that can be used.
TakeAnswer ==
    /\ stage = "answered"
    /\ IF UsableLines(answer) # {}
       THEN SetMedia("uac", process_answer(answer, Min(UsableLines(answer))), "up")
       ELSE stage' = "refused" /\ UNCHANGED media
    /\ UNCHANGED <<path, offer, pending, answer, refresh>>

\* The body of a refresh: the codec of the call, under its static payload type if it has one,
\* at the local port; MediaBuilder says sendrecv.
build_refresh_invite_sdp(s) ==
    LET c == media[s].codec
        pt == IF \E t \in DOMAIN Static : Static[t] = c.encoding THEN StaticType(c.encoding) ELSE c.pt
    IN  [connection |-> s,
         media |-> <<[type |-> "audio", port |-> IF s = "uac" THEN CallerPort ELSE CalleePort,
                      formats |-> <<pt>>, rtpmaps |-> <<[pt |-> pt, encoding |-> c.encoding]>>,
                      direction |-> "sendrecv", ice |-> FALSE, mux |-> FALSE,
                      connection |-> None]>>]

Refresh(s) ==
    /\ stage = "up" /\ refresh = NoSdp
    /\ refresh' = build_refresh_invite_sdp(s)
    /\ UNCHANGED <<stage, path, offer, pending, answer, media>>

\* The negotiation of a call comes to an end, which is no deadlock.
Settled == stage \in {"up", "refused"} /\ UNCHANGED sdpVars

SdpNext ==
    \/ Refuse \/ AnswerAtOnce \/ KeepOffer \/ BuildAnswer \/ TakeAnswer
    \/ \E s \in Sides : Refresh(s)
    \/ Settled

SdpSpec == SdpInit /\ [][SdpNext]_sdpVars

-----------------------------------------------------------------------------
(* Properties.                                                             *)

\* The caller knows the codec by this payload type on line m of its offer.
Offered(m, codec) ==
    \/ \E i \in DOMAIN m.rtpmaps : m.rtpmaps[i] = codec
    \/ codec.pt \in DOMAIN Static /\ Static[codec.pt] = codec.encoding
       /\ \E i \in DOMAIN m.formats : m.formats[i] = codec.pt

\* After offer and answer the two calls agree: on either path they have one codec under one
\* payload type, which the caller has offered on the line the media goes to, and the callee
\* sends where that line says (several audio lines are only sorted out on the direct path);
\* the direct answer has complementary directions and rejects what it does not use; and a
\* refresh makes the peer choose the encoding in use.
OfferAnswerAgree ==
    stage = "up" =>
        /\ media["uac"].codec = media["uas"].codec
        /\ path = "direct" \/ Cardinality(AudioLines(offer)) = 1 =>
              \E i \in AudioLines(offer) :
                  /\ Offered(offer.media[i], media["uas"].codec)
                  /\ media["uas"].remote_port = offer.media[i].port
                  /\ media["uac"].remote_port = answer.media[i].port
        /\ path = "direct" =>
              \A i \in DOMAIN offer.media :
                  answer.media[i].port # 0 =>
                      /\ i \in AudioLines(offer) /\ Len(answer.media[i].rtpmaps) = 1
                      /\ answer.media[i].direction = Swapped(offer.media[i].direction)
        /\ refresh # NoSdp =>
              /\ Negotiated(refresh) = {1}
              /\ NegotiatedMedia(refresh, 1).codec.encoding = media["uac"].codec.encoding

\* The answer of the deferred path says what create_answer would have said: the same lines are
\* in use, with the same codec and the same direction.
DeferredAnswerAgrees ==
    stage \in {"answered", "up"} /\ path = "deferred" =>
        \A i \in DOMAIN offer.media :
            LET a == answer.media[i]
                b == AnswerTo(offer, CalleePort).media[i]
            IN  /\ a.port # 0 <=> b.port # 0
                /\ a.port # 0 => a.formats = b.formats /\ a.direction = b.direction
=============================================================================
