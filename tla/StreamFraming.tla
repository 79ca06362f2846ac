---------------------------- MODULE StreamFraming ---------------------------
(***************************************************************************)
(* Framing of SIP messages on a byte stream (transport/tcp.rs,             *)
(* transport/tls.rs) and the CRLF keep-alives of transport/keepalive.rs.   *)
(*                                                                         *)
(* A byte is CR, LF, or a block of header text that is one token here,     *)
(* because nothing in the framing looks inside it but                      *)
(* parse_content_length: "h0" announces no body, "h2" two bytes of body.   *)
(***************************************************************************)
EXTENDS Naturals, SequencesExt, FiniteSetsExt

CR == "r"
LF == "l"
CRLF == <<CR, LF>>

KEEPALIVE_PING == CRLF \o CRLF
KEEPALIVE_PONG == CRLF

\* A message without a body, one whose body is a line end (what a framing
\* that loses count would take for a keep-alive), and the keep-alives.
Bytes == [empty |-> <<"h0">> \o CRLF \o CRLF,
          body  |-> <<"h2">> \o CRLF \o CRLF \o CRLF,
          ping  |-> KEEPALIVE_PING,
          pong  |-> KEEPALIVE_PONG]

Messages == {"empty", "body"}

\* Number of CRLF pairs that buf starts with.
LeadingCrlfs(buf) ==
    Max({n \in 0..(Len(buf) \div 2) :
            \A i \in 1..n : SubSeq(buf, 2 * i - 1, 2 * i) = CRLF})

\* strip_leading_keepalives: what is left of the buffer ...
Stripped(buf) == SubSeq(buf, 2 * LeadingCrlfs(buf) + 1, Len(buf))

\* ... and the number of pings it reports.
PingsIn(buf) == LeadingCrlfs(buf) \div 2

\* find_header_end: the index of the last byte of the first empty line, 0
\* where the code returns None.
HeaderEnd(buf) ==
    LET ends == {i \in 4..Len(buf) : SubSeq(buf, i - 3, i) = CRLF \o CRLF}
    IN  IF ends = {} THEN 0 ELSE Min(ends)

\* parse_content_length of the header block; 0 when it has no such line.
ContentLength(headers) == IF "h2" \in ToSet(headers) THEN 2 ELSE 0

\* Mutant: the body is not part of the message.
FrameLength_HeadersOnly(buf) == HeaderEnd(buf)

\* try_parse_message_from_buf: the length of the complete message the buffer
\* starts with, 0 when there is none yet.
FrameLength(buf) ==
    LET end == HeaderEnd(buf)
        total == end + ContentLength(SubSeq(buf, 1, end))
    IN  IF end = 0 \/ Len(buf) < total THEN 0 ELSE total
=============================================================================
