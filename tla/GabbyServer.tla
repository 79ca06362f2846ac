----------------------------- MODULE GabbyServer ----------------------------
(***************************************************************************)
(* gabby/src/server.rs and the life of its call handlers (gabby/src/       *)
(* call.rs, CallHandler::run): the voice agent answers INVITEs itself,     *)
(* without a transaction layer, so that a repeated INVITE is a new call    *)
(* under the same Call-ID.  The server is one task, every handler another. *)
(* Requests come in any order and any number; the one limit is on INVITEs. *)
(***************************************************************************)
EXTENDS Integers, Sequences, FiniteSetsExt

CONSTANTS
    Callers,      \* the Call-IDs of the callers
    RtpPorts,     \* the even ports of the range, smaller ones first
    EndCap,       \* capacity of the channel of ended calls (100 in the code)
    CallTimeout,  \* call_timeout, in units of the clock
    MaxInvites    \* bound: INVITEs that get as far as a port

ASSUME GabbyAssumption == RtpPorts \subseteq Nat

VARIABLES
    allocated,    \* allocated_rtp_ports
    active,       \* active_calls: Call-ID -> the handler that holds the other end, and its port
    ends,         \* the channel call_end
    handlers      \* the handler tasks spawned so far

gsVars == <<allocated, active, ends, handlers>>

GsInit == allocated = {} /\ active = <<>> /\ ends = <<>> /\ handlers = <<>>

\* A handler task: its shutdown channel was sent to or lost its sender, how long ago it heard
\* its caller, and whether the caller has stopped sending audio for good.
NewHandler(c, p) ==
    [call |-> c, port |-> p, state |-> "spawned", shutdown |-> "open", idle |-> 0, mute |-> FALSE]

\* The sender of handler h is used and dropped, or just dropped.
Signal(hs, h, how) == [hs EXCEPT ![h].shutdown = IF @ = "open" THEN how ELSE @]

HasSocket(h) == handlers[h].state \in {"listening", "busy"}
Bound == {handlers[h].port : h \in {x \in DOMAIN handlers : HasSocket(x)}}

-----------------------------------------------------------------------------
(* GabbyServer.                                                            *)

\* allocate_rtp_port: the first port of the range that is not allocated.
FreePorts == RtpPorts \ allocated

\* handle_invite: an entry of the same Call-ID is overwritten, and its sender dropped.
HandleInvite(c) ==
    LET p == Min(FreePorts)
        h == Len(handlers) + 1
    IN /\ h <= MaxInvites /\ FreePorts # {}
       /\ allocated' = allocated \cup {p}
       /\ active' = [x \in DOMAIN active \cup {c} |->
                        IF x = c THEN [handler |-> h, port |-> p] ELSE active[x]]
       /\ handlers' = Append(IF c \in DOMAIN active
                             THEN Signal(handlers, active[c].handler, "dropped") ELSE handlers,
                             NewHandler(c, p))
       /\ UNCHANGED ends

\* handle_invite when the 200 OK cannot be sent: it returns with the port allocated.
HandleInviteSendFails ==
    /\ Len(handlers) < MaxInvites /\ FreePorts # {}
    /\ allocated' = allocated \cup {Min(FreePorts)}
    /\ UNCHANGED <<active, ends, handlers>>

\* The entry of the call is removed, its sender dropped and its port freed.
RemoveCall(c, how) ==
    IF c \in DOMAIN active
    THEN /\ active' = [x \in DOMAIN active \ {c} |-> active[x]]
         /\ allocated' = allocated \ {active[c].port}
         /\ handlers' = Signal(handlers, active[c].handler, how)
    ELSE UNCHANGED <<active, allocated, handlers>>

\* handle_bye and handle_cancel: the same code.
HandleHangup(c) == RemoveCall(c, "sent") /\ UNCHANGED ends

\* handle_call_end: by Call-ID, whichever handler has it now.
HandleCallEnd ==
    /\ ends # <<>>
    /\ ends' = Tail(ends)
    /\ RemoveCall(Head(ends), "dropped")

-----------------------------------------------------------------------------
(* CallHandler and the task around it.                                     *)

\* Mutant: a handler that could not be made ends without a word.
CallHandlerNew_FailsSilently(h) ==
    /\ handlers[h].state = "spawned"
    /\ \/ handlers[h].port \notin Bound /\ handlers' = [handlers EXCEPT ![h].state = "listening"]
       \/ handlers' = [handlers EXCEPT ![h].state = "gone"]
    /\ UNCHANGED <<allocated, active, ends>>

\* CallHandler::new: the socket cannot be bound while another handler still has the port; it,
\* the recogniser or a resampler may fail for other reasons, and the task goes on to its end.
CallHandlerNew(h) ==
    /\ handlers[h].state = "spawned"
    /\ \/ handlers[h].port \notin Bound /\ handlers' = [handlers EXCEPT ![h].state = "listening"]
       \/ handlers' = [handlers EXCEPT ![h].state = "ended"]
    /\ UNCHANGED <<allocated, active, ends>>

\* handle_rtp_receive: the packet is activity; the greeting and the answer to a finished
\* utterance keep the handler busy, away from its loop (GabbyTurn).
HandleRtpReceive(h) ==
    /\ handlers[h].state = "listening" /\ ~handlers[h].mute
    /\ \E s \in {"listening", "busy"} :
          handlers' = [handlers EXCEPT ![h].idle = 0, ![h].state = s]
    /\ UNCHANGED <<allocated, active, ends>>

\* The language model and the synthesiser have answered, failed or timed out.
TurnAnswered(h) ==
    /\ handlers[h].state = "busy"
    /\ handlers' = [handlers EXCEPT ![h].state = "listening"]
    /\ UNCHANGED <<allocated, active, ends>>

\* The tick of send_interval finds the call inactive; other ticks send a frame.
TimedOut(h) ==
    /\ handlers[h].state = "listening" /\ handlers[h].idle > CallTimeout
    /\ handlers' = [handlers EXCEPT ![h].state = "ended"]
    /\ UNCHANGED <<allocated, active, ends>>

\* Mutant: the branch waits for a message, Some(()), and not for the end of the channel.
Shutdown_OnMessage(h) ==
    /\ handlers[h].state = "listening" /\ handlers[h].shutdown = "sent"
    /\ handlers' = [handlers EXCEPT ![h].state = "ended"]
    /\ UNCHANGED <<allocated, active, ends>>

\* shutdown_rx.recv() returns: with the message, or because the sender is gone.
Shutdown(h) ==
    /\ handlers[h].state = "listening" /\ handlers[h].shutdown # "open"
    /\ handlers' = [handlers EXCEPT ![h].state = "ended"]
    /\ UNCHANGED <<allocated, active, ends>>

\* The task tells the server, and waits while the channel is full.
NotifyEnd(h) ==
    /\ handlers[h].state = "ended" /\ Len(ends) < EndCap
    /\ handlers' = [handlers EXCEPT ![h].state = "gone"]
    /\ ends' = Append(ends, handlers[h].call)
    /\ UNCHANGED <<allocated, active>>

\* The clock of the handler, and a caller who sends no more audio.
HandlerElapse(h) ==
    /\ HasSocket(h) /\ handlers[h].idle <= CallTimeout
    /\ handlers' = [handlers EXCEPT ![h].idle = @ + 1]
    /\ UNCHANGED <<allocated, active, ends>>
FallMute(h) ==
    /\ HasSocket(h) /\ ~handlers[h].mute
    /\ handlers' = [handlers EXCEPT ![h].mute = TRUE]
    /\ UNCHANGED <<allocated, active, ends>>

-----------------------------------------------------------------------------
HandlerStep(h) ==
    \/ CallHandlerNew(h) \/ HandleRtpReceive(h) \/ TurnAnswered(h) \/ TimedOut(h) \/ Shutdown(h)
    \/ NotifyEnd(h) \/ HandlerElapse(h) \/ FallMute(h)

GsNext ==
    \/ \E c \in Callers : HandleInvite(c) \/ HandleHangup(c)
    \/ HandleInviteSendFails
    \/ HandleCallEnd
    \/ \E h \in DOMAIN handlers : HandlerStep(h)

\* Steps a handler is sure to take when it can take them for good; and the shutdown branch,
\* which select! polls in random order with the packets of a talking caller, when it can be
\* taken again and again.
Sure(h) == CallHandlerNew(h) \/ TurnAnswered(h) \/ TimedOut(h) \/ NotifyEnd(h) \/ HandlerElapse(h)
GsFairness ==
    /\ WF_gsVars(HandleCallEnd)
    /\ \A h \in 1 .. MaxInvites :
          /\ WF_gsVars(h \in DOMAIN handlers /\ Sure(h))
          /\ SF_gsVars(h \in DOMAIN handlers /\ Shutdown(h))

GsSpec == GsInit /\ [][GsNext]_gsVars /\ GsFairness

-----------------------------------------------------------------------------
(* Properties.                                                             *)

\* The table is right about the calls, whatever repeated INVITEs, hang-ups and notices of
\* earlier handlers of the same Call-ID do to it: each entry has an allocated port of its own,
\* and a handler that is at work or whose end is still to be read from the channel; and a
\* handler at work that has no entry has been told to stop.
ActiveIsServed ==
    /\ \A c \in DOMAIN active :
          /\ active[c].port \in allocated
          /\ \A d \in DOMAIN active \ {c} : active[d].port # active[c].port
          /\ \/ handlers[active[c].handler].state # "gone"
             \/ \E i \in DOMAIN ends : ends[i] = c
    /\ \A h \in DOMAIN handlers :
          \/ handlers[h].shutdown # "open"
          \/ \E c \in DOMAIN active : active[c].handler = h

Over(h) == handlers[h].shutdown # "open" \/ handlers[h].mute

\* A call that was hung up, replaced by a repeated INVITE, or whose caller sends nothing any
\* more comes to its end: the handler ends, however long it is busy, and the table forgets it.
\* (New calls are bounded, so that there is always a moment without such a call left over.)
CallsEnd ==
    []<>(\A h \in DOMAIN handlers : Over(h) =>
            /\ handlers[h].state = "gone"
            /\ \A c \in DOMAIN active : active[c].handler # h)
=============================================================================
