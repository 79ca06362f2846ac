--------------------------- MODULE StreamTransport --------------------------
(***************************************************************************)
(* One transport endpoint over TCP or TLS: the table of connections keyed  *)
(* by the address of the peer, one read-loop task per connection, the      *)
(* bounded channel to the application, and tasks that connect and send.    *)
(* There is one peer address; its connections are numbered in the order    *)
(* they are established, so that a peer that comes back from the port it   *)
(* used before is a later connection under the same key.                   *)
(*                                                                         *)
(* transport tells TcpTransport and TlsTransport apart.  tcp.rs splits the *)
(* stream: the read loop owns its half, and the lock of a connection       *)
(* covers one write.  tls.rs keeps one Mutex around the stream, and        *)
(* read_loop holds it over a whole read_message; it neither strips         *)
(* keep-alives nor sends them.                                             *)
(***************************************************************************)
EXTENDS StreamFraming

CONSTANTS
    Servers,      \* the transports of endpoints that have a listener: "tcp", "tls"
    Clients,      \* and of those that connect and then start
    PingRoles,    \* the roles configured with send_pings (TCP only)
    Tasks,        \* the tasks that call connect and send
    Items,        \* what the peer may put on the wire: a subset of DOMAIN Bytes
    MaxConns,     \* connections that are ever established
    MaxItems,     \* things the peer sends in all
    MaxPings,     \* keep-alive pings this side sends in all
    Capacity,     \* of the channel to the application (256 in the code)
    MaxSize       \* MAX_TCP_SIZE, MAX_TLS_SIZE

ASSUME StAssumption ==
    /\ Servers \subseteq {"tcp", "tls"} /\ Clients \subseteq {"tcp", "tls"}
    /\ PingRoles \subseteq {"server", "client"}
    /\ Items \subseteq DOMAIN Bytes
    /\ {MaxConns, MaxItems, MaxPings, Capacity, MaxSize} \subseteq Nat

Conns == 1..MaxConns
None == 0
Dropped == -1
Reader == "reader"

VARIABLES
    transport,  \* "tcp" or "tls"
    role,       \* "server" or "client"
    started,    \* start() has been called
    opened,     \* number of connections established so far
    up,         \* per connection: the peer has not closed it
    wire,       \* per connection: bytes of the peer that are not read yet
    sent,       \* per connection: the messages the peer sent, in order
    items,      \* messages and keep-alives the peer sent in all
    connections,\* the handle found under the address of the peer, or None
    pending,    \* pending_reads: the read half stashed for start(), or None
    lock,       \* per connection: the holder of the lock, then who waits, FIFO
    reader,     \* per connection: where its read loop is
    handle,     \* per connection: the handle its read loop answers pings on
    buf,        \* per connection: read_buf
    owed,       \* per connection: pings stripped and not answered yet
    pings,      \* keep-alive pings sent in all
    channel,    \* number of messages waiting for the application, or Dropped
    delivered,  \* per connection: the messages handed to the channel
    task,       \* per task: where it is
    target      \* per task: the connection it established, or sends on

connVars == <<transport, role, started, opened, up, wire, sent, items>>
tableVars == <<connections, pending>>
readVars == <<reader, handle, buf, owed, pings>>
appVars == <<channel, delivered>>
taskVars == <<task, target>>
stVars == <<connVars, tableVars, lock, readVars, appVars, taskVars>>

-----------------------------------------------------------------------------
StInit ==
    /\ role \in {"server", "client"}
    /\ transport \in IF role = "server" THEN Servers ELSE Clients
    /\ started = (role = "server")
    /\ opened = 0
    /\ up = [c \in Conns |-> FALSE]
    /\ wire = [c \in Conns |-> <<>>]
    /\ sent = [c \in Conns |-> <<>>]
    /\ items = 0
    /\ connections = None
    /\ pending = None
    /\ lock = [c \in Conns |-> <<>>]
    /\ reader = [c \in Conns |-> "none"]
    /\ handle = [c \in Conns |-> None]
    /\ buf = [c \in Conns |-> <<>>]
    /\ owed = [c \in Conns |-> 0]
    /\ pings = 0
    /\ channel = 0
    /\ delivered = [c \in Conns |-> <<>>]
    /\ task = [t \in Tasks |-> "idle"]
    /\ target = [t \in Tasks |-> None]

-----------------------------------------------------------------------------
\* Mutant: TCP, too, keeps one lock around the whole stream.
SplitHalves_Never == FALSE

\* The stream is split: reading needs no lock, and keep-alives are handled.
SplitHalves == transport = "tcp"

(* The lock of a connection.                                               *)

Holds(c, who) == lock[c] # <<>> /\ Head(lock[c]) = who
Wait(c, who) == lock' = [lock EXCEPT ![c] = Append(@, who)]
Release(c) == lock' = [lock EXCEPT ![c] = Tail(@)]

\* Where a read loop goes to read its next message: TLS takes the lock first.
Top == IF SplitHalves THEN "parse" ELSE "acquire"

\* The state of a read loop that looked for a complete message in b.
AfterParse(b) == IF FrameLength(b) > 0 THEN "deliver" ELSE "read"

-----------------------------------------------------------------------------
(* The peer and the network.                                               *)

\* The accept loop of start(): the new handle replaces the one of the same
\* address, and the read loop starts.
Accept ==
    /\ role = "server" /\ opened < MaxConns
    /\ \A c \in 1..opened : ~up[c]
    /\ opened' = opened + 1
    /\ up' = [up EXCEPT ![opened'] = TRUE]
    /\ connections' = opened'
    /\ reader' = [reader EXCEPT ![opened'] = Top]
    /\ handle' = [handle EXCEPT ![opened'] = opened']
    /\ UNCHANGED <<transport, role, started, wire, sent, items, pending, lock, buf, owed, pings,
                   appVars, taskVars>>

PeerSend(c, i) ==
    /\ up[c] /\ items < MaxItems
    /\ items' = items + 1
    /\ wire' = [wire EXCEPT ![c] = @ \o Bytes[i]]
    /\ sent' = IF i \in Messages THEN [sent EXCEPT ![c] = Append(@, i)] ELSE sent
    /\ UNCHANGED <<transport, role, started, opened, up, tableVars, lock, readVars, appVars,
                   taskVars>>

PeerClose(c) ==
    /\ up[c]
    /\ up' = [up EXCEPT ![c] = FALSE]
    /\ UNCHANGED <<transport, role, started, opened, wire, sent, items, tableVars, lock, readVars,
                   appVars, taskVars>>

-----------------------------------------------------------------------------
(* read_message and read_loop.                                             *)

\* tls.rs: let mut conn = conn_arc.lock().await, then try_parse_message.
ReadAcquire(c) ==
    /\ reader[c] = "acquire"
    /\ Wait(c, Reader)
    /\ reader' = [reader EXCEPT ![c] = "locked"]
    /\ UNCHANGED <<connVars, tableVars, handle, buf, owed, pings, appVars, taskVars>>

ReadLocked(c) ==
    /\ reader[c] = "locked" /\ Holds(c, Reader)
    /\ reader' = [reader EXCEPT ![c] = AfterParse(buf[c])]
    /\ IF FrameLength(buf[c]) > 0 THEN Release(c) ELSE UNCHANGED lock
    /\ UNCHANGED <<connVars, tableVars, handle, buf, owed, pings, appVars, taskVars>>

\* tcp.rs: strip_leading_keepalives, then the pongs or the frame.
ReadStrip(c) ==
    /\ reader[c] = "parse"
    /\ buf' = [buf EXCEPT ![c] = Stripped(@)]
    /\ owed' = [owed EXCEPT ![c] = PingsIn(buf[c])]
    /\ IF owed'[c] > 0
       THEN /\ reader' = [reader EXCEPT ![c] = "pong"]
            /\ Wait(handle[c], Reader)
       ELSE /\ reader' = [reader EXCEPT ![c] = AfterParse(buf'[c])]
            /\ UNCHANGED lock
    /\ UNCHANGED <<connVars, tableVars, handle, pings, appVars, taskVars>>

\* One pong, and the lock is dropped before the next one.  A write to a
\* connection that the peer has closed may fail: the read loop ends.
ReadPong(c) ==
    /\ reader[c] = "pong" /\ Holds(handle[c], Reader)
    /\ \/ /\ owed' = [owed EXCEPT ![c] = @ - 1]
          /\ IF owed'[c] > 0
             THEN /\ lock' = [lock EXCEPT ![handle[c]] = Append(Tail(@), Reader)]
                  /\ UNCHANGED reader
             ELSE /\ Release(handle[c])
                  /\ reader' = [reader EXCEPT ![c] = AfterParse(buf[c])]
       \/ /\ ~up[handle[c]]
          /\ Release(handle[c])
          /\ reader' = [reader EXCEPT ![c] = "remove"]
          /\ UNCHANGED owed
    /\ UNCHANGED <<connVars, tableVars, handle, buf, pings, appVars, taskVars>>

\* The read timed out with send_pings set: write a ping and start over.
ReadIdle(c) ==
    /\ SplitHalves /\ role \in PingRoles /\ pings < MaxPings
    /\ reader[c] = "read"
    /\ Wait(handle[c], Reader)
    /\ reader' = [reader EXCEPT ![c] = "ping"]
    /\ pings' = pings + 1
    /\ UNCHANGED <<connVars, tableVars, handle, buf, owed, appVars, taskVars>>

ReadPing(c) ==
    /\ reader[c] = "ping" /\ Holds(handle[c], Reader)
    /\ Release(handle[c])
    /\ \/ reader' = [reader EXCEPT ![c] = "parse"]
       \/ ~up[handle[c]] /\ reader' = [reader EXCEPT ![c] = "remove"]
    /\ UNCHANGED <<connVars, tableVars, handle, buf, owed, pings, appVars, taskVars>>

\* The read returns the next n bytes; TLS looks for a message with the lock
\* still held.  More than MaxSize buffered bytes are an error.
ReadBytes(c) ==
    /\ reader[c] = "read"
    /\ \E n \in 1..Len(wire[c]) :
          LET b == buf[c] \o SubSeq(wire[c], 1, n)
              next == CASE Len(b) > MaxSize -> "remove"
                        [] SplitHalves      -> "parse"
                        [] OTHER            -> AfterParse(b)
          IN  /\ buf' = [buf EXCEPT ![c] = b]
              /\ wire' = [wire EXCEPT ![c] = SubSeq(@, n + 1, Len(@))]
              /\ reader' = [reader EXCEPT ![c] = next]
              /\ IF ~SplitHalves /\ next # "read" THEN Release(c) ELSE UNCHANGED lock
    /\ UNCHANGED <<transport, role, started, opened, up, sent, items, tableVars, handle, owed, pings,
                   appVars, taskVars>>

\* The read returns 0: the peer has closed the connection.
ReadEnd(c) ==
    /\ reader[c] = "read" /\ wire[c] = <<>> /\ ~up[c]
    /\ reader' = [reader EXCEPT ![c] = "remove"]
    /\ IF SplitHalves THEN UNCHANGED lock ELSE Release(c)
    /\ UNCHANGED <<connVars, tableVars, handle, buf, owed, pings, appVars, taskVars>>

\* tx.send(msg).await: waits for room in the channel.  The loop ends when the
\* receiver has been dropped.
Deliver(c) ==
    /\ reader[c] = "deliver" /\ channel < Capacity
    /\ LET n == FrameLength(buf[c])
           msg == SubSeq(buf[c], 1, n)
       IN  /\ buf' = [buf EXCEPT ![c] = SubSeq(@, n + 1, Len(@))]
           /\ \/ /\ channel # Dropped
                 /\ channel' = channel + 1
                 /\ delivered' = [delivered EXCEPT ![c] = Append(@, msg)]
                 /\ reader' = [reader EXCEPT ![c] = Top]
              \/ /\ channel = Dropped
                 /\ reader' = [reader EXCEPT ![c] = "remove"]
                 /\ UNCHANGED appVars
    /\ UNCHANGED <<connVars, tableVars, lock, handle, owed, pings, taskVars>>

\* The end of read_loop: conns.remove(&remote_addr), whatever is there.
EndLoop(c) ==
    /\ reader[c] = "remove"
    /\ connections' = None
    /\ reader' = [reader EXCEPT ![c] = "done"]
    /\ UNCHANGED <<connVars, pending, lock, handle, buf, owed, pings, appVars, taskVars>>

ReadStep(c) ==
    \/ ReadAcquire(c) \/ ReadLocked(c) \/ ReadStrip(c) \/ ReadPong(c)
    \/ ReadPing(c) \/ ReadBytes(c) \/ ReadEnd(c) \/ Deliver(c) \/ EndLoop(c)

-----------------------------------------------------------------------------
(* The application: connect, start, send and the receiver of the channel.  *)

AppReceive ==
    /\ channel > 0
    /\ channel' = channel - 1
    /\ UNCHANGED <<connVars, tableVars, lock, readVars, delivered, taskVars>>

\* The application drops the receiver it got from start() (bound: before the
\* first message; the loops keep no trace of messages they have handed on).
AppDrops ==
    /\ started /\ channel = 0 /\ \A c \in Conns : delivered[c] = <<>>
    /\ channel' = Dropped
    /\ UNCHANGED <<connVars, tableVars, lock, readVars, delivered, taskVars>>

\* connect(): the check under the read lock, and the wait for the stream.
BeginConnect(t) ==
    /\ role = "client" /\ ~started /\ task[t] = "idle"
    /\ task' = [task EXCEPT ![t] = IF connections = None THEN "dial" ELSE "connected"]
    /\ UNCHANGED <<connVars, tableVars, lock, readVars, appVars, target>>

\* The stream is established, and its handle replaces what is in the table.
Dialled(t) ==
    /\ task[t] = "dial" /\ opened < MaxConns
    /\ opened' = opened + 1
    /\ up' = [up EXCEPT ![opened'] = TRUE]
    /\ connections' = opened'
    /\ target' = [target EXCEPT ![t] = opened']
    /\ task' = [task EXCEPT ![t] = IF SplitHalves THEN "stash" ELSE "connected"]
    /\ UNCHANGED <<transport, role, started, wire, sent, items, pending, lock, readVars, appVars>>

DialFails(t) ==
    /\ task[t] = "dial"
    /\ task' = [task EXCEPT ![t] = "failed"]
    /\ UNCHANGED <<connVars, tableVars, lock, readVars, appVars, target>>

\* tcp.rs: the read half is stashed under another lock.
Stash(t) ==
    /\ task[t] = "stash"
    /\ pending' = target[t]
    /\ task' = [task EXCEPT ![t] = "connected"]
    /\ UNCHANGED <<connVars, connections, lock, readVars, appVars, target>>

\* start() consumes the transport: no connect is under way and none follows.
\* tcp.rs pairs the stashed read half with the handle in the table; tls.rs
\* reads from the connection in the table.
Start ==
    /\ role = "client" /\ ~started
    /\ \A t \in Tasks : task[t] \in {"idle", "connected", "failed", "ok"}
    /\ started' = TRUE
    /\ LET c == IF SplitHalves THEN pending ELSE connections
       IN  IF c # None /\ connections # None
           THEN /\ reader' = [reader EXCEPT ![c] = Top]
                /\ handle' = [handle EXCEPT ![c] = connections]
           ELSE UNCHANGED <<reader, handle>>
    /\ pending' = None
    /\ UNCHANGED <<transport, role, opened, up, wire, sent, items, connections, lock, buf, owed, pings,
                   appVars, taskVars>>

\* send(): the handle is looked up and its lock requested.  Without a
\* connection a send fails with ConnectionClosed.
BeginSend(t) ==
    /\ task[t] = IF started THEN "idle" ELSE "connected"
    /\ IF connections = None
       THEN /\ task' = [task EXCEPT ![t] = "failed"]
            /\ UNCHANGED <<target, lock>>
       ELSE /\ task' = [task EXCEPT ![t] = "wait"]
            /\ target' = [target EXCEPT ![t] = connections]
            /\ Wait(connections, t)
    /\ UNCHANGED <<connVars, tableVars, readVars, appVars>>

\* The write, after which the lock is released; it may fail once the peer
\* has closed the connection.
Write(t) ==
    /\ task[t] = "wait" /\ Holds(target[t], t)
    /\ Release(target[t])
    /\ \/ task' = [task EXCEPT ![t] = "ok"]
       \/ ~up[target[t]] /\ task' = [task EXCEPT ![t] = "failed"]
    /\ UNCHANGED <<connVars, tableVars, readVars, appVars, target>>

\* A task that is done may be followed by another send.
Again(t) ==
    /\ started /\ task[t] \in {"connected", "ok", "failed"}
    /\ task' = [task EXCEPT ![t] = "idle"]
    /\ target' = [target EXCEPT ![t] = None]
    /\ UNCHANGED <<connVars, tableVars, lock, readVars, appVars>>

StNext ==
    \/ Accept \/ AppReceive \/ AppDrops \/ Start
    \/ \E c \in 1..opened : ReadStep(c) \/ ReadIdle(c) \/ PeerClose(c)
                            \/ \E i \in Items : PeerSend(c, i)
    \/ \E t \in Tasks : BeginConnect(t) \/ Dialled(t) \/ DialFails(t) \/ Stash(t)
                        \/ BeginSend(t) \/ Write(t) \/ Again(t)

StSpec == StInit /\ [][StNext]_stVars

(***************************************************************************)
(* The scheduler runs every task that can proceed.  Nothing makes the peer *)
(* send anything or close a connection, nor the application take what the  *)
(* channel holds.                                                          *)
(***************************************************************************)
StFairness ==
    /\ \A c \in Conns : WF_stVars(ReadStep(c))
    /\ \A t \in Tasks : WF_stVars(Write(t))

StFairSpec == StSpec /\ StFairness

-----------------------------------------------------------------------------
(* Framing.  However the stream is cut into reads, and whatever keep-alives *)
(* stand between the messages, read_message of tcp.rs returns exactly the  *)
(* messages the peer sent, whole and in their order.                       *)
FramesIntact ==
    \A c \in Conns :
       transport = "tcp" =>
          IsPrefix(delivered[c], [k \in 1..Len(sent[c]) |-> Bytes[sent[c][k]]])

(* A send over TCP that waits for the lock of its connection gets it       *)
(* although the peer says nothing: the promise of the module comment of    *)
(* tcp.rs, "a blocked read never holds any lock".                          *)
SendEnds ==
    \A t \in Tasks : transport = "tcp" /\ task[t] = "wait" ~> task[t] # "wait"

(* The same over TLS, where TlsTransport::send and TlsSender::send promise *)
(* to send a message when there is a connection.                           *)
TlsSendEnds ==
    \A t \in Tasks : transport = "tls" /\ task[t] = "wait" ~> task[t] # "wait"
=============================================================================
