----------------------------- MODULE IceSession -----------------------------
(***************************************************************************)
(* Two ICE sessions (session/ice_session.rs over ice/agent.rs) that have   *)
(* exchanged credentials and candidates in the offer and the answer, and   *)
(* run their connectivity checks against each other.                       *)
(*                                                                         *)
(* A run of run_checks is a loop with waits: it can be overtaken by the    *)
(* dispatcher tasks of its own agent, which answer the peer's checks from  *)
(* the moment the sockets are bound, and by everything the peer does.  A   *)
(* STUN message that is never delivered is a lost one, a timer may fire    *)
(* while the answer is under way, and the application may drop the future  *)
(* (a timeout around run_checks) and run the checks again.                 *)
(***************************************************************************)
EXTENDS IceAgent

CONSTANTS
    Hosts,       \* Hosts[s]: the addresses side s can bind, in the order they are found
    Mapped,      \* Mapped[s]: the <<public address, base>> its STUN servers would report
    Topologies,  \* sets of <<socket, address>>: who can reach what
    MaxRuns      \* MaxRuns[s]: bound, calls of run_checks of side s

ASSUME IceAssumption ==
    \A s \in {"offerer", "answerer"} : /\ Hosts[s] \in Seq(Range(Hosts[s]))
                                       /\ Mapped[s] \in Seq(Range(Mapped[s]))

VARIABLES
    agent,      \* agent[s]: the record of IceAgent
    run,        \* run[s]: the state of the call of run_checks
    result,     \* result[s]: the session's socket and peer address
    net,        \* STUN messages under way
    paths,      \* which socket reaches which address
    answered,   \* history: <<socket, address>> of the checks the peer answered
    dropped     \* history: transactions whose future was dropped

iceVars == <<agent, run, result, net, paths, answered, dropped>>

Sides == {"offerer", "answerer"}
Peer(s) == IF s = "offerer" THEN "answerer" ELSE "offerer"

NoResult == [socket |-> "none", peer |-> "none"]
Idle == [pc |-> "new", todo |-> {}, got |-> FALSE, runs |-> 0, txn |-> 0]

\* The socket behind an address: the address itself, or the base it is mapped to.
SocketOf(s, addr) ==
    IF \E i \in DOMAIN Mapped[s] : Mapped[s][i][1] = addr
    THEN LET i == CHOOSE j \in DOMAIN Mapped[s] : Mapped[s][j][1] = addr IN Mapped[s][i][2]
    ELSE addr

IceInit ==
    /\ agent = [s \in Sides |-> New(IF s = "offerer" THEN "controlling" ELSE "controlled")]
    /\ run = [s \in Sides |-> Idle]
    /\ result = [s \in Sides |-> NoResult]
    /\ net = {}
    /\ paths \in Topologies
    /\ answered = {}
    /\ dropped = {}

-----------------------------------------------------------------------------
(* IceSession::gather.                                                     *)

BindHosts(s) ==
    /\ run[s].pc = "new"
    /\ agent' = [agent EXCEPT ![s] = GatherHosts(@, [i \in DOMAIN Hosts[s] |-> Host(Hosts[s][i])])]
    /\ run' = [run EXCEPT ![s].pc = "gathering"]
    /\ UNCHANGED <<result, net, paths, answered, dropped>>

\* All the servers were asked; each one answered or timed out.
GatherDone(s) ==
    /\ run[s].pc = "gathering"
    /\ \E heard \in SUBSET DOMAIN Mapped[s] :
          agent' = [agent EXCEPT ![s] = GatherSrflx(@,
              [i \in 1 .. Cardinality(heard) |->
                  LET k == CHOOSE k \in heard : Cardinality({j \in heard : j <= k}) = i
                  IN  ServerReflexive(Mapped[s][k][1], Mapped[s][k][2])])]
    /\ run' = [run EXCEPT ![s].pc = "ready"]
    /\ UNCHANGED <<result, net, paths, answered, dropped>>

\* The gather budget runs out while a server is being asked: the hosts are returned, and the
\* entry of the request whose future was dropped stays behind.
GatherTimeout(s) ==
    LET txn == <<s, 0>> IN
    /\ run[s].pc = "gathering"
    /\ Mapped[s] # <<>>
    /\ agent' = [agent EXCEPT ![s].pending = @ \cup {txn}]
    /\ dropped' = dropped \cup {txn}
    /\ run' = [run EXCEPT ![s].pc = "ready"]
    /\ UNCHANGED <<result, net, paths, answered>>

-----------------------------------------------------------------------------
(* IceSession::run_checks.                                                 *)

\* The offer and the answer have been exchanged: apply the peer's parameters and start.
RunChecks(s) ==
    LET ag == StartChecks(AddRemoteCandidates(agent[s], agent[Peer(s)].local)) IN
    /\ run[s].pc \in {"ready", "failed"}
    /\ run[Peer(s)].pc \notin {"new", "gathering"}
    /\ run[s].runs < MaxRuns[s]
    /\ agent' = [agent EXCEPT ![s] = ag]
    /\ run' = [run EXCEPT ![s].pc = "next", ![s].todo = WaitingPairs(ag), ![s].runs = @ + 1]
    /\ UNCHANGED <<result, net, paths, answered, dropped>>

\* The next pair of the snapshot: mark it, find its socket, send the one binding request.
BeginCheck(s) ==
    LET idx  == FirstOf(run[s].todo)[1]
        pair == FirstOf(run[s].todo)[2]
        txn  == <<s, run[s].txn + 1>>
        marked == MarkInProgress(agent[s], idx)
    IN
    /\ run[s].pc = "next" /\ run[s].todo # {}
    /\ IF pair.local.base \in agent[s].sockets
       THEN /\ agent' = [agent EXCEPT ![s] = Expect(marked, pair.local.base, txn)]
            /\ net' = net \cup {m \in {[kind |-> "request", from |-> pair.local.base,
                                         to |-> pair.remote.addr, txn |-> txn]} :
                                 <<m.from, m.to>> \in paths}
            /\ run' = [run EXCEPT ![s].pc = "wait", ![s].got = FALSE, ![s].txn = @ + 1]
       ELSE /\ agent' = [agent EXCEPT ![s] = CheckFailed(marked, idx)]
            /\ run' = [run EXCEPT ![s].todo = @ \ {FirstOf(@)}]
            /\ UNCHANGED net
    /\ UNCHANGED <<result, paths, answered, dropped>>

\* The oneshot has the answer: the pair succeeded.
CheckAnswered(s) ==
    LET idx == FirstOf(run[s].todo)[1]
        pair == FirstOf(run[s].todo)[2]
    IN
    /\ run[s].pc = "wait" /\ run[s].got
    /\ agent' = [agent EXCEPT ![s] =
           CheckSucceeded(Forget(@, <<s, run[s].txn>>), idx, pair)]
    /\ run' = [run EXCEPT ![s].pc = "selected"]
    /\ UNCHANGED <<result, net, paths, answered, dropped>>

\* Mutant: the wait for the answer has no timeout.
CheckTimeout_Never(s) == run[s].pc = "timed out" /\ UNCHANGED iceVars

\* check_timeout_ms without an answer: the pair failed; the request is not sent again.
CheckTimeout(s) ==
    /\ run[s].pc = "wait" /\ ~run[s].got
    /\ agent' = [agent EXCEPT ![s] =
           CheckFailed(Forget(@, <<s, run[s].txn>>), FirstOf(run[s].todo)[1])]
    /\ run' = [run EXCEPT ![s].pc = "next", ![s].todo = @ \ {FirstOf(@)}]
    /\ UNCHANGED <<result, net, paths, answered, dropped>>

\* No pair of the snapshot succeeded.
Fallback(s) ==
    LET ag == FallbackSelection(agent[s]) IN
    /\ run[s].pc = "next" /\ run[s].todo = {}
    /\ agent' = [agent EXCEPT ![s] = ag]
    /\ run' = [run EXCEPT ![s].pc = IF ag.state = "failed" THEN "failed" ELSE "selected"]
    /\ UNCHANGED <<result, net, paths, answered, dropped>>

\* Mutant: the unchecked pair of fallback_selection is good enough.
Validated_Fallback(ag) == ag.selected # NoPair /\ ag.selected.local.base \in ag.sockets

\* The pair the agent selected must have passed its check, and its socket be bound; then the
\* dispatchers stop, so that the application reads its own media.
Validated(ag) == ag.selected.state = "succeeded" /\ ag.selected.local.base \in ag.sockets

EndRun(s) ==
    /\ run[s].pc = "selected"
    /\ IF Validated(agent[s])
       THEN /\ agent' = [agent EXCEPT ![s] = StopResponders(@)]
            /\ result' = [result EXCEPT ![s] = [socket |-> agent[s].selected.local.base,
                                                peer |-> agent[s].selected.remote.addr]]
            /\ run' = [run EXCEPT ![s].pc = "ok"]
       ELSE /\ run' = [run EXCEPT ![s].pc = "failed"]
            /\ UNCHANGED <<agent, result>>
    /\ UNCHANGED <<net, paths, answered, dropped>>

\* The application drops the future of run_checks at its wait.
DropRun(s) ==
    /\ run[s].pc = "wait"
    /\ run' = [run EXCEPT ![s].pc = "failed"]
    /\ dropped' = dropped \cup {<<s, run[s].txn>>}
    /\ UNCHANGED <<agent, result, net, paths, answered>>

\* IceSession::close, when no call is running.
CloseSession(s) ==
    /\ run[s].pc \in {"ok", "failed"}
    /\ run' = [run EXCEPT ![s].pc = "closed"]
    /\ agent' = [agent EXCEPT ![s] = Close(@)]
    /\ UNCHANGED <<result, net, paths, answered, dropped>>

-----------------------------------------------------------------------------
(* stun_dispatcher_loop: one message read from a socket of side s.         *)

DispatchRequest(s) == \E m \in net :
    /\ m.kind = "request" /\ m.txn[1] = Peer(s)
    /\ SocketOf(s, m.to) \in agent[s].tasks
    /\ net' = (net \ {m}) \cup {[m EXCEPT !.kind = "response"]}
    /\ answered' = answered \cup {<<m.from, m.to>>}
    /\ UNCHANGED <<agent, run, result, paths, dropped>>

DispatchResponse(s) == \E m \in net :
    /\ m.kind = "response" /\ m.txn[1] = s
    /\ m.from \in agent[s].tasks
    /\ net' = net \ {m}
    /\ agent' = [agent EXCEPT ![s] = Forget(@, m.txn)]
    /\ run' = [run EXCEPT ![s].got =
           @ \/ (m.txn \in agent[s].pending /\ run[s].pc = "wait" /\ m.txn = <<s, run[s].txn>>)]
    /\ UNCHANGED <<result, paths, answered, dropped>>

-----------------------------------------------------------------------------
SideNext(s) ==
    \/ BindHosts(s) \/ GatherDone(s) \/ GatherTimeout(s)
    \/ RunChecks(s) \/ BeginCheck(s) \/ CheckAnswered(s) \/ CheckTimeout(s)
    \/ Fallback(s) \/ EndRun(s) \/ DropRun(s) \/ CloseSession(s)
    \/ DispatchRequest(s) \/ DispatchResponse(s)

IceNext == \E s \in Sides : SideNext(s)

\* Every task that can go on is polled, and a tokio timer fires.
IceFairness ==
    \A s \in Sides : WF_iceVars(BeginCheck(s) \/ CheckAnswered(s) \/ CheckTimeout(s)
                                \/ Fallback(s) \/ EndRun(s))

IceSpec == IceInit /\ [][IceNext]_iceVars /\ IceFairness

-----------------------------------------------------------------------------
(* Properties.                                                             *)

\* A session hands out a socket and a peer address only if the peer answered a check that went
\* from this socket to this address, however late, lost or repeated the other answers were
\* (IceSession::run_checks refuses the agent's unchecked fallback); and from then on no
\* dispatcher reads the socket of its media, which stays bound until the session is closed.
SessionIsUsable ==
    \A s \in Sides : result[s] # NoResult =>
        /\ <<result[s].socket, result[s].peer>> \in answered
        /\ result[s].socket \notin agent[s].tasks
        /\ run[s].pc # "closed" => result[s].socket \in agent[s].sockets

\* The table of pending answers holds the transaction that is being waited for and, beyond it,
\* only those whose future was dropped: nothing is left behind by answers and timeouts.
PendingIsCurrent ==
    \A s \in Sides : \A txn \in agent[s].pending :
        txn \in dropped \/ (run[s].pc = "wait" /\ txn = <<s, run[s].txn>>)

\* Every call of run_checks returns.
RunsEnd == \A s \in Sides : run[s].pc = "next" ~> run[s].pc \in {"ok", "failed"}

\* A check on a path that works finds somebody to answer it: while a side waits for the answer
\* to a request that reaches a socket of the peer, the peer's dispatcher reads this socket,
\* unless the peer has closed its session (the tests run the two loops concurrently because
\* "each one's check is the oracle for the other's responder").
ChecksAreAnswerable ==
    \A s \in Sides : \A m \in net :
        (/\ m.kind = "request" /\ m.txn = <<s, run[s].txn>>
         /\ run[s].pc = "wait" /\ run[Peer(s)].pc # "closed")
            => SocketOf(Peer(s), m.to) \in agent[Peer(s)].tasks
=============================================================================
