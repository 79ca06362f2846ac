------------------------------ MODULE IceAgent ------------------------------
(***************************************************************************)
(* The ICE agent of ice/agent.rs as operators on an agent record: the      *)
(* gathered and the received candidates, the candidate pairs in the order  *)
(* of the check list, the selected pair, the bound sockets, the            *)
(* dispatcher tasks that read them, and the transactions that wait for an  *)
(* answer.  A candidate keeps the address it is reached at, the socket it  *)
(* is sent from (its base), its type, its foundation and its component.    *)
(***************************************************************************)
EXTENDS Integers, Sequences, FiniteSets, SequencesExt

NoPair == [state |-> "none"]

\* IceAgent::new.
New(role) ==
    [role |-> role, state |-> "new", local |-> <<>>, remote |-> <<>>, pairs |-> <<>>,
     selected |-> NoPair, sockets |-> {}, tasks |-> {}, pending |-> {}, creds |-> FALSE]

\* Candidate::host and Candidate::server_reflexive; the foundation is the type and the base.
Host(addr) == [addr |-> addr, base |-> addr, type |-> "host", component |-> 1]
ServerReflexive(addr, base) == [addr |-> addr, base |-> base, type |-> "srflx", component |-> 1]
Foundation(c) == <<c.type, c.base>>

\* calculate_priority, reduced to the order of the type preferences (126 and 100).
Priority(c) == IF c.type = "host" THEN 2 ELSE 1

\* calculate_pair_priority, with 8 for 2^32: what multiplies the smaller priority must exceed
\* twice the larger one.
PairPriority(controlling, l, r) ==
    LET g == IF controlling THEN Priority(l) ELSE Priority(r)
        d == IF controlling THEN Priority(r) ELSE Priority(l)
        lo == IF g < d THEN g ELSE d
        hi == IF g < d THEN d ELSE g
    IN 8 * lo + 2 * hi + IF g > d THEN 1 ELSE 0

-----------------------------------------------------------------------------
(* Gathering.                                                              *)

\* gather_candidates up to the point where the host candidates are stored: every host socket
\* is bound and gets its dispatcher.
GatherHosts(ag, hosts) ==
    [ag EXCEPT !.state = "gathering", !.local = hosts,
               !.sockets = {hosts[i].addr : i \in DOMAIN hosts},
               !.tasks = {hosts[i].addr : i \in DOMAIN hosts}]

\* The rest of gather_candidates: the answers of the STUN servers are added when all of them
\* have been tried; when the budget runs out first, the hosts are all there is.
GatherSrflx(ag, mapped) == [ag EXCEPT !.local = @ \o mapped]

-----------------------------------------------------------------------------
(* The check list.                                                         *)

AddPair(role, pairs, l, r) ==
    IF \/ l.component # r.component
       \/ \E i \in DOMAIN pairs : pairs[i].local.addr = l.addr /\ pairs[i].remote.addr = r.addr
    THEN pairs
    ELSE Append(pairs, [local |-> l, remote |-> r, state |-> "frozen", nominated |-> FALSE,
                        priority |-> PairPriority(role = "controlling", l, r)])

\* The two loops of form_candidate_pairs, counted through.
AllPairs(ag) ==
    LET m == Len(ag.remote)
        add[n \in 0 .. Len(ag.local) * m] ==
            IF n = 0 THEN ag.pairs
            ELSE AddPair(ag.role, add[n - 1], ag.local[1 + ((n - 1) \div m)],
                         ag.remote[1 + ((n - 1) % m)])
    IN  add[Len(ag.local) * m]

\* Vec::sort_by_key is stable: a pair goes behind the pairs of its own priority.
InsertByPriority(pairs, p) ==
    InsertAt(pairs, 1 + Cardinality({i \in DOMAIN pairs : pairs[i].priority >= p.priority}), p)

SortByPriority(pairs) ==
    LET ins[n \in 0 .. Len(pairs)] ==
            IF n = 0 THEN <<>> ELSE InsertByPriority(ins[n - 1], pairs[n])
    IN  ins[Len(pairs)]

\* form_candidate_pairs: pair what is new, sort, and set the first pair of every foundation
\* to Waiting, whatever its state was.
FormCandidatePairs(ag) ==
    LET sorted == SortByPriority(AllPairs(ag))
        Same(p, q) == /\ Foundation(p.local) = Foundation(q.local)
                      /\ Foundation(p.remote) = Foundation(q.remote)
    IN [ag EXCEPT !.pairs = [i \in DOMAIN sorted |->
            IF \E j \in 1 .. i - 1 : Same(sorted[j], sorted[i])
            THEN sorted[i]
            ELSE [sorted[i] EXCEPT !.state = "waiting"]]]

\* set_remote_credentials and add_remote_candidates.
AddRemoteCandidates(ag, cands) ==
    FormCandidatePairs([ag EXCEPT !.remote = @ \o cands, !.creds = TRUE])

\* start_checks looks only at copies of the pairs that are Waiting when it starts, by their index.
WaitingPairs(ag) ==
    {<<i, ag.pairs[i]>> : i \in {j \in DOMAIN ag.pairs : ag.pairs[j].state = "waiting"}}

\* They are taken in the order of the check list.
FirstOf(todo) == CHOOSE e \in todo : \A f \in todo : e[1] <= f[1]

StartChecks(ag) == [ag EXCEPT !.state = "checking"]

MarkInProgress(ag, idx) == [ag EXCEPT !.pairs[idx].state = "in_progress"]

\* The socket of the pair's local candidate, and send_and_await_response up to the wait.
Expect(ag, base, txn) == [ag EXCEPT !.tasks = @ \cup {base}, !.pending = @ \cup {txn}]

\* Mutant: the entry stays.
Forget_Nothing(ag, txn) == ag

\* send_and_await_response drops its entry however the wait ended.
Forget(ag, txn) == [ag EXCEPT !.pending = @ \ {txn}]

\* A check that was answered: the pair is selected at once, without waiting for a nomination
\* by the other side, and the Frozen pairs of the same local foundation are unfrozen.
CheckSucceeded(ag, idx, pair) ==
    LET won == [ag.pairs[idx] EXCEPT !.state = "succeeded",
                                     !.nominated = @ \/ ag.role = "controlling"]
    IN [ag EXCEPT !.selected = won, !.state = "connected",
                  !.pairs = [i \in DOMAIN @ |->
                      IF i = idx THEN won
                      ELSE IF /\ @[i].state = "frozen"
                              /\ Foundation(@[i].local) = Foundation(pair.local)
                           THEN [@[i] EXCEPT !.state = "waiting"]
                           ELSE @[i]]]

CheckFailed(ag, idx) == [ag EXCEPT !.pairs[idx].state = "failed"]

\* fallback_selection: the first pair of two hosts, else the first pair, checked or not.
FallbackSelection(ag) ==
    LET hosts == {i \in DOMAIN ag.pairs : /\ ag.pairs[i].local.type = "host"
                                          /\ ag.pairs[i].remote.type = "host"}
        best  == IF hosts # {} THEN Min(hosts) ELSE 1
    IN IF ag.pairs = <<>> THEN [ag EXCEPT !.state = "failed"]
       ELSE [ag EXCEPT !.selected = ag.pairs[best], !.state = "connected"]

StopResponders(ag) == [ag EXCEPT !.tasks = {}]

Close(ag) == [ag EXCEPT !.state = "closed", !.sockets = {}, !.tasks = {}, !.pending = {}]
=============================================================================
