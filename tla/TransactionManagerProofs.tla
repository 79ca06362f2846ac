---------------------- MODULE TransactionManagerProofs ----------------------
(***************************************************************************)
(* The tables of the transaction manager stay consistent, for any number   *)
(* of transactions, any branches and methods and all timer values.         *)
(***************************************************************************)
EXTENDS TransactionManager, TLAPS

\* The calls that reach at most one transaction leave the tables alone.
TablesKept ==
    /\ DOMAIN txs' = DOMAIN txs
    /\ \A h \in DOMAIN txs : txs'[h].type = txs[h].type /\ txs'[h].id = txs[h].id
    /\ UNCHANGED <<id_to_handle, handle_to_type, sent>>
    /\ next_handle' \in {next_handle, next_handle + 1}
    /\ orphans' \subseteq orphans

\* A transaction is entered under a handle and an identifier not in use.
Added ==
    \E id, m : \E type \in TransactionType :
       /\ id \notin DOMAIN id_to_handle
       /\ Registered(id, type, m)
       /\ next_handle' = next_handle + 1
       /\ sent \subseteq sent'
       /\ id \in sent' \/ id[1] \in Remote
       /\ orphans' = orphans

\* Draining the actions changes no table.
LEMMA QuietKeeps ==
    /\ DOMAIN Quiet = DOMAIN txs
    /\ \A h \in DOMAIN txs : Quiet[h].type = txs[h].type /\ Quiet[h].id = txs[h].id
BY DEF Quiet

\* A call into one transaction changes no table.
LEMMA CalledKeeps ==
    ASSUME NEW h, NEW m, Called(h, m)
    PROVE  /\ DOMAIN txs' = DOMAIN txs
           /\ \A g \in DOMAIN txs : txs'[g].type = txs[g].type /\ txs'[g].id = txs[g].id
BY DEF Called

\* Every step keeps the tables, adds one transaction under a new handle, or is
\* cleanup_terminated.
LEMMA MgrStepKinds ==
    ASSUME Local \cap Remote = {}, MgrInv, MgrNext
    PROVE  TablesKept \/ Added \/ cleanup_terminated
<1> USE QuietKeeps, CalledKeeps DEF KeepTables
<1>0. \A h \in DOMAIN txs : handle_to_type[h] \in TransactionType
  BY DEF MgrInv, Consistent
<1>1. ASSUME NEW b \in Local, NEW m \in Methods, create_client_transaction(b, m)
      PROVE  Added
  <2> DEFINE id == TransactionId(b, m)
  <2>1. id \notin DOMAIN id_to_handle
    BY <1>1 DEF create_client_transaction, FreshRequest, MgrInv, TransactionId
  <2>2. \E tx : \E type \in TransactionType : Registered(id, type, tx)
    BY <1>1 DEF create_client_transaction, TransactionType, ClientType
  <2> QED BY <1>1, <2>1, <2>2 DEF create_client_transaction, alloc_handle, Added
<1>2. ASSUME NEW b \in Remote, NEW m \in Methods, handle_request(b, m)
      PROVE  TablesKept \/ Added
  <2> DEFINE id == TransactionId(b, m)
  <2>1. CASE id \in DOMAIN id_to_handle
    <3>1. RouteRequest(id_to_handle[id], m) /\ UNCHANGED <<orphans, sent>>
      BY <1>2, <2>1 DEF handle_request
    <3> QED BY <3>1 DEF RouteRequest, TablesKept
  <2>2. CASE id \notin DOMAIN id_to_handle
    <3>1. CreateServer(id, m) /\ UNCHANGED <<orphans, sent>>
      BY <1>2, <2>2 DEF handle_request
    <3>2. CASE m = "ACK"
      BY <3>1, <3>2 DEF CreateServer, alloc_handle, TablesKept
    <3>3. CASE m # "ACK"
      <4>1. \E tx : \E type \in TransactionType : Registered(id, type, tx)
        BY <3>1, <3>3 DEF CreateServer, TransactionType, ServerType
      <4>2. id[1] \in Remote
        BY DEF TransactionId
      <4> QED BY <2>2, <3>1, <4>1, <4>2 DEF CreateServer, alloc_handle, Added
    <3> QED BY <3>2, <3>3
  <2> QED BY <2>1, <2>2
<1>3. ASSUME NEW b \in Local, NEW m \in Methods, NEW c \in Codes, handle_response(b, m, c)
      PROVE  TablesKept
  BY <1>3 DEF handle_response, TablesKept
<1>4. ASSUME NEW h \in DOMAIN txs, NEW t \in DOMAIN txs[h].m.armed, handle_timeout(h, t)
      PROVE  TablesKept
  <2>1. \E m : Called(h, m)
    BY <1>4, <1>0 DEF handle_timeout, TransactionType, ClientType, ServerType
  <2> QED BY <1>4, <2>1 DEF handle_timeout, TablesKept
<1>5. ASSUME NEW o \in orphans, handle_orphan(o[1], o[2]) PROVE TablesKept
  BY <1>5 DEF handle_orphan, TablesKept
<1>6. ASSUME NEW h \in DOMAIN txs, NEW c \in Codes, send_response(h, c) PROVE TablesKept
  BY <1>6 DEF send_response, TablesKept
<1>7. ASSUME NEW h \in DOMAIN txs, handle_transport_error(h) PROVE TablesKept
  <2>1. \E m : Called(h, m)
    BY <1>7, <1>0 DEF handle_transport_error, TransactionType, ClientType, ServerType
  <2> QED BY <1>7, <2>1 DEF handle_transport_error, TablesKept
<1> QED BY <1>1, <1>2, <1>3, <1>4, <1>5, <1>6, <1>7 DEF MgrNext, Timeouts

\* A transaction added under a new handle and a free identifier keeps MgrInv.
LEMMA AddedKeepsInv == ASSUME MgrInv, Added PROVE MgrInv'
<1>1. PICK id, m : \E type \in TransactionType :
         /\ id \notin DOMAIN id_to_handle
         /\ Registered(id, type, m)
         /\ next_handle' = next_handle + 1
         /\ sent \subseteq sent'
         /\ id \in sent' \/ id[1] \in Remote
         /\ orphans' = orphans
  BY DEF Added
<1>2. PICK type \in TransactionType : Registered(id, type, m)
  BY <1>1
<1> DEFINE n == next_handle
<1>3. n \notin DOMAIN txs /\ n \in Nat
  BY DEF MgrInv
<1>4. /\ DOMAIN txs' = DOMAIN txs \cup {n}
      /\ txs'[n].type = type /\ txs'[n].id = id
      /\ \A h \in DOMAIN txs : txs'[h].type = txs[h].type /\ txs'[h].id = txs[h].id
  BY <1>2, <1>3, QuietKeeps DEF Registered, Put
<1>5. /\ DOMAIN id_to_handle' = DOMAIN id_to_handle \cup {id}
      /\ id_to_handle'[id] = n
      /\ \A i \in DOMAIN id_to_handle : id_to_handle'[i] = id_to_handle[i]
  BY <1>1, <1>2 DEF Registered, Put
<1>6. /\ DOMAIN handle_to_type' = DOMAIN handle_to_type \cup {n}
      /\ handle_to_type'[n] = type
      /\ \A h \in DOMAIN txs : handle_to_type'[h] = handle_to_type[h]
  BY <1>2, <1>3 DEF Registered, Put, MgrInv, Consistent
<1>7. Consistent'
  BY <1>1, <1>3, <1>4, <1>5, <1>6 DEF MgrInv, Consistent
<1>8. OrphansHarmless'
  BY <1>1, <1>3, <1>4 DEF MgrInv, OrphansHarmless
<1> QED BY <1>1, <1>3, <1>4, <1>5, <1>7, <1>8 DEF MgrInv

\* cleanup_terminated takes a transaction out of all the tables.
LEMMA CleanupKeepsInv == ASSUME MgrInv, cleanup_terminated PROVE MgrInv'
<1>1. /\ DOMAIN txs' = DOMAIN txs \ EndedTxs
      /\ \A h \in DOMAIN txs' : txs'[h].type = txs[h].type /\ txs'[h].id = txs[h].id
  BY QuietKeeps DEF cleanup_terminated, Restrict
<1>2. /\ DOMAIN id_to_handle' = DOMAIN id_to_handle \ {txs[h].id : h \in EndedTxs}
      /\ \A i \in DOMAIN id_to_handle' : id_to_handle'[i] = id_to_handle[i]
  BY DEF cleanup_terminated, Restrict
<1>3. /\ DOMAIN handle_to_type' = DOMAIN handle_to_type \ EndedTxs
      /\ \A h \in DOMAIN handle_to_type' : handle_to_type'[h] = handle_to_type[h]
  BY DEF cleanup_terminated, Restrict
<1>4. EndedTxs \subseteq DOMAIN txs /\ UNCHANGED <<next_handle, sent>>
  BY DEF EndedTxs, cleanup_terminated
<1>5. \A o \in orphans' : o \in orphans \/ o[1] \in EndedTxs
  BY DEF cleanup_terminated
<1>6. Consistent'
  BY <1>1, <1>2, <1>3, <1>4 DEF MgrInv, Consistent
<1>7. OrphansHarmless'
  BY <1>1, <1>4, <1>5 DEF MgrInv, OrphansHarmless
<1> QED BY <1>1, <1>2, <1>4, <1>5, <1>6, <1>7 DEF MgrInv

\* Steps that keep the tables keep MgrInv.
LEMMA KeptKeepsInv == ASSUME MgrInv, TablesKept PROVE MgrInv'
BY DEF MgrInv, TablesKept, Consistent, OrphansHarmless

\* When the branches of the peers differ from the own ones, the inductive
\* invariant holds in every reachable state.
THEOREM ManagerInvariant ==
    ASSUME Local \cap Remote = {}
    PROVE  MgrSpec => []MgrInv
<1>1. MgrInit => MgrInv
  BY DEF MgrInit, MgrInv, Consistent, OrphansHarmless
<1>2. MgrInv /\ [MgrNext]_mvars => MgrInv'
  <2> SUFFICES ASSUME MgrInv, [MgrNext]_mvars PROVE MgrInv'
    OBVIOUS
  <2>1. CASE MgrNext
    BY <2>1, MgrStepKinds, AddedKeepsInv, CleanupKeepsInv, KeptKeepsInv
  <2>2. CASE UNCHANGED mvars
    BY <2>2 DEF mvars, MgrInv, Consistent, OrphansHarmless
  <2> QED BY <2>1, <2>2
<1> QED BY <1>1, <1>2, PTL DEF MgrSpec

\* The three maps of the manager always agree: no transaction is lost to its
\* identifier and no identifier leads astray.
THEOREM ManagerConsistent ==
    ASSUME Local \cap Remote = {}
    PROVE  MgrSpec => []Consistent
BY ManagerInvariant, PTL DEF MgrInv

\* A timer left behind by a removed transaction never meets a live handle.
THEOREM StaleTimersHarmless ==
    ASSUME Local \cap Remote = {}
    PROVE  MgrSpec => []OrphansHarmless
BY ManagerInvariant, PTL DEF MgrInv
-----------------------------------------------------------------------------
(* Responses.                                                              *)

\* The parts of a machine that every handler keeps.
IsMachine(m) == "state" \in DOMAIN m /\ "ev" \in DOMAIN m
Machines == \A h \in DOMAIN txs : IsMachine(txs[h].m)

\* Draining the actions of a machine empties them and moves nothing.
LEMMA PolledMachine ==
    ASSUME NEW m, IsMachine(m)
    PROVE  /\ IsMachine(Polled(m)) /\ Polled(m).state = m.state /\ Polled(m).ev = {}
           /\ \A t : IsMachine(Consumed(m, t))
BY DEF IsMachine, Polled, Consumed

LEMMA NewMachines ==
    ASSUME NEW reliable
    PROVE  /\ IsMachine(ICNew(reliable)) /\ IsMachine(NCNew(reliable))
           /\ IsMachine(ISNew) /\ IsMachine(NSNew)
BY DEF IsMachine, ICNew, NCNew, ISNew, NSNew

LEMMA ClientMachines ==
    ASSUME NEW m, IsMachine(m), NEW code, NEW reliable, NEW t
    PROVE  /\ IsMachine(ICHandleResponse(m, code, reliable))
           /\ IsMachine(NCHandleResponse(m, code, reliable))
           /\ IsMachine(ICHandleTimeout(m, t))
           /\ IsMachine(NCHandleTimeout(m, t))
           /\ IsMachine(ICHandleTransportError(m))
           /\ IsMachine(NCHandleTransportError(m))
<1> USE DEF IsMachine
<1>1. IsMachine(ICHandleResponse(m, code, reliable))
  BY DEF ICHandleResponse, ICFail
<1>2. IsMachine(NCHandleResponse(m, code, reliable))
  BY DEF NCHandleResponse
<1>3. IsMachine(ICHandleTimeout(m, t))
  BY DEF ICHandleTimeout, ICTimeout
<1>4. IsMachine(NCHandleTimeout(m, t))
  BY DEF NCHandleTimeout
<1>5. IsMachine(ICHandleTransportError(m)) /\ IsMachine(NCHandleTransportError(m))
  BY DEF ICHandleTransportError, NCHandleTransportError
<1> HIDE DEF IsMachine
<1> QED
  BY <1>1, <1>2, <1>3, <1>4, <1>5

LEMMA ServerMachines ==
    ASSUME NEW m, IsMachine(m), NEW code, NEW reliable, NEW t, NEW method
    PROVE  /\ IsMachine(ISHandleRequest(m, method, reliable))
           /\ IsMachine(NSHandleRequest(m))
           /\ IsMachine(ISSendResponse(m, code, reliable))
           /\ IsMachine(NSSendResponse(m, code, reliable))
           /\ IsMachine(ISHandleTimeout(m, t))
           /\ IsMachine(NSHandleTimeout(m, t))
           /\ IsMachine(ISHandleTransportError(m))
           /\ IsMachine(NSHandleTransportError(m))
<1> USE DEF IsMachine
<1>1. IsMachine(ISHandleRequest(m, method, reliable)) /\ IsMachine(NSHandleRequest(m))
  BY DEF ISHandleRequest, NSHandleRequest
<1>2. IsMachine(ISSendResponse(m, code, reliable))
  BY DEF ISSendResponse, Drained
<1>3. IsMachine(NSSendResponse(m, code, reliable))
  BY DEF NSSendResponse
<1>4. IsMachine(ISHandleTimeout(m, t))
  <2>1. IsMachine(FireTimerN(m))
    BY DEF FireTimerN
  <2> QED
    BY <2>1 DEF ISHandleTimeout
<1>5. IsMachine(NSHandleTimeout(m, t))
  BY DEF NSHandleTimeout
<1>6. IsMachine(ISHandleTransportError(m)) /\ IsMachine(NSHandleTransportError(m))
  BY DEF ISHandleTransportError, NSHandleTransportError
<1> HIDE DEF IsMachine
<1> QED
  BY <1>1, <1>2, <1>3, <1>4, <1>5, <1>6

\* One call into a machine, or none.
LEMMA CalledMachines ==
    ASSUME Machines
    PROVE  /\ \A h, m : Called(h, m) /\ IsMachine(m) => Machines'
           /\ txs' = Quiet => Machines'
BY PolledMachine DEF Machines, Called, Quiet

LEMMA MachinesKept ==
    ASSUME MgrInv, Machines, MgrNext
    PROVE  Machines'
<1>0. \A h \in DOMAIN txs : handle_to_type[h] \in TransactionType
  BY DEF MgrInv, Consistent
<1>1. \A h \in DOMAIN txs : IsMachine(txs[h].m) /\ IsMachine(Polled(txs[h].m))
  BY PolledMachine DEF Machines
<1>2. ASSUME NEW id, NEW type, NEW m, Registered(id, type, m), IsMachine(m)
      PROVE  Machines'
  BY <1>1, <1>2 DEF Registered, Put, Quiet, Machines
<1>3. ASSUME NEW b \in Local, NEW m \in Methods, create_client_transaction(b, m)
      PROVE  Machines'
  BY <1>2, <1>3, NewMachines DEF create_client_transaction
<1>4. ASSUME NEW b \in Remote, NEW m \in Methods, handle_request(b, m)
      PROVE  Machines'
  <2>1. CASE TransactionId(b, m) \in DOMAIN id_to_handle
    <3>1. PICK h : h = id_to_handle[TransactionId(b, m)]
      OBVIOUS
    <3>2. h \in DOMAIN txs /\ RouteRequest(h, m)
      BY <1>4, <2>1, <3>1 DEF handle_request, MgrInv, Consistent
    <3>3. /\ IsMachine(ISHandleRequest(Polled(txs[h].m), m, Reliable))
          /\ IsMachine(NSHandleRequest(Polled(txs[h].m)))
      BY <1>1, <3>2, ServerMachines
    <3> QED
      BY <3>2, <3>3, CalledMachines DEF RouteRequest
  <2>2. CASE TransactionId(b, m) \notin DOMAIN id_to_handle
    <3>1. CreateServer(TransactionId(b, m), m)
      BY <1>4, <2>2 DEF handle_request
    <3> QED
      BY <1>2, <3>1, NewMachines, CalledMachines DEF CreateServer
  <2> QED
    BY <2>1, <2>2
<1>5. ASSUME NEW b \in Local, NEW m \in Methods, NEW c \in Codes, handle_response(b, m, c)
      PROVE  Machines'
  <2>1. PICK h : h = id_to_handle[TransactionId(b, m)]
    OBVIOUS
  <2>2. h \in DOMAIN txs
    BY <1>5, <2>1 DEF handle_response, MgrInv, Consistent
  <2>3. /\ IsMachine(ICHandleResponse(Polled(txs[h].m), c, Reliable))
        /\ IsMachine(NCHandleResponse(Polled(txs[h].m), c, Reliable))
    BY <1>1, <2>2, ClientMachines
  <2> QED
    BY <1>5, <2>1, <2>3, CalledMachines DEF handle_response
<1>6. ASSUME NEW h \in DOMAIN txs, NEW t, handle_timeout(h, t)
      PROVE  Machines'
  <2>1. PICK m : m = Consumed(txs[h].m, t)
    OBVIOUS
  <2>2. IsMachine(m)
    BY <1>1, <2>1, PolledMachine
  <2>3. /\ IsMachine(ICHandleTimeout(m, t)) /\ IsMachine(NCHandleTimeout(m, t))
        /\ IsMachine(ISHandleTimeout(m, t)) /\ IsMachine(NSHandleTimeout(m, t))
    BY <2>2, ClientMachines, ServerMachines
  <2>4. \/ Called(h, ICHandleTimeout(m, t)) \/ Called(h, NCHandleTimeout(m, t))
        \/ Called(h, ISHandleTimeout(m, t)) \/ Called(h, NSHandleTimeout(m, t))
    BY <1>0, <1>6, <2>1 DEF handle_timeout, TransactionType, ClientType, ServerType
  <2> QED
    BY <2>3, <2>4, CalledMachines
<1>7. ASSUME NEW h \in DOMAIN txs, NEW c \in Codes, send_response(h, c)
      PROVE  Machines'
  <2>1. /\ IsMachine(ISSendResponse(Polled(txs[h].m), c, Reliable))
        /\ IsMachine(NSSendResponse(Polled(txs[h].m), c, Reliable))
    BY <1>1, ServerMachines
  <2> QED
    BY <1>7, <2>1, CalledMachines DEF send_response
<1>8. ASSUME NEW h \in DOMAIN txs, handle_transport_error(h)
      PROVE  Machines'
  <2>1. PICK m : m = Polled(txs[h].m)
    OBVIOUS
  <2>2. /\ IsMachine(ICHandleTransportError(m)) /\ IsMachine(NCHandleTransportError(m))
        /\ IsMachine(ISHandleTransportError(m)) /\ IsMachine(NSHandleTransportError(m))
    BY <1>1, <2>1, ClientMachines, ServerMachines
  <2>3. \/ Called(h, ICHandleTransportError(m)) \/ Called(h, NCHandleTransportError(m))
        \/ Called(h, ISHandleTransportError(m)) \/ Called(h, NSHandleTransportError(m))
    BY <1>0, <1>8, <2>1 DEF handle_transport_error, TransactionType, ClientType, ServerType
  <2> QED
    BY <2>2, <2>3, CalledMachines
<1>9. ASSUME NEW h, NEW t, handle_orphan(h, t)
      PROVE  Machines'
  BY <1>9, CalledMachines DEF handle_orphan
<1>10. CASE cleanup_terminated
  BY <1>1, <1>10 DEF cleanup_terminated, Restrict, Quiet, Machines
<1> QED
  BY <1>3, <1>4, <1>5, <1>6, <1>7, <1>8, <1>9, <1>10 DEF MgrNext, Timeouts

\* The step of a response, on top of the two invariants.
LEMMA ResponseStaysPut ==
    ASSUME MgrInv, Machines, NEW b \in Local, NEW m \in Methods, NEW c \in Codes,
           handle_response(b, m, c), NEW h \in DOMAIN txs,
           txs[h].m.state # txs'[h].m.state \/ txs'[h].m.ev # {}
    PROVE  txs[h].id = <<b, m>>
<1>1. PICK g : g = id_to_handle[<<b, m>>]
  OBVIOUS
<1>2. g \in DOMAIN txs /\ txs[g].id = <<b, m>>
  BY <1>1 DEF handle_response, TransactionId, MgrInv, Consistent
<1>3. Polled(txs[h].m).state = txs[h].m.state /\ Polled(txs[h].m).ev = {}
  BY PolledMachine DEF Machines
<1>4. txs' = Quiet \/ \E n : Called(g, n)
  BY <1>1 DEF handle_response, TransactionId
<1>5. txs' # Quiet
  BY <1>3 DEF Quiet
<1>6. h = g
  BY <1>3, <1>4, <1>5 DEF Called
<1> QED
  BY <1>2, <1>6

(* A response moves, and is reported by, only the transaction of its own   *)
(* branch and method, for any number of transactions: the answer to a      *)
(* CANCEL leaves the INVITE transaction on the same branch alone.          *)
THEOREM ResponsesStayOnTheirBranch ==
    ASSUME Local \cap Remote = {}
    PROVE  MgrSpec => ResponsesDoNotCross
<1>1. MgrInit => Machines
  BY DEF MgrInit, Machines
<1>2. MgrInv /\ Machines /\ [MgrNext]_mvars => Machines'
  <2>1. Machines /\ UNCHANGED mvars => Machines'
    BY DEF Machines, mvars
  <2> QED
    BY <2>1, MachinesKept
<1>3. MgrInv /\ Machines =>
        [\A b \in Local, m \in Methods, c \in Codes : handle_response(b, m, c) =>
           \A h \in DOMAIN txs :
             txs[h].m.state # txs'[h].m.state \/ txs'[h].m.ev # {} => txs[h].id = <<b, m>>]_mvars
  BY ResponseStaysPut
<1> QED
  BY <1>1, <1>2, <1>3, ManagerInvariant, PTL DEF MgrSpec, ResponsesDoNotCross
=============================================================================
