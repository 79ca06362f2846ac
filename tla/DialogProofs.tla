---------------------------- MODULE DialogProofs ----------------------------
(***************************************************************************)
(* Proofs about the dialogs of a caller and a callee and the tables that   *)
(* lead to them (Dialog): the routes and the dialogs of a side agree, and  *)
(* a caller's dialog that an answer to its INVITE established is one that  *)
(* the callee has established.  The heart of the argument is that dialog   *)
(* identifiers, but for the empty one, are unique on each side although    *)
(* the caller's side takes its remote tag from whichever answer arrives.   *)
(* And, about the session timer of the calls on these dialogs              *)
(* (SessionRefresh): both sides name the same refresher, and its refreshes *)
(* are in time.                                                            *)
(***************************************************************************)
EXTENDS Dialog, SessionRefresh, TLAPS

Responses == {"ringing", "ok", "bare", "reject"}
Requests == {"invite", "bye", "reinvite", "ack", "other", "cancel"}
DialogStates == {"early", "confirmed", "terminating", "terminated"}
Ids == [call : Nat, local : Int, remote : Int]
DialogInfos == [id : Ids, call : Nat, role : {"uac", "uas"}, state : DialogStates,
                localSeq : Nat, remoteSeq : Nat, ack : BOOLEAN,
                by : {"none", "ok", "bare", "other"}]
Messages == [kind : Responses \cup Requests, dst : Managers, call : Nat,
             ftag : Int, ttag : Int, cseq : Nat, invite : BOOLEAN]

\* The parts of the manager of a side.
NextOf(s) == mgr[s].next
DialogsOf(s) == mgr[s].dialogs
RoutesOf(s) == mgr[s].ids
PendingOf(s) == mgr[s].pending

Shape ==
    /\ DOMAIN mgr = Managers /\ DOMAIN told = Managers
    /\ \A s \in Managers : /\ DOMAIN mgr[s] = {"next", "dialogs", "ids", "pending"}
                           /\ NextOf(s) \in Nat \ {0}

\* A dialog that answers is known by its handle.  One that calls has the call
\* of its handle and, unless it has no identifier yet, the caller's tag; when
\* an answer to its INVITE established it, the tag of a dialog the callee has
\* established.
DialogOK(s, h) ==
    LET d == DialogsOf(s)[h]
    IN  /\ h \in 1..(NextOf(s) - 1)
        /\ d \in DialogInfos
        /\ d.state = "early" => d.by = "none"
        /\ d.role = "uas" => d.id.local = h /\ d.by = "none"
        /\ d.role = "uac" =>
              /\ s = "caller" /\ d.call = h
              /\ d.id = NoId \/ (d.id.call = h /\ d.id.local = CallerTag)
        /\ d.by = "ok" => d.id.call = d.call /\ <<d.id.remote, "established">> \in told["callee"]

\* A dialog that requests must find.
Reachable(d) == d.role = "uas" \/ (d.state \in {"confirmed", "terminating"} /\ d.id # NoId)

RoutesOK(s) ==
    /\ \A id \in DOMAIN RoutesOf(s) :
          /\ RoutesOf(s)[id] \in DOMAIN DialogsOf(s)
          /\ DialogsOf(s)[RoutesOf(s)[id]].id = id
          /\ ~(/\ DialogsOf(s)[RoutesOf(s)[id]].role = "uac"
               /\ DialogsOf(s)[RoutesOf(s)[id]].state = "early")
    /\ \A h \in DOMAIN DialogsOf(s) : Reachable(DialogsOf(s)[h]) =>
          /\ DialogsOf(s)[h].id \in DOMAIN RoutesOf(s)
          /\ RoutesOf(s)[DialogsOf(s)[h].id] = h

IdsUnique(s) ==
    \A g, h \in DOMAIN DialogsOf(s) :
       g # h /\ DialogsOf(s)[g].id = DialogsOf(s)[h].id => DialogsOf(s)[h].id = NoId

PendingOK(s) ==
    \A c \in DOMAIN PendingOf(s) :
       /\ s = "caller" /\ PendingOf(s)[c] = c /\ c \in 1..(NextOf(s) - 1)
       /\ c \in DOMAIN DialogsOf(s) => DialogsOf(s)[c].role = "uac"

\* A 2xx to an INVITE that is on its way to the caller was told at the callee.
MessageOK(m) ==
    /\ m \in Messages
    /\ m.kind = "ok" /\ m.invite /\ m.dst = "caller" =>
          <<m.ttag, "established">> \in told["callee"]

SideOK(s) ==
    /\ \A h \in DOMAIN DialogsOf(s) : DialogOK(s, h)
    /\ RoutesOK(s)
    /\ IdsUnique(s)
    /\ PendingOK(s)

DlgInv ==
    /\ Shape
    /\ \A s \in Managers : SideOK(s)
    /\ \A m \in wires : MessageOK(m)

-----------------------------------------------------------------------------
(* What every step keeps.                                                  *)

LEMMA OtherFacts ==
    ASSUME NEW s \in Managers
    PROVE  /\ Other(s) \in Managers /\ Other(s) # s /\ Other(Other(s)) = s
           /\ \A t \in Managers : t = s \/ t = Other(s)
BY DEF Managers, Other

LEMMA NoIdFacts ==
    /\ NoId \in Ids /\ NoId.call = 0 /\ NoId.local = 0 /\ NoId.remote = 0
    /\ \A c, l, r : /\ DialogId(c, l, r).call = c /\ DialogId(c, l, r).local = l
                    /\ DialogId(c, l, r).remote = r
BY DEF NoId, DialogId, Ids, NoTag

LEMMA SetFacts ==
    ASSUME NEW f, NEW k, NEW v
    PROVE  /\ DOMAIN Set(f, k, v) = DOMAIN f \cup {k}
           /\ Set(f, k, v)[k] = v
           /\ \A x \in DOMAIN f : x # k => Set(f, k, v)[x] = f[x]
BY DEF Set

LEMMA WithoutFacts ==
    ASSUME NEW f, NEW K
    PROVE  /\ DOMAIN Without(f, K) = DOMAIN f \ K
           /\ \A x \in DOMAIN f \ K : Without(f, K)[x] = f[x]
BY DEF Without

\* Handles are never given out again, and what was told stays told.
Grows ==
    /\ \A s \in Managers : NextOf(s) <= NextOf(s)'
    /\ told["callee"] \subseteq told'["callee"]

LEMMA MessageStays ==
    ASSUME Grows, NEW m, MessageOK(m)
    PROVE  MessageOK(m)'
BY DEF MessageOK, Grows

\* All a step owes its messages: those it adds fit.
LEMMA WiresStay ==
    ASSUME DlgInv, Shape', Grows, NEW a, MessageOK(a)', wires' \subseteq wires \cup {a}
    PROVE  \A m \in wires' : MessageOK(m)'
BY MessageStays DEF DlgInv

LEMMA WiresShrink ==
    ASSUME DlgInv, Shape', Grows, wires' \subseteq wires
    PROVE  \A m \in wires' : MessageOK(m)'
BY MessageStays DEF DlgInv

\* A dialog of the caller or the callee that does not change.
LEMMA DialogStays ==
    ASSUME DlgInv, Shape', Grows, NEW s \in Managers, NEW h \in DOMAIN DialogsOf(s),
           DialogsOf(s)'[h] = DialogsOf(s)[h]
    PROVE  DialogOK(s, h)'
<1>1. NextOf(s) \in Int /\ NextOf(s)' \in Int /\ NextOf(s) <= NextOf(s)'
  BY DEF DlgInv, Shape, Grows
<1>2. DialogOK(s, h)
  BY DEF DlgInv, SideOK
<1>4. h \in 1..(NextOf(s)' - 1)
  BY <1>1, <1>2 DEF DialogOK
<1>5. told["callee"] \subseteq told'["callee"]
  BY DEF Grows
<1> QED
  BY <1>2, <1>4, <1>5 DEF DialogOK

\* A side that a step leaves alone.
LEMMA SideStays ==
    ASSUME DlgInv, Shape', Grows, NEW s \in Managers, mgr'[s] = mgr[s]
    PROVE  SideOK(s)'
<1>1. /\ DialogsOf(s)' = DialogsOf(s) /\ RoutesOf(s)' = RoutesOf(s)
      /\ PendingOf(s)' = PendingOf(s) /\ NextOf(s)' = NextOf(s)
  BY DEF DialogsOf, RoutesOf, PendingOf, NextOf
<1>2. SideOK(s)
  BY DEF DlgInv
<1>3. \A h \in DOMAIN DialogsOf(s)' : DialogOK(s, h)'
  BY <1>1, DialogStays
<1>4. RoutesOK(s)' /\ IdsUnique(s)' /\ PendingOK(s)'
  BY <1>1, <1>2 DEF SideOK, RoutesOK, IdsUnique, PendingOK
<1> QED
  BY <1>3, <1>4 DEF SideOK

-----------------------------------------------------------------------------
(* A step of one dialog.                                                   *)

\* Dialog h of side s becomes new, and is routed when it becomes Confirmed.
Stepped(s, h, new) ==
    /\ Shape'
    /\ mgr'[Other(s)] = mgr[Other(s)]
    /\ NextOf(s)' = NextOf(s)
    /\ DOMAIN DialogsOf(s)' = DOMAIN DialogsOf(s)
    /\ \A g \in DOMAIN DialogsOf(s) :
          DialogsOf(s)'[g] = IF g = h THEN new ELSE DialogsOf(s)[g]
    /\ DOMAIN PendingOf(s)' \subseteq DOMAIN PendingOf(s)
    /\ \A c \in DOMAIN PendingOf(s)' : PendingOf(s)'[c] = PendingOf(s)[c]
    /\ told["callee"] \subseteq told'["callee"]
    /\ IF DialogsOf(s)[h].state = "early" /\ new.state = "confirmed"
       THEN /\ DOMAIN RoutesOf(s)' = DOMAIN RoutesOf(s) \cup {new.id}
            /\ RoutesOf(s)'[new.id] = h
            /\ \A id \in DOMAIN RoutesOf(s) : id # new.id => RoutesOf(s)'[id] = RoutesOf(s)[id]
       ELSE RoutesOf(s)' = RoutesOf(s)

\* The dialog goes on under the same identifier; a 2xx that gives it none
\* may confirm it.
KeepsId(d, new) ==
    /\ new.id = d.id
    /\ new.state = "early" => d.state = "early"
    /\ new.state = "confirmed" => d.state \in {"early", "confirmed"}
    /\ new.state = "terminating" => d.state \in {"confirmed", "terminating"}
    /\ new.by = d.by \/ (d.role = "uac" /\ new.state # "early" /\ new.by # "ok")

\* A dialog of the caller takes the tags of an answer.
TakesId(s, h, new) ==
    LET d == DialogsOf(s)[h]
    IN  /\ s = "caller" /\ d.role = "uac" /\ d.state = "early"
        /\ new.state \in {"early", "confirmed"}
        /\ new.id \in Ids /\ new.id.call = h /\ new.id.local = CallerTag
        /\ new.state = "early" => new.by = d.by
        /\ new.by = "ok" => <<new.id.remote, "established">> \in told'["callee"]

LEMMA SteppedInv ==
    ASSUME DlgInv, NEW s \in Managers, NEW h \in DOMAIN DialogsOf(s), NEW new \in DialogInfos,
           Stepped(s, h, new),
           new.role = DialogsOf(s)[h].role, new.call = DialogsOf(s)[h].call,
           KeepsId(DialogsOf(s)[h], new) \/ TakesId(s, h, new)
    PROVE  Shape' /\ Grows /\ (\A t \in Managers : SideOK(t)')
<1> DEFINE d == DialogsOf(s)[h]
           o == Other(s)
<1>0. o \in Managers /\ o # s /\ \A t \in Managers : t = s \/ t = o
  BY OtherFacts
<1>a. /\ NextOf(o)' = NextOf(o) /\ NextOf(s)' = NextOf(s)
      /\ DOMAIN DialogsOf(s)' = DOMAIN DialogsOf(s)
      /\ \A g \in DOMAIN DialogsOf(s) : g # h => DialogsOf(s)'[g] = DialogsOf(s)[g]
      /\ DialogsOf(s)'[h] = new
  BY DEF Stepped, NextOf
<1>b. /\ \A t \in Managers : SideOK(t) /\ NextOf(t) \in Nat /\ NextOf(t)' = NextOf(t)
      /\ \A g \in DOMAIN DialogsOf(s) : DialogOK(s, g)
  BY <1>0, <1>a DEF DlgInv, SideOK, Shape
<1>1. Grows
  BY <1>b DEF Grows, Stepped
<1>2. Shape' /\ SideOK(o)'
  BY <1>0, <1>1, SideStays DEF Stepped
<1>3. DialogOK(s, h)'
  <2>0. told["callee"] \subseteq told'["callee"] /\ DialogOK(s, h)
    BY <1>1, <1>b DEF Grows
  <2>1. CASE KeepsId(d, new)
    BY <1>a, <2>0, <2>1 DEF DialogOK, KeepsId
  <2>2. CASE TakesId(s, h, new)
    BY <1>a, <2>0, <2>2 DEF DialogOK, TakesId
  <2> QED
    BY <2>1, <2>2
<1>4. \A g \in DOMAIN DialogsOf(s)' : DialogOK(s, g)'
  BY <1>a, <1>1, <1>2, <1>3, DialogStays
<1>5. IdsUnique(s)'
  <2>1. ASSUME NEW g \in DOMAIN DialogsOf(s), g # h, TakesId(s, h, new)
        PROVE  DialogsOf(s)[g].id # new.id
    <3>a. h # 0 /\ g # 0
      <4>1. h \in 1..(NextOf(s) - 1) /\ g \in 1..(NextOf(s) - 1) /\ NextOf(s) \in Nat
        BY <1>b DEF DialogOK
      <4> QED
        BY <4>1
    <3>1. /\ DialogOK(s, g) /\ new.id.call = h /\ new.id.local = CallerTag
      BY <1>b, <2>1 DEF TakesId
    <3>2. CASE DialogsOf(s)[g].role = "uac"
      BY <3>1, <3>2, <3>a, <2>1, NoIdFacts DEF DialogOK
    <3>3. CASE DialogsOf(s)[g].role = "uas"
      BY <3>1, <3>3 DEF DialogOK, CallerTag
    <3> QED
      BY <3>1, <3>2, <3>3 DEF DialogOK, DialogInfos
  <2>2. CASE KeepsId(d, new)
    BY <1>a, <1>b, <2>2 DEF KeepsId, IdsUnique, SideOK
  <2>3. CASE TakesId(s, h, new)
    BY <1>a, <1>b, <2>1, <2>3 DEF IdsUnique, SideOK
  <2> QED
    BY <2>2, <2>3
<1>6. PendingOK(s)'
  BY <1>a, <1>b DEF PendingOK, SideOK, Stepped
<1>7. RoutesOK(s)'
  <2>0. RoutesOK(s) /\ IdsUnique(s)
    BY <1>b DEF SideOK
  <2>1. CASE d.state = "early" /\ new.state = "confirmed"
    <3>1. /\ DOMAIN RoutesOf(s)' = DOMAIN RoutesOf(s) \cup {new.id}
          /\ RoutesOf(s)'[new.id] = h
          /\ \A id \in DOMAIN RoutesOf(s) : id # new.id => RoutesOf(s)'[id] = RoutesOf(s)[id]
      BY <2>1 DEF Stepped
    <3>2. \A g \in DOMAIN DialogsOf(s) : g # h => DialogsOf(s)[g].id # new.id \/ ~Reachable(DialogsOf(s)[g])
      <4>1. ASSUME NEW g \in DOMAIN DialogsOf(s), DialogsOf(s)[g].role = "uas"
            PROVE  DialogsOf(s)[g].id # NoId
        <5>1. DialogsOf(s)[g].id.local = g /\ g \in 1..(NextOf(s) - 1) /\ NextOf(s) \in Nat
          BY <1>b, <4>1 DEF DialogOK
        <5> QED
          BY <5>1, NoIdFacts
      <4>2. CASE new.id = NoId
        BY <4>1, <4>2 DEF Reachable
      <4>3. CASE new.id # NoId
        BY <1>5, <1>a, <4>3 DEF IdsUnique
      <4> QED
        BY <4>2, <4>3
    <3>3. \A id \in DOMAIN RoutesOf(s) : id # new.id => RoutesOf(s)[id] # h
      <4>1. CASE KeepsId(d, new)
        BY <2>0, <4>1 DEF RoutesOK, KeepsId
      <4>2. CASE TakesId(s, h, new)
        BY <2>0, <4>2 DEF RoutesOK, TakesId
      <4> QED
        BY <4>1, <4>2
    <3>4. \A id \in DOMAIN RoutesOf(s)' :
             /\ RoutesOf(s)'[id] \in DOMAIN DialogsOf(s)'
             /\ DialogsOf(s)'[RoutesOf(s)'[id]].id = id
             /\ ~(/\ DialogsOf(s)'[RoutesOf(s)'[id]].role = "uac"
                  /\ DialogsOf(s)'[RoutesOf(s)'[id]].state = "early")
      BY <1>a, <2>0, <2>1, <3>1, <3>3 DEF RoutesOK
    <3>5. \A g \in DOMAIN DialogsOf(s)' : Reachable(DialogsOf(s)'[g]) =>
             /\ DialogsOf(s)'[g].id \in DOMAIN RoutesOf(s)'
             /\ RoutesOf(s)'[DialogsOf(s)'[g].id] = g
      BY <1>a, <2>0, <3>1, <3>2 DEF RoutesOK
    <3> QED
      BY <3>4, <3>5 DEF RoutesOK
  <2>2. CASE ~(d.state = "early" /\ new.state = "confirmed")
    <3>1. RoutesOf(s)' = RoutesOf(s)
      BY <2>2 DEF Stepped
    <3>2. CASE KeepsId(d, new)
      <4>1. Reachable(new) => Reachable(d)
        BY <2>2, <3>2 DEF Reachable, KeepsId, DialogInfos
      <4>2. ~(d.role = "uac" /\ d.state = "early") => ~(new.role = "uac" /\ new.state = "early")
        BY <3>2 DEF KeepsId
      <4>3. new.id = d.id
        BY <3>2 DEF KeepsId
      <4> QED
        BY <1>a, <2>0, <3>1, <4>1, <4>2, <4>3 DEF RoutesOK
    <3>3. CASE TakesId(s, h, new)
      <4>1. d.role = "uac" /\ d.state = "early" /\ new.state = "early"
        BY <2>2, <3>3 DEF TakesId
      <4>2. ~Reachable(new)
        BY <4>1 DEF Reachable
      <4>3. \A id \in DOMAIN RoutesOf(s) : RoutesOf(s)[id] # h
        BY <2>0, <4>1 DEF RoutesOK
      <4> QED
        BY <1>a, <2>0, <3>1, <4>2, <4>3 DEF RoutesOK
    <3> QED
      BY <3>2, <3>3
  <2> QED
    BY <2>1, <2>2
<1> QED
  BY <1>0, <1>1, <1>2, <1>4, <1>5, <1>6, <1>7 DEF SideOK

LEMMA StepDialogStepped ==
    ASSUME DlgInv, NEW s \in Managers, NEW h \in DOMAIN DialogsOf(s), NEW new, NEW m,
           StepDialog(s, h, new, m)
    PROVE  Stepped(s, h, new)
<1> DEFINE conf == DialogsOf(s)[h].state = "early" /\ new.state = "confirmed"
           ds == [DialogsOf(s) EXCEPT ![h] = new]
           is == IF conf THEN Set(RoutesOf(s), new.id, h) ELSE RoutesOf(s)
           ps == IF conf /\ new.role = "uac" THEN Without(PendingOf(s), {m.call}) ELSE PendingOf(s)
<1>0. Other(s) \in Managers /\ Other(s) # s /\ \A t \in Managers : t = s \/ t = Other(s)
  BY OtherFacts
<1>1. s \in DOMAIN mgr /\ DOMAIN mgr[s] = {"next", "dialogs", "ids", "pending"}
  BY DEF DlgInv, Shape
<1>3. /\ mgr'[Other(s)] = mgr[Other(s)] /\ DOMAIN mgr' = Managers
      /\ DOMAIN told' = Managers
  BY <1>0 DEF StepDialog, DlgInv, Shape
<1>4. DOMAIN mgr'[s] = DOMAIN mgr[s] /\ NextOf(s)' = NextOf(s) /\ DialogsOf(s)' = ds
  BY <1>1 DEF StepDialog, NextOf, DialogsOf
<1>5. RoutesOf(s)' = is /\ PendingOf(s)' = ps
  <2>1. CASE conf
    BY <1>1, <2>1 DEF StepDialog, DialogsOf, RoutesOf, PendingOf
  <2>2. CASE ~conf
    BY <1>1, <2>2 DEF StepDialog, DialogsOf, RoutesOf, PendingOf
  <2> QED
    BY <2>1, <2>2
<1> HIDE DEF is, ps, ds
<1>6. told["callee"] \subseteq told'["callee"]
  BY DEF StepDialog, DlgInv, Shape, Managers
<1>7. Shape'
  <2>1. NextOf(s)' \in Nat \ {0} /\ NextOf(Other(s))' \in Nat \ {0}
    BY <1>0, <1>3, <1>4 DEF DlgInv, Shape, NextOf
  <2> QED
    BY <1>0, <1>1, <1>3, <1>4, <2>1 DEF DlgInv, Shape
<1>8. /\ DOMAIN PendingOf(s)' \subseteq DOMAIN PendingOf(s)
      /\ \A c \in DOMAIN PendingOf(s)' : PendingOf(s)'[c] = PendingOf(s)[c]
  <2>1. CASE conf /\ new.role = "uac"
    <3>1. PendingOf(s)' = Without(PendingOf(s), {m.call})
      BY <1>5, <2>1 DEF ps
    <3> QED
      BY <3>1 DEF Without
  <2>2. CASE ~(conf /\ new.role = "uac")
    BY <1>5, <2>2 DEF ps
  <2> QED
    BY <2>1, <2>2
<1>9. IF conf
      THEN /\ DOMAIN RoutesOf(s)' = DOMAIN RoutesOf(s) \cup {new.id}
           /\ RoutesOf(s)'[new.id] = h
           /\ \A id \in DOMAIN RoutesOf(s) : id # new.id => RoutesOf(s)'[id] = RoutesOf(s)[id]
      ELSE RoutesOf(s)' = RoutesOf(s)
  <2>1. CASE conf
    <3>1. RoutesOf(s)' = Set(RoutesOf(s), new.id, h)
      BY <1>5, <2>1 DEF is
    <3> QED
      BY <2>1, <3>1 DEF Set
  <2>2. CASE ~conf
    BY <1>5, <2>2 DEF is
  <2> QED
    BY <2>1, <2>2
<1>10. /\ DOMAIN DialogsOf(s)' = DOMAIN DialogsOf(s)
       /\ \A g \in DOMAIN DialogsOf(s) : DialogsOf(s)'[g] = IF g = h THEN new ELSE DialogsOf(s)[g]
  BY <1>4 DEF ds
<1> QED
  BY <1>3, <1>4, <1>6, <1>7, <1>8, <1>9, <1>10 DEF Stepped

\* Steps that change the sequence number or the ACK flag of one dialog.
LEMMA TouchStepped ==
    ASSUME DlgInv, NEW s \in Managers, NEW h \in DOMAIN DialogsOf(s), NEW new,
           mgr' = [mgr EXCEPT ![s].dialogs[h] = new], told' = told,
           DialogsOf(s)[h].state = new.state
    PROVE  Stepped(s, h, new)
<1>0. Other(s) \in Managers /\ Other(s) # s /\ \A t \in Managers : t = s \/ t = Other(s)
  BY OtherFacts
<1>1. s \in DOMAIN mgr /\ DOMAIN mgr[s] = {"next", "dialogs", "ids", "pending"}
  BY DEF DlgInv, Shape
<1>2. mgr'[Other(s)] = mgr[Other(s)] /\ DOMAIN mgr' = Managers
  BY <1>0 DEF DlgInv, Shape
<1>3. /\ DOMAIN mgr'[s] = DOMAIN mgr[s] /\ NextOf(s)' = NextOf(s)
      /\ DialogsOf(s)' = [DialogsOf(s) EXCEPT ![h] = new]
      /\ RoutesOf(s)' = RoutesOf(s) /\ PendingOf(s)' = PendingOf(s)
  BY <1>1 DEF NextOf, DialogsOf, RoutesOf, PendingOf
<1>4. Shape'
  <2>1. NextOf(s)' \in Nat \ {0} /\ NextOf(Other(s))' \in Nat \ {0}
    BY <1>0, <1>2, <1>3 DEF DlgInv, Shape, NextOf
  <2> QED
    BY <1>0, <1>1, <1>2, <1>3, <2>1 DEF DlgInv, Shape
<1> QED
  BY <1>2, <1>3, <1>4 DEF Stepped

-----------------------------------------------------------------------------
(* One lemma per operation.                                                *)

\* The facts about a dialog of the table that the operations use.
LEMMA DialogFacts ==
    ASSUME DlgInv, NEW s \in Managers, NEW h \in DOMAIN DialogsOf(s)
    PROVE  LET d == DialogsOf(s)[h]
           IN  /\ d \in DialogInfos /\ d.id \in Ids /\ d.call \in Nat
               /\ d.state \in DialogStates /\ d.role \in {"uac", "uas"}
               /\ d.localSeq \in Nat /\ d.remoteSeq \in Nat
               /\ d.id.local \in Int /\ d.id.remote \in Int
               /\ DialogOK(s, h)
BY DEF DlgInv, SideOK, DialogOK, DialogInfos, Ids

LEMMA MsgFacts ==
    ASSUME NEW kind \in Responses \cup Requests, NEW dst \in Managers, NEW cid \in Nat,
           NEW ftag \in Int, NEW ttag \in Int, NEW cseq \in Nat
    PROVE  LET m == Msg(kind, dst, cid, ftag, ttag, cseq)
           IN  /\ m \in Messages /\ m.kind = kind /\ m.dst = dst /\ m.call = cid
               /\ m.ftag = ftag /\ m.ttag = ttag /\ m.cseq = cseq /\ m.invite
BY DEF Msg, Messages

LEMMA RequestFits ==
    ASSUME NEW s \in Managers, NEW kind \in Requests, NEW cid \in Nat,
           NEW ftag \in Int, NEW ttag \in Int, NEW cseq \in Nat
    PROVE  MessageOK(Msg(kind, Other(s), cid, ftag, ttag, cseq))'
<1> DEFINE m == Msg(kind, Other(s), cid, ftag, ttag, cseq)
<1>1. m \in Messages /\ m.kind = kind
  BY OtherFacts, MsgFacts
<1>2. kind # "ok"
  BY DEF Requests
<1> QED
  BY <1>1, <1>2 DEF MessageOK

\* ack_sent, send_bye, a re-INVITE and the other requests of a dialog: the
\* dialog keeps its identifier and a request may leave.
LEMMA DialogSends ==
    ASSUME DlgInv, NEW s \in Managers, NEW h \in DOMAIN DialogsOf(s), NEW new \in DialogInfos,
           NEW kind \in Requests, NEW cseq \in Nat, Stepped(s, h, new),
           new.role = DialogsOf(s)[h].role, new.call = DialogsOf(s)[h].call,
           KeepsId(DialogsOf(s)[h], new),
           wires' \subseteq wires \cup {Msg(kind, Other(s), DialogsOf(s)[h].call,
                        DialogsOf(s)[h].id.local, DialogsOf(s)[h].id.remote, cseq)}
    PROVE  DlgInv'
<1>1. Shape' /\ Grows /\ (\A t \in Managers : SideOK(t)')
  BY SteppedInv
<1>2. PICK cid \in Nat, ftag \in Int, ttag \in Int :
         /\ cid = DialogsOf(s)[h].call /\ ftag = DialogsOf(s)[h].id.local
         /\ ttag = DialogsOf(s)[h].id.remote
  BY DialogFacts
<1>3. MessageOK(Msg(kind, Other(s), cid, ftag, ttag, cseq))'
  BY <1>2, RequestFits
<1>4. \A m \in wires' : MessageOK(m)'
  BY <1>1, <1>2, <1>3, WiresStay
<1> QED
  BY <1>1, <1>4 DEF DlgInv

LEMMA AckSentInv ==
    ASSUME DlgInv, NEW h \in DOMAIN mgr["caller"].dialogs, AckSent(h)
    PROVE  DlgInv'
<1> DEFINE d == DialogsOf("caller")[h]
           new == [d EXCEPT !.ack = TRUE]
<1>0. "caller" \in Managers /\ h \in DOMAIN DialogsOf("caller") /\ Other("caller") = "callee"
  BY DEF Managers, DialogsOf, Other
<1>1. /\ new \in DialogInfos /\ new.id = d.id /\ new.role = d.role /\ new.call = d.call
      /\ new.state = d.state /\ new.by = d.by
  BY <1>0, DialogFacts DEF DialogInfos
<1>2. /\ mgr' = [mgr EXCEPT !["caller"].dialogs[h] = new] /\ told' = told
      /\ wires' \subseteq wires \cup {Msg("ack", "callee", d.call, d.id.local, d.id.remote, 1)}
  BY <1>0 DEF AckSent, Built, DialogsOf, DlgInv, Shape
<1> HIDE DEF new
<1>3. Stepped("caller", h, new)
  BY <1>0, <1>1, <1>2, TouchStepped
<1>4. KeepsId(d, new) /\ "ack" \in Requests
  BY <1>1 DEF KeepsId, Requests
<1> QED
  BY <1>0, <1>1, <1>2, <1>3, <1>4, DialogSends

LEMMA SendByeInv ==
    ASSUME DlgInv, NEW s \in Managers, NEW h \in DOMAIN mgr[s].dialogs, SendBye(s, h)
    PROVE  DlgInv'
<1> DEFINE d == DialogsOf(s)[h]
           new == [d EXCEPT !.state = "terminating", !.localSeq = @ + 1]
<1>0. h \in DOMAIN DialogsOf(s) /\ d.localSeq + 1 \in Nat /\ d \in DialogInfos
  BY DialogFacts DEF DialogsOf
<1>1. /\ new \in DialogInfos /\ new.id = d.id /\ new.role = d.role /\ new.call = d.call
      /\ new.state = "terminating" /\ new.localSeq = d.localSeq + 1 /\ new.by = d.by
  BY <1>0 DEF DialogInfos, DialogStates
<1>2. /\ StepDialog(s, h, new, NoId) /\ d.state = "confirmed"
      /\ wires' \subseteq wires \cup
            {Msg("bye", Other(s), d.call, d.id.local, d.id.remote, new.localSeq)}
  BY DEF SendBye, Built, DialogsOf
<1> HIDE DEF new
<1>3. Stepped(s, h, new)
  BY <1>0, <1>2, StepDialogStepped
<1>4. KeepsId(d, new) /\ "bye" \in Requests
  BY <1>1, <1>2 DEF KeepsId, Requests
<1> QED
  BY <1>0, <1>1, <1>2, <1>3, <1>4, DialogSends

\* The two operations that take the next sequence number for a request.
LEMMA NextSeqInv ==
    ASSUME DlgInv, NEW s \in Managers, NEW h \in DOMAIN mgr[s].dialogs,
           SendReInvite(s, h) \/ BuildRequest(s, h)
    PROVE  DlgInv'
<1> DEFINE d == DialogsOf(s)[h]
           new == [d EXCEPT !.localSeq = @ + 1]
<1>0. h \in DOMAIN DialogsOf(s) /\ d.localSeq + 1 \in Nat /\ d \in DialogInfos
  BY DialogFacts DEF DialogsOf
<1>1. /\ new \in DialogInfos /\ new.id = d.id /\ new.role = d.role /\ new.call = d.call
      /\ new.state = d.state /\ new.by = d.by
  BY <1>0 DEF DialogInfos
<1>2. PICK kind \in Requests :
         /\ mgr' = [mgr EXCEPT ![s].dialogs[h] = new] /\ told' = told
         /\ wires' = wires \cup
               {Msg(kind, Other(s), d.call, d.id.local, d.id.remote, d.localSeq + 1)}
  <2>1. CASE SendReInvite(s, h)
    BY <1>0, <2>1, "reinvite" \in Requests DEF SendReInvite, DialogsOf, DlgInv, Shape, Requests
  <2>2. CASE BuildRequest(s, h)
    BY <1>0, <2>2, "other" \in Requests DEF BuildRequest, DialogsOf, DlgInv, Shape, Requests
  <2> QED
    BY <2>1, <2>2
<1> HIDE DEF new
<1>3. Stepped(s, h, new)
  BY <1>0, <1>1, <1>2, TouchStepped
<1>4. KeepsId(d, new)
  BY <1>1 DEF KeepsId
<1> QED
  BY <1>0, <1>1, <1>2, <1>3, <1>4, DialogSends

\* A message no dialog sends or takes: the tables stay, and what is new on
\* the wires fits.
LEMMA OnlyWires ==
    ASSUME DlgInv, NEW a, MessageOK(a)', wires' \subseteq wires \cup {a}, mgr' = mgr, told' = told
    PROVE  DlgInv'
<1>1. Shape' /\ Grows
  BY DEF DlgInv, Shape, Grows, NextOf
<1>2. \A s \in Managers : SideOK(s)'
  BY <1>1, SideStays
<1>3. \A m \in wires' : MessageOK(m)'
  BY <1>1, WiresStay
<1> QED
  BY <1>1, <1>2, <1>3 DEF DlgInv

LEMMA SendCancelInv ==
    ASSUME DlgInv, NEW h \in DOMAIN mgr["caller"].dialogs, SendCancel(h)
    PROVE  DlgInv'
<1>1. PICK c \in Nat : c = mgr["caller"].dialogs[h].call
  BY DialogFacts DEF DialogsOf, Managers
<1>2. /\ "caller" \in Managers /\ Other("caller") = "callee" /\ "cancel" \in Requests
      /\ CallerTag \in Int /\ NoTag \in Int /\ 1 \in Nat
  BY DEF Managers, Other, Requests, CallerTag, NoTag
<1>3. MessageOK(Msg("cancel", Other("caller"), c, CallerTag, NoTag, 1))'
  BY <1>2, RequestFits
<1> QED
  BY <1>1, <1>2, <1>3, OnlyWires DEF SendCancel

\* send_response: the answer bears the tag of the dialog that answers, which
\* is its handle, and an "ok" leaves together with the event.
LEMMA SendResponseInv ==
    ASSUME DlgInv, NEW s \in Managers, NEW h \in DOMAIN mgr[s].dialogs,
           NEW kind \in {"ringing", "ok", "bare", "reject"}, SendResponse(s, h, kind)
    PROVE  DlgInv'
<1> DEFINE d == DialogsOf(s)[h]
           st == IF kind \in {"ok", "bare"} THEN "confirmed"
                 ELSE IF kind = "reject" THEN "terminated" ELSE d.state
           new == [d EXCEPT !.state = st]
<1>0. /\ h \in DOMAIN DialogsOf(s) /\ d \in DialogInfos /\ DialogOK(s, h)
      /\ kind \in Responses \cup Requests /\ kind \in Responses /\ kind \notin Requests
  BY DialogFacts DEF DialogsOf, Responses, Requests
<1>a. d.role = "uas" /\ d.state = "early" /\ st \in DialogStates
  BY <1>0 DEF SendResponse, DialogsOf, DialogStates
<1>1. /\ new \in DialogInfos /\ new.id = d.id /\ new.role = d.role /\ new.call = d.call
      /\ new.state = st /\ new.by = d.by
  <2> HIDE DEF st
  <2> QED
    BY <1>0, <1>a DEF DialogInfos
<1>2. /\ StepDialog(s, h, new, Msg(kind, Other(s), d.call, d.id.remote, d.id.local, 1))
      /\ wires' = wires \cup {Msg(kind, Other(s), d.call, d.id.remote, d.id.local, 1)}
  BY <1>0 DEF SendResponse, DialogsOf
<1>e. kind = "ok" => <<h, "established">> \in told'[s]
  BY <1>1, <1>2, <1>a DEF StepDialog, Events, DialogsOf, DlgInv, Shape
<1> HIDE DEF new, st
<1>3. Stepped(s, h, new)
  BY <1>0, <1>2, StepDialogStepped
<1>4. KeepsId(d, new)
  BY <1>1, <1>a DEF KeepsId, st
<1>5. Shape' /\ Grows /\ (\A t \in Managers : SideOK(t)')
  BY <1>0, <1>1, <1>3, <1>4, SteppedInv
<1>6. PICK cid \in Nat, ftag \in Int :
         cid = d.call /\ ftag = d.id.remote /\ d.id.local = h /\ h \in Int
  BY <1>0, <1>a, DialogFacts DEF DialogOK
<1>7. MessageOK(Msg(kind, Other(s), cid, ftag, h, 1))'
  <2> DEFINE m == Msg(kind, Other(s), cid, ftag, h, 1)
  <2>1. /\ m \in Messages /\ m.kind = kind /\ m.dst = Other(s) /\ m.ttag = h
    BY <1>0, <1>6, OtherFacts, MsgFacts
  <2>2. Other(s) = "caller" => s = "callee"
    BY DEF Other, Managers
  <2> QED
    BY <1>e, <2>1, <2>2 DEF MessageOK
<1>8. \A m \in wires' : MessageOK(m)'
  BY <1>2, <1>5, <1>6, <1>7, WiresStay
<1> QED
  BY <1>5, <1>8 DEF DlgInv

\* A message that no dialog takes.
LEMMA DroppedInv ==
    ASSUME DlgInv, wires' \subseteq wires, mgr' = mgr, told' = told
    PROVE  DlgInv'
<1>1. Shape' /\ Grows
  BY DEF DlgInv, Shape, Grows, NextOf
<1>2. \A s \in Managers : SideOK(s)'
  BY <1>1, SideStays
<1>3. \A m \in wires' : MessageOK(m)'
  BY <1>1, WiresShrink
<1> QED
  BY <1>1, <1>2, <1>3 DEF DlgInv

LEMMA DeliveredFacts ==
    ASSUME NEW m \in wires, Delivered(m, {})
    PROVE  wires' \subseteq wires
BY DEF Delivered

\* handle_response: only the pending dialog of the call, still Early, changes.
LEMMA ReceiveResponseInv ==
    ASSUME DlgInv, NEW s \in Managers, ReceiveResponse(s)
    PROVE  DlgInv'
<1> DEFINE H(m) == IF m.call \in DOMAIN PendingOf(s) /\ m.ftag = CallerTag
                   THEN PendingOf(s)[m.call]
                   ELSE IF DialogId(m.call, m.ftag, m.ttag) \in DOMAIN RoutesOf(s)
                        THEN RoutesOf(s)[DialogId(m.call, m.ftag, m.ttag)] ELSE 0
<1>1. PICK m \in wires :
         /\ m.dst = s /\ m.kind \in {"ringing", "ok", "bare", "reject"} /\ Delivered(m, {})
         /\ IF H(m) \in DOMAIN DialogsOf(s)
            THEN StepDialog(s, H(m), DialogResponse(DialogsOf(s)[H(m)], m), m)
            ELSE UNCHANGED <<mgr, told>>
  BY DEF ReceiveResponse, PendingOf, RoutesOf, DialogsOf
<1>2. wires' \subseteq wires
  BY <1>1, DeliveredFacts
<1>3. CASE H(m) \notin DOMAIN DialogsOf(s)
  BY <1>1, <1>2, <1>3, DroppedInv
<1>4. CASE H(m) \in DOMAIN DialogsOf(s)
  <2>1. PICK h \in DOMAIN DialogsOf(s) : h = H(m)
    BY <1>4
  <2> DEFINE d == DialogsOf(s)[h]
             new == DialogResponse(d, m)
  <2>2. StepDialog(s, h, new, m)
    BY <1>1, <1>4, <2>1
  <2>3. Stepped(s, h, new)
    BY <2>2, StepDialogStepped
  <2>4. /\ MessageOK(m) /\ d \in DialogInfos /\ DialogOK(s, h)
        /\ m.call \in Nat /\ m.ftag \in Int /\ m.ttag \in Int
    BY <1>1, DialogFacts DEF DlgInv, MessageOK, Messages
  <2>5. CASE d.role # "uac" \/ d.state # "early"
    <3>1. new = d
      BY <2>5 DEF DialogResponse
    <3>2. KeepsId(d, new)
      BY <3>1 DEF KeepsId
    <3>3. Shape' /\ Grows /\ (\A t \in Managers : SideOK(t)')
      BY <2>3, <2>4, <3>1, <3>2, SteppedInv
    <3> QED
      BY <1>2, <3>3, WiresShrink DEF DlgInv
  <2>6. CASE d.role = "uac" /\ d.state = "early" /\ m.kind = "reject"
    <3>1. new = [d EXCEPT !.state = "terminated"]
      BY <2>6 DEF DialogResponse
    <3>2. new \in DialogInfos /\ new.role = d.role /\ new.call = d.call /\ KeepsId(d, new)
      BY <2>4, <3>1 DEF DialogInfos, DialogStates, KeepsId
    <3> HIDE DEF new
    <3>3. Shape' /\ Grows /\ (\A t \in Managers : SideOK(t)')
      BY <2>3, <3>2, SteppedInv
    <3> QED
      BY <1>2, <3>3, WiresShrink DEF DlgInv
  <2>8. CASE d.role = "uac" /\ d.state = "early" /\ m.kind = "bare"
    <3>1. new = [d EXCEPT !.state = "confirmed", !.by = Kind(m)]
      BY <2>8 DEF DialogResponse
    <3>2. Kind(m) \in {"bare", "other"}
      BY <2>8 DEF Kind
    <3>3. new \in DialogInfos /\ new.role = d.role /\ new.call = d.call /\ KeepsId(d, new)
      BY <2>4, <2>8, <3>1, <3>2 DEF DialogInfos, DialogStates, KeepsId
    <3> HIDE DEF new
    <3>4. Shape' /\ Grows /\ (\A t \in Managers : SideOK(t)')
      BY <2>3, <3>3, SteppedInv
    <3> QED
      BY <1>2, <3>4, WiresShrink DEF DlgInv
  <2>7. CASE d.role = "uac" /\ d.state = "early" /\ m.kind \in {"ringing", "ok"}
    <3> DEFINE st == IF m.kind = "ok" THEN "confirmed" ELSE "early"
               id == DialogId(m.call, m.ftag, m.ttag)
               by == IF m.kind = "ok" THEN Kind(m) ELSE d.by
    <3>1. new = [d EXCEPT !.id = id, !.state = st, !.localSeq = 1, !.remoteSeq = NoSeq, !.by = by]
      <4>1. d = [f \in {"id", "call", "role", "state", "localSeq", "remoteSeq", "ack", "by"} |-> d[f]]
        BY <2>4 DEF DialogInfos
      <4> QED
        BY <2>7, <4>1 DEF DialogResponse, FromResponse
    <3>2. id \in Ids /\ id.call = m.call /\ id.local = m.ftag /\ id.remote = m.ttag
      BY <2>4 DEF DialogId, Ids
    <3>3. st \in DialogStates /\ by \in {"none", "ok", "bare", "other"}
      BY <2>4 DEF DialogStates, Kind, DialogInfos
    <3>a. s = "caller" /\ d.call = h
      BY <2>4, <2>7 DEF DialogOK
    <3>4. m.call = h /\ m.ftag = CallerTag
      <4>1. \A i \in DOMAIN RoutesOf(s) : RoutesOf(s)[i] # h
        BY <2>7 DEF DlgInv, SideOK, RoutesOK
      <4>2. h # 0
        BY <2>4 DEF DialogOK
      <4>3. /\ m.call \in DOMAIN PendingOf(s) /\ h = PendingOf(s)[m.call]
            /\ m.ftag = CallerTag
        BY <2>1, <4>1, <4>2
      <4> QED
        BY <4>3 DEF DlgInv, SideOK, PendingOK
    <3>b. by = "ok" => m.kind = "ok" /\ m.invite
      BY <2>4, <2>7 DEF Kind, DialogOK
    <3>c. st \in {"early", "confirmed"} /\ (st = "early" => by = d.by)
      BY DEF st, by
    <3> HIDE DEF new, id, st, by
    <3>5. /\ new \in DialogInfos /\ new.role = d.role /\ new.call = d.call
          /\ new.id = id /\ new.state = st /\ new.by = by
      BY <2>4, <3>1, <3>2, <3>3 DEF DialogInfos, NoSeq
    <3>6. TakesId(s, h, new)
      <4>1. by = "ok" => <<m.ttag, "established">> \in told'["callee"]
        BY <1>1, <2>3, <2>4, <3>a, <3>b DEF MessageOK, Stepped
      <4> QED
        BY <2>7, <3>2, <3>4, <3>5, <3>a, <3>c, <4>1 DEF TakesId
    <3>7. Shape' /\ Grows /\ (\A t \in Managers : SideOK(t)')
      BY <2>3, <3>5, <3>6, SteppedInv
    <3> QED
      BY <1>2, <3>7, WiresShrink DEF DlgInv
  <2> QED
    BY <1>1, <2>5, <2>6, <2>7, <2>8
<1> QED
  BY <1>3, <1>4

\* An answer to a request other than INVITE fits: it is no answer to one.
LEMMA AnswersFit ==
    ASSUME DlgInv, NEW m \in wires, NEW answer \in Replies(m), Delivered(m, answer)
    PROVE  \E a : MessageOK(a)' /\ wires' \subseteq wires \cup {a}
<1>1. MessageOK(m) /\ m \in Messages
  BY DEF DlgInv, MessageOK
<1>2. CASE answer = {}
  <2>1. MessageOK(Msg("ack", Other("caller"), 1, 1, 1, 1))'
    BY RequestFits DEF Requests, Managers
  <2> QED
    BY <1>2, <2>1 DEF Delivered
<1>3. CASE m.kind \in {"other", "cancel"}
  <2>1. PICK k \in {"bare", "reject", "ok"} :
           answer = {[m EXCEPT !.kind = k, !.dst = Other(m.dst), !.invite = FALSE]}
    BY <1>3 DEF Replies
  <2> DEFINE a == [m EXCEPT !.kind = k, !.dst = Other(m.dst), !.invite = FALSE]
  <2>2. a \in Messages /\ ~a.invite
    <3>1. k \in Responses \cup Requests /\ Other(m.dst) \in Managers /\ FALSE \in BOOLEAN
      BY <1>1, OtherFacts DEF Responses, Messages
    <3> QED
      BY <1>1, <3>1 DEF Messages
  <2> HIDE DEF a
  <2>3. MessageOK(a)'
    BY <2>2 DEF MessageOK
  <2>4. wires' \subseteq wires \cup {a}
    BY <2>1 DEF Delivered, a
  <2> QED
    BY <2>3, <2>4
<1> QED
  BY <1>2, <1>3 DEF Replies

\* handle_request: whatever a request inside a dialog does, it keeps the id.
LEMMA ReceiveInDialogInv ==
    ASSUME DlgInv, NEW s \in Managers, ReceiveInDialog(s)
    PROVE  DlgInv'
<1>1. PICK m \in wires :
         LET h == mgr[s].ids[DialogId(m.call, m.ttag, m.ftag)] IN
         /\ \E answer \in Replies(m) : Delivered(m, answer)
         /\ \/ /\ Routed(s, m) /\ h \in DOMAIN DialogsOf(s)
               /\ StepDialog(s, h, DialogRequest(DialogsOf(s)[h], m), m)
            \/ mgr' = mgr /\ told' = told
  BY DEF ReceiveInDialog, DialogsOf
<1>2. PICK a : MessageOK(a)' /\ wires' \subseteq wires \cup {a}
  BY <1>1, AnswersFit
<1>3. CASE mgr' = mgr /\ told' = told
  BY <1>2, <1>3, OnlyWires
<1>4. ASSUME NEW h \in DOMAIN DialogsOf(s), Routed(s, m),
             h = RoutesOf(s)[DialogId(m.call, m.ttag, m.ftag)],
             StepDialog(s, h, DialogRequest(DialogsOf(s)[h], m), m)
      PROVE  DlgInv'
  <2> DEFINE d == DialogsOf(s)[h]
             new == DialogRequest(d, m)
  <2>1. Stepped(s, h, new)
    BY <1>4, StepDialogStepped
  <2>2. d \in DialogInfos
    BY <1>4, DialogFacts
  <2>3. m.cseq \in Nat
    BY DEF DlgInv, MessageOK, Messages
  <2>4. new \in DialogInfos /\ new.role = d.role /\ new.call = d.call /\ KeepsId(d, new)
    <3>1. CASE new = [d EXCEPT !.state = "terminated"]
      BY <2>2, <3>1 DEF DialogInfos, DialogStates, KeepsId
    <3>2. CASE new = [d EXCEPT !.remoteSeq = m.cseq]
      BY <2>2, <2>3, <3>2 DEF DialogInfos, DialogStates, KeepsId
    <3>3. CASE new = [d EXCEPT !.ack = TRUE]
      BY <2>2, <3>3 DEF DialogInfos, DialogStates, KeepsId
    <3>4. CASE new = d
      BY <2>2, <3>4 DEF DialogInfos, DialogStates, KeepsId
    <3> QED
      BY <3>1, <3>2, <3>3, <3>4 DEF DialogRequest
  <2> HIDE DEF new
  <2>5. Shape' /\ Grows /\ (\A t \in Managers : SideOK(t)')
    BY <2>1, <2>4, SteppedInv
  <2> QED
    BY <1>2, <2>5, WiresStay DEF DlgInv
<1> QED
  BY <1>1, <1>3, <1>4 DEF RoutesOf

-----------------------------------------------------------------------------
(* New dialogs and the end of old ones.                                    *)

\* A side gets one more dialog d under its next handle.
LEMMA NewDialogInv ==
    ASSUME DlgInv, Shape', NEW s \in Managers, NEW d \in DialogInfos,
           mgr'[Other(s)] = mgr[Other(s)], told' = told,
           NextOf(s)' = NextOf(s) + 1,
           DialogsOf(s)' = Set(DialogsOf(s), NextOf(s), d),
           d.state = "early", d.by = "none",
           \/ /\ d.role = "uas" /\ d.id.local = NextOf(s)
              /\ RoutesOf(s)' = Set(RoutesOf(s), d.id, NextOf(s))
              /\ PendingOf(s)' = PendingOf(s)
           \/ /\ s = "caller" /\ d.role = "uac" /\ d.id = NoId /\ d.call = NextOf(s)
              /\ RoutesOf(s)' = RoutesOf(s)
              /\ PendingOf(s)' = Set(PendingOf(s), NextOf(s), NextOf(s))
    PROVE  Grows /\ (\A t \in Managers : SideOK(t)')
<1> DEFINE o == Other(s)
<1>n. PICK n : n = NextOf(s)
  OBVIOUS
<1>0. o \in Managers /\ o # s /\ \A t \in Managers : t = s \/ t = o
  BY OtherFacts
<1>a. n \in Nat /\ n # 0 /\ NextOf(o) \in Nat /\ NextOf(o)' = NextOf(o)
  BY <1>0, <1>n DEF DlgInv, Shape, NextOf
<1>b. \A t \in Managers : SideOK(t)
  BY DEF DlgInv
<1>c. \A g \in DOMAIN DialogsOf(s) :
         /\ g # n /\ g < n /\ g \in Nat
         /\ DialogsOf(s)[g].id.local \in Int /\ DialogsOf(s)[g].id.local < n
  <2>1. ASSUME NEW g \in DOMAIN DialogsOf(s)
        PROVE  /\ g \in 1..(n - 1)
               /\ DialogsOf(s)[g].id.local \in Int /\ DialogsOf(s)[g].id.local < n
    <3>1. DialogOK(s, g) /\ DialogsOf(s)[g].id.local \in Int /\ g \in 1..(n - 1)
      BY <1>n, DialogFacts DEF DialogOK
    <3>2. DialogsOf(s)[g].id.local \in {0, -1, g}
      BY <3>1, NoIdFacts DEF DialogOK, DialogInfos, CallerTag
    <3> QED
      BY <1>a, <3>1, <3>2
  <2> QED
    BY <1>a, <2>1
<1>d. /\ DOMAIN DialogsOf(s)' = DOMAIN DialogsOf(s) \cup {n}
      /\ DialogsOf(s)'[n] = d
      /\ \A g \in DOMAIN DialogsOf(s) : DialogsOf(s)'[g] = DialogsOf(s)[g]
  BY <1>c, <1>n DEF Set
<1>1. Grows
  <2>1. \A t \in Managers : NextOf(t) <= NextOf(t)'
    BY <1>0, <1>a, <1>n
  <2> QED
    BY <2>1 DEF Grows
<1>2. SideOK(o)'
  BY <1>0, <1>1, SideStays
<1>3. \A g \in DOMAIN DialogsOf(s)' : DialogOK(s, g)'
  <2>1. DialogOK(s, n)'
    <3>1. n \in 1..(NextOf(s)' - 1)
      BY <1>a, <1>n
    <3> QED
      BY <1>a, <1>d, <1>n, <3>1, NoIdFacts DEF DialogOK
  <2>2. \A g \in DOMAIN DialogsOf(s) : DialogOK(s, g)'
    BY <1>1, <1>d, DialogStays
  <2> QED
    BY <1>d, <2>1, <2>2
<1>4. IdsUnique(s)'
  <2>1. \A g \in DOMAIN DialogsOf(s) : DialogsOf(s)[g].id = d.id => d.id = NoId
    BY <1>a, <1>c, <1>n
  <2> QED
    BY <1>b, <1>d, <2>1 DEF IdsUnique, SideOK
<1>5. PendingOK(s)'
  <2>1. \A c \in DOMAIN PendingOf(s) :
           /\ s = "caller" /\ PendingOf(s)[c] = c /\ c \in 1..(NextOf(s)' - 1) /\ c # n
           /\ c \in DOMAIN DialogsOf(s) => DialogsOf(s)[c].role = "uac"
    BY <1>a, <1>b, <1>n DEF SideOK, PendingOK
  <2>2. CASE PendingOf(s)' = PendingOf(s)
    BY <1>d, <2>1, <2>2 DEF PendingOK
  <2>3. CASE /\ s = "caller" /\ d.role = "uac"
             /\ PendingOf(s)' = Set(PendingOf(s), n, n)
    <3>1. /\ DOMAIN PendingOf(s)' = DOMAIN PendingOf(s) \cup {n} /\ PendingOf(s)'[n] = n
          /\ \A c \in DOMAIN PendingOf(s) : PendingOf(s)'[c] = PendingOf(s)[c]
      BY <2>1, <2>3 DEF Set
    <3>2. n \in 1..(NextOf(s)' - 1)
      BY <1>a, <1>n
    <3> QED
      BY <1>d, <2>1, <2>3, <3>1, <3>2 DEF PendingOK
  <2> QED
    BY <1>n, <2>2, <2>3
<1>6. RoutesOK(s)'
  <2>0. RoutesOK(s)
    BY <1>b DEF SideOK
  <2>1. CASE d.role = "uas" /\ d.id.local = n /\ RoutesOf(s)' = Set(RoutesOf(s), d.id, n)
    <3>1. \A g \in DOMAIN DialogsOf(s) : DialogsOf(s)[g].id # d.id
      BY <1>a, <1>c, <2>1
    <3>2. d.id \notin DOMAIN RoutesOf(s)
      BY <2>0, <3>1 DEF RoutesOK
    <3>3. /\ DOMAIN RoutesOf(s)' = DOMAIN RoutesOf(s) \cup {d.id} /\ RoutesOf(s)'[d.id] = n
          /\ \A id \in DOMAIN RoutesOf(s) : RoutesOf(s)'[id] = RoutesOf(s)[id]
      BY <2>1, <3>2 DEF Set
    <3> QED
      BY <1>d, <2>0, <2>1, <3>1, <3>3 DEF RoutesOK
  <2>2. CASE d.role = "uac" /\ d.state = "early" /\ RoutesOf(s)' = RoutesOf(s)
    BY <1>c, <1>d, <2>0, <2>2 DEF RoutesOK, Reachable
  <2> QED
    BY <1>n, <2>1, <2>2
<1> QED
  BY <1>0, <1>1, <1>2, <1>3, <1>4, <1>5, <1>6 DEF SideOK

LEMMA CreateDialogInv ==
    ASSUME DlgInv, CreateDialog
    PROVE  DlgInv'
<1> DEFINE s == "caller"
           n == NextOf(s)
           d == NewUac(n)
<1>0. s \in Managers /\ Other(s) = "callee" /\ Other(s) \in Managers
      /\ \A t \in Managers : t = s \/ t = Other(s)
  BY DEF Managers, Other
<1>1. s \in DOMAIN mgr /\ DOMAIN mgr[s] = {"next", "dialogs", "ids", "pending"} /\ n \in Nat \ {0}
  BY <1>0 DEF DlgInv, Shape
<1>2. /\ NextOf(s)' = n + 1 /\ DialogsOf(s)' = Set(DialogsOf(s), n, d)
      /\ RoutesOf(s)' = RoutesOf(s) /\ PendingOf(s)' = Set(PendingOf(s), n, n)
      /\ DOMAIN mgr'[s] = DOMAIN mgr[s]
  BY <1>1 DEF CreateDialog, NextOf, DialogsOf, RoutesOf, PendingOf
<1>3. /\ mgr'[Other(s)] = mgr[Other(s)] /\ DOMAIN mgr' = Managers /\ told' = told
      /\ wires' = wires \cup {Msg("invite", "callee", n, CallerTag, NoTag, 1)}
  BY <1>0 DEF CreateDialog, DlgInv, Shape, NextOf
<1>4. Shape'
  <2>1. NextOf(s)' \in Nat \ {0} /\ NextOf(Other(s))' \in Nat \ {0}
    BY <1>0, <1>1, <1>2, <1>3 DEF DlgInv, Shape, NextOf
  <2> QED
    BY <1>0, <1>1, <1>2, <1>3, <2>1 DEF DlgInv, Shape
<1>5. /\ d \in DialogInfos /\ d.id = NoId /\ d.role = "uac" /\ d.state = "early" /\ d.call = n
      /\ d.by = "none"
  BY <1>1, NoIdFacts DEF NewUac, DialogInfos, DialogStates, NoSeq
<1> HIDE DEF d
<1>6. Grows /\ (\A t \in Managers : SideOK(t)')
  BY <1>0, <1>2, <1>3, <1>4, <1>5, NewDialogInv
<1>7. PICK c \in Nat : c = n
  BY <1>1
<1>8. MessageOK(Msg("invite", "callee", c, CallerTag, NoTag, 1))'
  <2>1. /\ "invite" \in Requests /\ CallerTag \in Int /\ NoTag \in Int /\ 1 \in Nat
        /\ Other(s) = "callee"
    BY <1>0 DEF Requests, CallerTag, NoTag, Other
  <2>2. MessageOK(Msg("invite", Other(s), c, CallerTag, NoTag, 1))'
    BY <1>0, <2>1, RequestFits
  <2> QED
    BY <2>1, <2>2
<1>9. \A m \in wires' : MessageOK(m)'
  BY <1>3, <1>4, <1>6, <1>7, <1>8, WiresStay
<1> QED
  BY <1>4, <1>6, <1>9 DEF DlgInv

LEMMA ReceiveInviteInv ==
    ASSUME DlgInv, NEW s \in Managers, ReceiveInvite(s)
    PROVE  DlgInv'
<1> DEFINE n == NextOf(s)
           D(m) == NewUas(m.call, m.ftag, n, m.cseq)
<1>0. Other(s) \in Managers /\ Other(s) # s /\ \A t \in Managers : t = s \/ t = Other(s)
  BY OtherFacts
<1>1. s \in DOMAIN mgr /\ DOMAIN mgr[s] = {"next", "dialogs", "ids", "pending"} /\ n \in Nat \ {0}
  BY DEF DlgInv, Shape
<1>2. PICK m \in wires :
         /\ m.dst = s /\ m.kind \in {"invite", "reinvite"} /\ Delivered(m, {}) /\ told' = told
         /\ mgr' = [mgr EXCEPT ![s] =
              [mgr[s] EXCEPT !.next = n + 1, !.dialogs = Set(DialogsOf(s), n, D(m)),
                             !.ids = Set(RoutesOf(s), D(m).id, n)]]
  BY DEF ReceiveInvite, NextOf, DialogsOf, RoutesOf
<1> DEFINE d == D(m)
<1>3. /\ NextOf(s)' = n + 1 /\ DialogsOf(s)' = Set(DialogsOf(s), n, d)
      /\ RoutesOf(s)' = Set(RoutesOf(s), d.id, n) /\ PendingOf(s)' = PendingOf(s)
      /\ DOMAIN mgr'[s] = DOMAIN mgr[s]
  <2> HIDE DEF D
  <2> QED
    BY <1>1, <1>2 DEF NextOf, DialogsOf, RoutesOf, PendingOf
<1>4. mgr'[Other(s)] = mgr[Other(s)] /\ DOMAIN mgr' = Managers /\ told' = told
  BY <1>0, <1>2 DEF DlgInv, Shape
<1>5. Shape'
  <2>1. NextOf(s)' \in Nat \ {0} /\ NextOf(Other(s))' \in Nat \ {0}
    BY <1>0, <1>1, <1>3, <1>4 DEF DlgInv, Shape, NextOf
  <2> QED
    BY <1>0, <1>1, <1>3, <1>4, <2>1 DEF DlgInv, Shape
<1>6. m.call \in Nat /\ m.cseq \in Nat /\ m.ftag \in Int
  BY <1>2 DEF DlgInv, MessageOK, Messages
<1>7. /\ d \in DialogInfos /\ d.role = "uas" /\ d.id.local = n
      /\ d.state = "early" /\ d.by = "none"
  BY <1>1, <1>6 DEF NewUas, DialogId, DialogInfos, Ids, DialogStates
<1> HIDE DEF d, D
<1>8. Grows /\ (\A t \in Managers : SideOK(t)')
  BY <1>3, <1>4, <1>5, <1>7, NewDialogInv
<1>9. wires' \subseteq wires
  BY <1>2, DeliveredFacts
<1> QED
  BY <1>5, <1>8, <1>9, WiresShrink DEF DlgInv

\* cleanup_terminated: a dialog and its route go together, and because
\* identifiers are unique no other route goes with them.
LEMMA CleanupTerminatedInv ==
    ASSUME DlgInv, NEW s \in Managers, CleanupTerminated(s)
    PROVE  DlgInv'
<1> DEFINE o == Other(s)
           dead == {h \in DOMAIN DialogsOf(s) : DialogsOf(s)[h].state = "terminated"}
           gone == {DialogsOf(s)[h].id : h \in dead}
<1>0. /\ o \in Managers /\ o # s /\ \A t \in Managers : t = s \/ t = o
      /\ "caller" \in Managers /\ "callee" \in Managers
  BY OtherFacts DEF Managers
<1>1. s \in DOMAIN mgr /\ DOMAIN mgr[s] = {"next", "dialogs", "ids", "pending"}
  BY DEF DlgInv, Shape
<1>2. /\ mgr' = [mgr EXCEPT ![s] = [mgr[s] EXCEPT !.dialogs = Without(DialogsOf(s), dead),
                                                  !.ids = Without(RoutesOf(s), gone)]]
      /\ wires' = wires /\ told' = told
  BY DEF CleanupTerminated, DialogsOf, RoutesOf
<1>3. /\ NextOf(s)' = NextOf(s) /\ PendingOf(s)' = PendingOf(s) /\ DOMAIN mgr'[s] = DOMAIN mgr[s]
      /\ DialogsOf(s)' = Without(DialogsOf(s), dead)
      /\ RoutesOf(s)' = Without(RoutesOf(s), gone)
  <2> HIDE DEF dead, gone
  <2> QED
    BY <1>1, <1>2 DEF NextOf, DialogsOf, RoutesOf, PendingOf
<1>4. mgr'[o] = mgr[o] /\ DOMAIN mgr' = Managers
  BY <1>0, <1>2 DEF DlgInv, Shape
<1>5. Shape'
  <2>1. NextOf(s)' \in Nat \ {0} /\ NextOf(o)' \in Nat \ {0}
    BY <1>0, <1>3, <1>4 DEF DlgInv, Shape, NextOf
  <2> QED
    BY <1>0, <1>1, <1>2, <1>3, <1>4, <2>1 DEF DlgInv, Shape
<1>6. /\ DOMAIN DialogsOf(s)' = DOMAIN DialogsOf(s) \ dead
      /\ \A h \in DOMAIN DialogsOf(s)' : DialogsOf(s)'[h] = DialogsOf(s)[h]
      /\ DOMAIN RoutesOf(s)' = DOMAIN RoutesOf(s) \ gone
      /\ \A id \in DOMAIN RoutesOf(s)' : RoutesOf(s)'[id] = RoutesOf(s)[id]
  <2> HIDE DEF dead, gone
  <2> QED
    BY <1>3 DEF Without
<1>7. Grows
  <2>1. NextOf(o)' = NextOf(o)
    BY <1>4 DEF NextOf
  <2>2. \A t \in Managers : NextOf(t) <= NextOf(t)'
    BY <1>0, <1>3, <2>1 DEF DlgInv, Shape
  <2> QED
    BY <1>2, <2>2 DEF Grows
<1>8. SideOK(o)'
  BY <1>0, <1>4, <1>5, <1>7, SideStays
<1>9. SideOK(s)'
  <2>0. SideOK(s)
    BY DEF DlgInv
  <2>1. \A h \in DOMAIN DialogsOf(s)' : DialogOK(s, h)'
    BY <1>5, <1>6, <1>7, DialogStays
  <2>2. IdsUnique(s)' /\ PendingOK(s)'
    <3> HIDE DEF dead, gone
    <3>1. IdsUnique(s)'
      BY <1>6, <2>0 DEF SideOK, IdsUnique
    <3>2. PendingOK(s)'
      BY <1>3, <1>6, <2>0 DEF SideOK, PendingOK
    <3> QED
      BY <3>1, <3>2
  <2>3. \A id \in DOMAIN RoutesOf(s)' : RoutesOf(s)[id] \in DOMAIN DialogsOf(s)'
    BY <1>6, <2>0 DEF SideOK, RoutesOK
  <2>4. ASSUME NEW h \in DOMAIN DialogsOf(s)', Reachable(DialogsOf(s)[h])
        PROVE  DialogsOf(s)[h].id \notin gone
    <3>1. h \in DOMAIN DialogsOf(s) /\ h \notin dead
      BY <1>6
    <3>2. DialogOK(s, h) /\ h # 0
      BY <2>0, <3>1 DEF SideOK, DialogOK
    <3>3. DialogsOf(s)[h].id # NoId
      BY <2>4, <3>2, NoIdFacts DEF DialogOK, Reachable, DialogInfos
    <3> QED
      BY <2>0, <3>1, <3>3 DEF SideOK, IdsUnique
  <2>5. RoutesOK(s)'
    BY <1>6, <2>0, <2>3, <2>4 DEF SideOK, RoutesOK
  <2> QED
    BY <2>1, <2>2, <2>5 DEF SideOK
<1>11. \A m \in wires' : MessageOK(m)'
  BY <1>2, <1>5, <1>7, WiresShrink
<1> QED
  BY <1>0, <1>5, <1>8, <1>9, <1>11 DEF DlgInv

-----------------------------------------------------------------------------
LEMMA DlgInitInv == DlgInit => DlgInv
<1> SUFFICES ASSUME DlgInit PROVE DlgInv
  OBVIOUS
<1>1. \A s \in Managers : /\ NextOf(s) = 1 /\ DialogsOf(s) = <<>> /\ RoutesOf(s) = <<>>
                          /\ PendingOf(s) = <<>>
  BY DEF DlgInit, NextOf, DialogsOf, RoutesOf, PendingOf
<1>2. DOMAIN <<>> = {}
  OBVIOUS
<1>3. Shape
  BY <1>1 DEF DlgInit, Shape
<1>4. \A s \in Managers : SideOK(s)
  BY <1>1, <1>2 DEF SideOK, RoutesOK, IdsUnique, PendingOK
<1>5. wires = {}
  BY DEF DlgInit
<1> QED
  BY <1>3, <1>4, <1>5 DEF DlgInv

LEMMA DlgNextInv == DlgInv /\ [DlgNext]_dlgVars => DlgInv'
<1> SUFFICES ASSUME DlgInv, [DlgNext]_dlgVars PROVE DlgInv'
  OBVIOUS
<1>1. CASE UNCHANGED dlgVars
  BY <1>1, DroppedInv DEF dlgVars
<1> QED
  BY <1>1, CreateDialogInv, AckSentInv, ReceiveInviteInv, ReceiveResponseInv,
     ReceiveInDialogInv, CleanupTerminatedInv, SendByeInv, NextSeqInv, SendResponseInv,
     SendCancelInv
  DEF DlgNext

(* For any number of calls, dialogs and copies, re-INVITEs, PRACKs,        *)
(* UPDATEs and CANCELs, and in whatever order the messages come: the       *)
(* tables of a side lead to its dialogs and back (dialog/manager.rs        *)
(* handle_response, create_uas_dialog and cleanup_terminated).  Only a     *)
(* dialog confirmed under the empty id may be without a route.             *)
THEOREM DialogTables == DlgSpec => []TablesAgree
<1>1. DlgInit => DlgInv
  BY DlgInitInv
<1>2. DlgInv /\ [DlgNext]_dlgVars => DlgInv'
  BY DlgNextInv
<1>3. DlgInv => TablesAgree
  BY DEF DlgInv, SideOK, RoutesOK, Reachable, TablesAgree, DialogsOf, RoutesOf
<1> QED
  BY <1>1, <1>2, <1>3, PTL DEF DlgSpec

(* A caller's dialog that a 2xx to its INVITE with a Contact established   *)
(* has the tag of a dialog that the callee has established, however the    *)
(* answers of the forks of a call and the answers to its other requests    *)
(* are mixed (dialog/invite.rs handle_response).                           *)
THEOREM DialogAgreement == DlgSpec => []ConfirmedByBoth
<1>1. DlgInit => DlgInv
  BY DlgInitInv
<1>2. DlgInv /\ [DlgNext]_dlgVars => DlgInv'
  BY DlgNextInv
<1>3. DlgInv => ConfirmedByBoth
  BY DEF DlgInv, SideOK, DialogOK, ConfirmedByBoth, DialogsOf, Managers
<1> QED
  BY <1>1, <1>2, <1>3, PTL DEF DlgSpec

(* Two dialogs of one side never have the same identifier, but for the     *)
(* empty one that a caller's dialog is created with and, after a 2xx       *)
(* without Contact, established with: a request, whose Call-ID is not      *)
(* empty, is never given to the wrong dialog (DialogId, dialog/state.rs).  *)
THEOREM DialogIdsAreUnique == DlgSpec => [](\A s \in Managers : IdsUnique(s))
<1>1. DlgInit => DlgInv
  BY DlgInitInv
<1>2. DlgInv /\ [DlgNext]_dlgVars => DlgInv'
  BY DlgNextInv
<1>3. DlgInv => \A s \in Managers : IdsUnique(s)
  BY DEF DlgInv, SideOK
<1> QED
  BY <1>1, <1>2, <1>3, PTL DEF DlgSpec

-----------------------------------------------------------------------------
(* SessionRefresh: who keeps the session alive.                            *)

CallFields ==
    {"state", "direction", "dialog", "local_cseq", "routed", "media", "port", "pending",
     "session_expires", "refresher", "refresh_at", "expiry_at", "update_unsupported",
     "uac_in_flight"}
Deadlines == Nat \cup {Unset}

\* The call of side p when r refreshes: an established call has the interval
\* and exactly the deadline of its part.
PlaysPart(c, p, r) ==
    /\ c = [f \in CallFields |-> c[f]]
    /\ c.refresh_at \in Deadlines /\ c.expiry_at \in Deadlines
    /\ c.session_expires \in {SE, Unset}
    /\ c.refresher = r
    /\ c.state = "Established" =>
          /\ c.session_expires = SE
          /\ c.refresh_at # Unset <=> r = p
          /\ c.expiry_at # Unset <=> r # p

\* Side r refreshes.
Plays(r) ==
    /\ call = [p \in Party |-> call[p]]
    /\ \A p \in Party : PlaysPart(call[p], p, r)

SrInv == \E r \in Party : Plays(r)

LEMMA IntervalFacts ==
    /\ SE \in Nat /\ SE \div 2 \in Nat /\ SE # Unset /\ SE \div 2 # Unset
    /\ 0 # Unset /\ ~(SE < MinSE) /\ Unset \notin Nat /\ Unset \in Int
BY RefreshAssumption DEF Unset

\* What an operation may write: any new deadlines that are set where the old
\* ones were, and any change of the other fields.
LEMMA Rewritten ==
    ASSUME NEW c, NEW p, NEW r, PlaysPart(c, p, r),
           NEW x \in Deadlines, x = Unset <=> c.refresh_at = Unset,
           NEW y \in Deadlines, y = Unset <=> c.expiry_at = Unset
    PROVE  /\ PlaysPart([c EXCEPT !.refresh_at = x, !.expiry_at = y], p, r)
           /\ PlaysPart([c EXCEPT !.session_expires = SE], p, r)
           /\ \A z : /\ PlaysPart([c EXCEPT !.local_cseq = z], p, r)
                     /\ PlaysPart([c EXCEPT !.uac_in_flight = z], p, r)
                     /\ PlaysPart([c EXCEPT !.local_cseq = z, !.refresh_at = x], p, r)
                     /\ PlaysPart([c EXCEPT !.local_cseq = z, !.expiry_at = Unset,
                                            !.state = "Terminating"], p, r)
                     /\ PlaysPart([c EXCEPT !.state = "Terminated", !.media = z], p, r)
           /\ \A z, w : PlaysPart([c EXCEPT !.uac_in_flight = z, !.update_unsupported = w], p, r)
<1> USE IntervalFacts DEF PlaysPart, CallFields, Deadlines
<1>1. PlaysPart([c EXCEPT !.refresh_at = x, !.expiry_at = y], p, r)
  OBVIOUS
<1>2. PlaysPart([c EXCEPT !.session_expires = SE], p, r)
  OBVIOUS
<1>3. ASSUME NEW z
      PROVE  /\ PlaysPart([c EXCEPT !.local_cseq = z], p, r)
             /\ PlaysPart([c EXCEPT !.uac_in_flight = z], p, r)
             /\ PlaysPart([c EXCEPT !.local_cseq = z, !.refresh_at = x], p, r)
  OBVIOUS
<1>4. ASSUME NEW z
      PROVE  /\ PlaysPart([c EXCEPT !.local_cseq = z, !.expiry_at = Unset,
                                    !.state = "Terminating"], p, r)
             /\ PlaysPart([c EXCEPT !.state = "Terminated", !.media = z], p, r)
  OBVIOUS
<1>5. ASSUME NEW z, NEW w
      PROVE  PlaysPart([c EXCEPT !.uac_in_flight = z, !.update_unsupported = w], p, r)
  OBVIOUS
<1> HIDE DEF PlaysPart
<1> QED
  BY <1>1, <1>2, <1>3, <1>4, <1>5

\* Sliding the deadlines sets none that was not set.
LEMMA SlideKeepsPart ==
    ASSUME NEW c, NEW p, NEW r, PlaysPart(c, p, r)
    PROVE  PlaysPart(slide_deadlines(c), p, r)
<1>1. CASE c.session_expires = Unset
  BY <1>1 DEF slide_deadlines
<1>2. CASE c.session_expires # Unset
  <2>1. PICK x, y : /\ x = IF c.refresh_at = Unset THEN Unset ELSE c.session_expires \div 2
                    /\ y = IF c.expiry_at = Unset THEN Unset ELSE c.session_expires
    OBVIOUS
  <2>2. /\ x \in Deadlines /\ (x = Unset <=> c.refresh_at = Unset)
        /\ y \in Deadlines /\ (y = Unset <=> c.expiry_at = Unset)
    BY <1>2, <2>1, IntervalFacts DEF PlaysPart, Deadlines
  <2>3. slide_deadlines(c) = [c EXCEPT !.refresh_at = x, !.expiry_at = y]
    BY <1>2, <2>1 DEF slide_deadlines
  <2>4. PlaysPart([c EXCEPT !.refresh_at = x, !.expiry_at = y], p, r)
    BY <2>2, Rewritten
  <2> QED
    BY <2>3, <2>4
<1> QED
  BY <1>1, <1>2

LEMMA UpdateKeepsPart ==
    ASSUME NEW c, NEW p, NEW r, PlaysPart(c, p, r)
    PROVE  PlaysPart(CallHandleUpdate(c, SE, MinSE), p, r)
<1>1. PICK d : d = [c EXCEPT !.session_expires = SE]
  OBVIOUS
<1>2. CallHandleUpdate(c, SE, MinSE) = slide_deadlines(d)
  BY <1>1, IntervalFacts DEF CallHandleUpdate
<1>3. c.refresh_at \in Deadlines /\ c.expiry_at \in Deadlines
  BY DEF PlaysPart
<1>4. PlaysPart(d, p, r)
  BY <1>1, <1>3, Rewritten
<1> QED
  BY <1>2, <1>4, SlideKeepsPart

\* tick: a refresh slides its deadline, an expiry ends the call.
LEMMA TickKeepsPart ==
    ASSUME NEW c, NEW p, NEW r, PlaysPart(c, p, r)
    PROVE  PlaysPart(CallTick(c), p, r)
<1>1. PICK d : d = maybe_fire_refresh(c)
  OBVIOUS
<1>2. PlaysPart(d, p, r)
  <2>1. CASE ~RefreshDue(c)
    BY <1>1, <2>1 DEF maybe_fire_refresh
  <2>2. CASE RefreshDue(c)
    <3>1. PICK x, z : x = c.session_expires \div 2 /\ z = c.local_cseq + 1
      OBVIOUS
    <3>2. x \in Deadlines /\ (x = Unset <=> c.refresh_at = Unset) /\ c.expiry_at \in Deadlines
      BY <2>2, <3>1, IntervalFacts DEF PlaysPart, RefreshDue, Deadlines
    <3>3. d = [c EXCEPT !.local_cseq = z, !.refresh_at = x]
      BY <1>1, <2>2, <3>1 DEF maybe_fire_refresh
    <3> QED
      BY <3>2, <3>3, Rewritten
  <2> QED
    BY <2>1, <2>2
<1>3. CASE ~ExpiryDue(d)
  BY <1>1, <1>2, <1>3 DEF CallTick, maybe_fire_expiry_bye
<1>4. CASE ExpiryDue(d)
  <2>1. PICK z : z = d.local_cseq + 1
    OBVIOUS
  <2>2. CallTick(c) = [d EXCEPT !.local_cseq = z, !.expiry_at = Unset, !.state = "Terminating"]
    BY <1>1, <1>4, <2>1 DEF CallTick, maybe_fire_expiry_bye
  <2>3. d.refresh_at \in Deadlines /\ d.expiry_at \in Deadlines
    BY <1>2 DEF PlaysPart
  <2>4. PlaysPart([d EXCEPT !.local_cseq = z, !.expiry_at = Unset, !.state = "Terminating"],
                  p, r)
    BY <1>2, <2>3, Rewritten
  <2> QED
    BY <2>2, <2>4
<1> QED
  BY <1>3, <1>4

LEMMA ElapseKeepsPart ==
    ASSUME NEW c, NEW p, NEW r, PlaysPart(c, p, r)
    PROVE  PlaysPart(CallElapse(c), p, r)
<1>1. PICK x, y : x = Left(c.refresh_at) /\ y = Left(c.expiry_at)
  OBVIOUS
<1>2. /\ x \in Deadlines /\ (x = Unset <=> c.refresh_at = Unset)
      /\ y \in Deadlines /\ (y = Unset <=> c.expiry_at = Unset)
  BY <1>1 DEF PlaysPart, Deadlines, Left, Unset
<1>3. CallElapse(c) = [c EXCEPT !.refresh_at = x, !.expiry_at = y]
  BY <1>1 DEF CallElapse
<1>4. PlaysPart([c EXCEPT !.refresh_at = x, !.expiry_at = y], p, r)
  BY <1>2, Rewritten
<1> QED
  BY <1>3, <1>4

LEMMA FlagsKeepPart ==
    ASSUME NEW c, NEW p, NEW r, PlaysPart(c, p, r)
    PROVE  /\ PlaysPart(Numberless(c), p, r)
           /\ PlaysPart(handle_ended(c), p, r)
           /\ \A z : PlaysPart([c EXCEPT !.uac_in_flight = z], p, r)
           /\ \A z, w : PlaysPart([c EXCEPT !.uac_in_flight = z, !.update_unsupported = w], p, r)
<1>1. c.refresh_at \in Deadlines /\ c.expiry_at \in Deadlines
  BY DEF PlaysPart
<1>2. PICK m : m = IF c.media = "none" THEN "none" ELSE "stopped"
  OBVIOUS
<1>3. handle_ended(c) = [c EXCEPT !.state = "Terminated", !.media = m]
  BY <1>2 DEF handle_ended
<1>4. Numberless(c) = [c EXCEPT !.local_cseq = 0]
  BY DEF Numberless
<1>5. PlaysPart([c EXCEPT !.state = "Terminated", !.media = m], p, r)
  BY <1>1, Rewritten
<1>6. PlaysPart([c EXCEPT !.local_cseq = 0], p, r)
  BY <1>1, Rewritten
<1>7. \A z : PlaysPart([c EXCEPT !.uac_in_flight = z], p, r)
  BY <1>1, Rewritten
<1>8. \A z, w : PlaysPart([c EXCEPT !.uac_in_flight = z, !.update_unsupported = w], p, r)
  BY <1>1, Rewritten
<1> QED
  BY <1>3, <1>4, <1>5, <1>6, <1>7, <1>8
\* Both sides set their timer from the answer: the UAC's deadlines are those
\* of the refresher the UAS has chosen.
LEMMA AnsweredPart ==
    ASSUME NEW c, NEW r \in Party, PlaysPart(c, "uac", r)
    PROVE  PlaysPart(apply_invite_2xx_session_timer(
                       handle_answer(set_negotiated_media(
                          populate(set_dialog(c, <<1>>, 0), "uac"), 0)),
                       SE, c.refresher), "uac", r)
<1>1. PICK d : d = handle_answer(set_negotiated_media(populate(set_dialog(c, <<1>>, 0), "uac"), 0))
  OBVIOUS
<1>2. d = [f \in CallFields |-> d[f]] /\ d.state = "Established"
  <2>1. PICK s : s = set_dialog(c, <<1>>, 0)
    OBVIOUS
  <2>2. s = [f \in CallFields |-> s[f]]
    BY <2>1 DEF PlaysPart, set_dialog, CallFields
  <2>3. PICK q : q = populate(s, "uac")
    OBVIOUS
  <2>4. q = [f \in CallFields |-> q[f]]
    BY <2>2, <2>3 DEF populate, CallFields
  <2>5. d = [[q EXCEPT !.media = "active", !.port = 0] EXCEPT !.state = "Established"]
    BY <1>1, <2>1, <2>3 DEF handle_answer, set_negotiated_media
  <2> QED
    BY <2>4, <2>5 DEF CallFields
<1>3. c.refresher = r /\ r # "none"
  BY DEF PlaysPart, Party
<1>4. PICK x, y : /\ x = IF r = "uac" THEN SE \div 2 ELSE Unset
                  /\ y = IF r = "uac" THEN Unset ELSE SE
  OBVIOUS
<1>5. PICK e : e = apply_invite_2xx_session_timer(d, SE, c.refresher)
  OBVIOUS
<1>6. e = [d EXCEPT !.session_expires = SE, !.refresher = r, !.refresh_at = x, !.expiry_at = y]
  BY <1>3, <1>4, <1>5, IntervalFacts DEF apply_invite_2xx_session_timer, set_session_timer
<1>7. x \in Deadlines /\ y \in Deadlines /\ (x # Unset <=> r = "uac") /\ (y # Unset <=> r # "uac")
  BY <1>4, IntervalFacts DEF Deadlines
<1>8. PlaysPart(e, "uac", r)
  BY <1>2, <1>6, <1>7 DEF PlaysPart, CallFields
<1> QED
  BY <1>1, <1>5, <1>8

InFlight(c) == c.uac_in_flight

\* The UAS has answered, the UAC does not know it yet.
Started(r) ==
    /\ call["uac"].state = "Idle" /\ ~InFlight(call["uac"])
    /\ call["uas"].state = "Established" /\ ~InFlight(call["uas"])
    /\ call["uas"].dialog = <<1>>
    /\ r = "uas" => call["uas"].refresh_at = SE \div 2
    /\ r = "uac" => call["uas"].expiry_at = SE

LEMMA SrInitPlays ==
    ASSUME SrInit
    PROVE  \E r \in Party : Plays(r) /\ Started(r)
<1>1. PICK timer \in BOOLEAN :
        LET v == evaluate_inbound_invite_session_timer(SE, MinSE, timer)
        IN  call = [p \in Party |->
               IF p = "uac" THEN [new_outbound EXCEPT !.refresher = v.refresher]
               ELSE CallAcceptSessionTimer(
                      handle_answer(set_negotiated_media(populate(new_inbound(<<1>>, 0), "uas"), 0)),
                      v.session_expires, v.refresher)]
  BY DEF SrInit
<1>2. PICK v : v = evaluate_inbound_invite_session_timer(SE, MinSE, timer)
  OBVIOUS
<1>3. PICK r : r = IF timer THEN "uac" ELSE "uas"
  OBVIOUS
<1>4. v.session_expires = SE /\ v.refresher = r /\ r \in Party
  BY <1>2, <1>3, IntervalFacts DEF evaluate_inbound_invite_session_timer, Party
<1>5. PICK a, d : /\ a = [new_outbound EXCEPT !.refresher = r]
                  /\ d = handle_answer(set_negotiated_media(populate(new_inbound(<<1>>, 0), "uas"), 0))
  OBVIOUS
<1>6. /\ call = [p \in Party |-> IF p = "uac" THEN a ELSE CallAcceptSessionTimer(d, SE, r)]
  BY <1>1, <1>2, <1>4, <1>5
<1>7. PlaysPart(a, "uac", r) /\ a.state = "Idle" /\ ~InFlight(a)
  <2>1. PICK o : o = new_outbound
    OBVIOUS
  <2>2. /\ o = [f \in CallFields |-> o[f]] /\ o.state = "Idle" /\ o.refresh_at = Unset
        /\ o.expiry_at = Unset /\ o.session_expires = Unset /\ o.uac_in_flight = FALSE
    BY <2>1 DEF new_outbound, NewCall, CallFields
  <2>3. PlaysPart(a, "uac", r)
    BY <1>5, <2>1, <2>2 DEF PlaysPart, CallFields, Deadlines
  <2>4. a.state = o.state /\ a.uac_in_flight = o.uac_in_flight
    BY <1>5, <2>1, <2>2 DEF CallFields
  <2> QED
    BY <2>2, <2>3, <2>4 DEF InFlight
<1>8. /\ d = [f \in CallFields |-> d[f]] /\ d.state = "Established"
      /\ d.dialog = <<1>> /\ d.uac_in_flight = FALSE
  <2>1. PICK s : s = new_inbound(<<1>>, 0)
    OBVIOUS
  <2>2. s = [f \in CallFields |-> s[f]] /\ s.dialog = <<1>> /\ s.uac_in_flight = FALSE
    BY <2>1 DEF new_inbound, NewCall, CallFields
  <2>3. PICK q : q = populate(s, "uas")
    OBVIOUS
  <2>4. q = [f \in CallFields |-> q[f]] /\ q.dialog = <<1>> /\ q.uac_in_flight = FALSE
    BY <2>2, <2>3 DEF populate, CallFields
  <2>5. d = [[q EXCEPT !.media = "active", !.port = 0] EXCEPT !.state = "Established"]
    BY <1>5, <2>1, <2>3 DEF handle_answer, set_negotiated_media
  <2> QED
    BY <2>4, <2>5 DEF CallFields
<1>9. PICK x, y : /\ x = IF r = "uas" THEN SE \div 2 ELSE Unset
                  /\ y = IF r = "uas" THEN Unset ELSE SE
  OBVIOUS
<1>10. x \in Deadlines /\ y \in Deadlines /\ (x # Unset <=> r = "uas") /\ (y # Unset <=> r # "uas")
  BY <1>9, IntervalFacts DEF Deadlines
<1>11. PICK e : e = CallAcceptSessionTimer(d, SE, r)
  OBVIOUS
<1>12. e = [d EXCEPT !.session_expires = SE, !.refresher = r, !.refresh_at = x, !.expiry_at = y]
  BY <1>9, <1>11 DEF CallAcceptSessionTimer, set_session_timer
<1>13. PlaysPart(e, "uas", r)
  BY <1>8, <1>10, <1>12 DEF PlaysPart, CallFields
<1>14. /\ e.state = "Established" /\ e.dialog = <<1>> /\ ~InFlight(e)
       /\ e.refresh_at = x /\ e.expiry_at = y
  BY <1>8, <1>12 DEF CallFields, InFlight
<1>15. call["uac"] = a /\ call["uas"] = e
  BY <1>6, <1>11 DEF Party
<1>16. Started(r)
  BY <1>7, <1>9, <1>14, <1>15 DEF Started
<1>17. Plays(r)
  BY <1>6, <1>7, <1>11, <1>13 DEF Party, Plays
<1> QED
  BY <1>4, <1>16, <1>17

\* A step gives side q a call that still plays its part.
LEMMA SrOneSide ==
    ASSUME NEW r \in Party, Plays(r),
           NEW q \in Party, NEW d, PlaysPart(d, q, r), call' = [call EXCEPT ![q] = d]
    PROVE  Plays(r)'
<1>1. call' = [p \in Party |-> IF p = q THEN d ELSE call[p]]
  BY DEF Plays
<1>2. call' = [p \in Party |-> call'[p]] /\ \A p \in Party : PlaysPart(call'[p], p, r)
  BY <1>1 DEF Plays
<1> QED
  BY <1>2 DEF Plays, PlaysPart

LEMMA SrStep ==
    ASSUME NEW r \in Party, Plays(r), [SrNext]_srvars
    PROVE  Plays(r)'
<1>0. \A p \in Party : PlaysPart(call[p], p, r)
  BY DEF Plays
<1>1. call = [p \in Party |-> call[p]]
  BY DEF Plays
<1>2. \A p \in Party : Peer(p) \in Party
  BY DEF Party, Peer
<1>3. CASE UNCHANGED call
  BY <1>3 DEF Plays, PlaysPart
<1>4. CASE Answered
  <2>1. PICK d : d = apply_invite_2xx_session_timer(
                       handle_answer(set_negotiated_media(
                          populate(set_dialog(call["uac"], <<1>>, 0), "uac"), 0)),
                       SE, call["uac"].refresher)
    OBVIOUS
  <2>2. "uac" \in Party /\ PlaysPart(d, "uac", r)
    BY <1>0, <2>1, AnsweredPart DEF Party
  <2>3. call' = [call EXCEPT !["uac"] = d]
    BY <1>4, <2>1 DEF Answered
  <2> QED
    BY <1>0, <1>1, <2>2, <2>3, SrOneSide
<1>5. CASE Elapse
  <2>1. call' = [p \in Party |-> IF Live(p) THEN CallElapse(call[p]) ELSE call[p]]
    BY <1>5 DEF Elapse
  <2>2. \A p \in Party : PlaysPart(CallElapse(call[p]), p, r)
    BY <1>0, ElapseKeepsPart
  <2>3. call' = [p \in Party |-> call'[p]] /\ \A p \in Party : PlaysPart(call'[p], p, r)
    BY <1>0, <2>1, <2>2
  <2> QED
    BY <2>3 DEF Plays, PlaysPart
<1>6. ASSUME NEW p \in Party, Wake(p)
      PROVE  Plays(r)'
  <2>1. PICK t, n : t = CallTick(call[p]) /\ n = Numberless(t)
    OBVIOUS
  <2>2. PlaysPart(t, p, r)
    BY <1>0, <2>1, TickKeepsPart
  <2>3. PlaysPart(n, p, r)
    BY <2>1, <2>2, FlagsKeepPart
  <2>4. PlaysPart([n EXCEPT !.uac_in_flight = TRUE], p, r)
    BY <2>3, FlagsKeepPart
  <2>5. PICK d : /\ d = IF RefreshDue(call[p]) THEN [n EXCEPT !.uac_in_flight = TRUE] ELSE n
    OBVIOUS
  <2>6. call' = [call EXCEPT ![p] = d]
    BY <1>6, <2>1, <2>5 DEF Wake
  <2>7. PlaysPart(d, p, r)
    BY <2>3, <2>4, <2>5
  <2> QED
    BY <1>0, <1>1, <2>6, <2>7, SrOneSide
<1>7. ASSUME NEW p \in Party, Hold(p) \/ GiveUp(p)
      PROVE  Plays(r)'
  <2>1. PICK z : call' = [call EXCEPT ![p].uac_in_flight = z]
    BY <1>7 DEF Hold, GiveUp
  <2>2. PICK d : d = [call[p] EXCEPT !.uac_in_flight = z]
    OBVIOUS
  <2>3. call' = [call EXCEPT ![p] = d]
    BY <1>1, <2>1, <2>2
  <2>4. PlaysPart(d, p, r)
    BY <1>0, <2>2, FlagsKeepPart
  <2> QED
    BY <1>0, <1>1, <2>3, <2>4, SrOneSide
<1>8. ASSUME NEW p \in Party, Accept(p)
      PROVE  Plays(r)'
  <2>1. PICK q : q = Peer(p)
    OBVIOUS
  <2>2. q \in Party
    BY <1>2, <2>1
  <2>3. PICK d : d = IF req[p].kind = "SessionTimerUpdate"
                     THEN CallHandleUpdate(call[q], SE, MinSE) ELSE slide_deadlines(call[q])
    OBVIOUS
  <2>4. call' = [call EXCEPT ![q] = d]
    BY <1>8, <2>1, <2>3 DEF Accept
  <2>5. PlaysPart(d, q, r)
    BY <1>0, <2>2, <2>3, UpdateKeepsPart, SlideKeepsPart
  <2> QED
    BY <1>0, <1>1, <2>2, <2>4, <2>5, SrOneSide
<1>9. ASSUME NEW p \in Party, Complete(p)
      PROVE  Plays(r)'
  <2>1. PICK c : c = IF req[p].code = 200 THEN slide_deadlines(call[p]) ELSE call[p]
    OBVIOUS
  <2>2. PlaysPart(c, p, r)
    BY <1>0, <2>1, SlideKeepsPart
  <2>3. PICK w : w = (c.update_unsupported \/ req[p].code = 405)
    OBVIOUS
  <2>4. PICK d : d = [c EXCEPT !.uac_in_flight = FALSE, !.update_unsupported = w]
    OBVIOUS
  <2>5. call' = [call EXCEPT ![p] = d]
    BY <1>9, <2>1, <2>3, <2>4 DEF Complete
  <2>6. PlaysPart(d, p, r)
    BY <2>2, <2>4, FlagsKeepPart
  <2> QED
    BY <1>0, <1>1, <2>5, <2>6, SrOneSide
<1>10. ASSUME NEW p \in Party, ByeArrives(p), ~(UNCHANGED call)
       PROVE  Plays(r)'
  <2>1. call' = [call EXCEPT ![Peer(p)] = handle_ended(call[Peer(p)])]
    BY <1>10 DEF ByeArrives
  <2>2. PlaysPart(handle_ended(call[Peer(p)]), Peer(p), r)
    BY <1>0, <1>2, FlagsKeepPart
  <2> QED
    BY <1>0, <1>1, <1>2, <2>1, <2>2, SrOneSide
<1>11. ASSUME NEW p \in Party, Refuse(p) \/ Lose(p) \/ GoSilent(p)
       PROVE  UNCHANGED call
  BY <1>11 DEF Refuse, Lose, GoSilent
<1>12. UNCHANGED srvars => UNCHANGED call
  BY DEF srvars
<1> QED
  BY <1>3, <1>4, <1>5, <1>6, <1>7, <1>8, <1>9, <1>10, <1>11, <1>12 DEF SrNext

(* Two sides of an established call agree on who refreshes the session:    *)
(* one of them holds refresh_at alone and the other one expiry_at alone,   *)
(* through refreshes, holds that cross them, refusals, losses and silence, *)
(* for every interval and every delay.                                     *)
THEOREM RefresherAgreed == SrSpec => []OneRefresher
<1>1. SrInit => SrInv
  BY SrInitPlays DEF SrInv
<1>2. SrInv /\ [SrNext]_srvars => SrInv'
  BY SrStep DEF SrInv
<1>3. SrInv => OneRefresher
  <2> SUFFICES ASSUME SrInv, \A p \in Party : call[p].state = "Established"
               PROVE  \E p \in Party :
                        /\ call[p].refresh_at # Unset /\ call[p].expiry_at = Unset
                        /\ call[Peer(p)].expiry_at # Unset /\ call[Peer(p)].refresh_at = Unset
    BY DEF OneRefresher
  <2>1. PICK r \in Party : \A p \in Party : PlaysPart(call[p], p, r)
    BY DEF SrInv, Plays
  <2>2. Peer(r) \in Party /\ Peer(r) # r
    BY DEF Peer, Party
  <2> QED
    BY <2>1, <2>2 DEF PlaysPart
<1> QED
  BY <1>1, <1>2, <1>3, PTL DEF SrSpec

-----------------------------------------------------------------------------
(* SessionRefresh: the deadlines.  x is the time left to the peer of the   *)
(* refresher before it ends the call, y the time left to the next refresh, *)
(* q the request of the refresher and b the one of its peer.               *)

\* The request that follows one that timed out arrives within the interval:
\* Timer F is 32 s, an interval 90 s at least (Min-SE of RFC 4028).
RetryFits == TimerF + MaxDelay < SE

ReqRec == [ kind : {"none", "Hold", "SessionTimerUpdate", "SessionTimerReInvite"},
            at : {"none", "peer", "back", "lost"}, age : Nat, code : Nat ]

\* The next request of the refresher reaches its peer in time.
Covers(x, y, q) ==
    /\ q.at = "none" => x > y + MaxDelay
    /\ q.at = "peer" => x + q.age > MaxDelay
    /\ q.at = "back" /\ q.code # 200 => x > y + MaxDelay /\ x + q.age > 2 * MaxDelay
    /\ q.at = "lost" => x > y + MaxDelay /\ x + q.age > TimerF + MaxDelay

\* The peer's own request has been accepted, and the answer is there in time.
Arriving(x, b) == b.at = "back" /\ b.code = 200 /\ x + b.age > MaxDelay

InTime(y, x, q, b, fail) ==
    /\ y <= SE \div 2
    /\ q.at = "back" /\ q.code = 200 => x + q.age >= SE
    /\ ~fail => Covers(x, y, q) \/ Arriving(x, b)

\* An established call and its open request.
SideUp(c, q) ==
    /\ c.state = "Established" /\ c.dialog # NoDialog
    /\ q.at \in {"peer", "back"} => q.age <= MaxDelay
    /\ q.at = "lost" => q.age <= TimerF
    /\ q.at = "none" <=> ~InFlight(c)

Running(r) ==
    /\ answer200 = Unset /\ bye = {}
    /\ \A p \in Party : SideUp(call[p], req[p])
    /\ InTime(call[r].refresh_at, call[Peer(r)].expiry_at, req[r], req[Peer(r)], failed)

\* The 200 OK to the INVITE is under way.
Opening(r) ==
    /\ answer200 \in 0 .. MaxDelay /\ bye = {}
    /\ call["uac"].state # "Established" /\ ~InFlight(call["uac"])
    /\ SideUp(call["uas"], req["uas"])
    /\ \A p \in Party : req[p].at = "none"
    /\ r = "uas" => call["uas"].refresh_at = SE \div 2 - answer200
    /\ r = "uac" => call["uas"].expiry_at = SE - answer200

Over(r) == answer200 = Unset /\ call[Peer(r)].state # "Established"

Timely(r) ==
    /\ Plays(r)
    /\ req \in [Party -> ReqRec]
    /\ failed \in BOOLEAN
    /\ silent = {} => IF expired = {} THEN Opening(r) \/ Running(r) ELSE Over(r)

LEMMA PeerFacts ==
    /\ \A p \in Party : Peer(p) \in Party /\ Peer(p) # p /\ Peer(Peer(p)) = p
    /\ \A p \in Party : \A q \in Party : q = p \/ q = Peer(p)
    /\ "uac" \in Party /\ "uas" \in Party /\ Peer("uac") = "uas" /\ Peer("uas") = "uac"
BY DEF Party, Peer

\* The operations on the call of an established side.
LEMMA SlideUp ==
    ASSUME NEW c, NEW p, NEW r, PlaysPart(c, p, r), c.state = "Established",
           NEW d, d = slide_deadlines(c) \/ d = CallHandleUpdate(c, SE, MinSE)
    PROVE  /\ d.state = "Established" /\ d.dialog = c.dialog
           /\ InFlight(d) <=> InFlight(c)
           /\ r = p => d.refresh_at = SE \div 2
           /\ r # p => d.expiry_at = SE
<1>1. c = [f \in CallFields |-> c[f]] /\ c.session_expires = SE
  BY DEF PlaysPart
<1>2. [c EXCEPT !.session_expires = SE] = c
  BY <1>1 DEF CallFields
<1>3. CallHandleUpdate(c, SE, MinSE) = slide_deadlines(c)
  BY <1>2, IntervalFacts DEF CallHandleUpdate
<1>4. PICK x, y : /\ x = IF c.refresh_at = Unset THEN Unset ELSE SE \div 2
                  /\ y = IF c.expiry_at = Unset THEN Unset ELSE SE
  OBVIOUS
<1>5. d = [c EXCEPT !.refresh_at = x, !.expiry_at = y]
  BY <1>1, <1>3, <1>4, IntervalFacts DEF slide_deadlines
<1>6. (r = p => x = SE \div 2) /\ (r # p => y = SE)
  BY <1>4 DEF PlaysPart
<1> QED
  BY <1>1, <1>5, <1>6 DEF CallFields, InFlight

LEMMA ElapseUp ==
    ASSUME NEW c, NEW p, NEW r, PlaysPart(c, p, r),
           NEW d, d = CallElapse(c)
    PROVE  /\ d.state = c.state /\ d.dialog = c.dialog
           /\ InFlight(d) <=> InFlight(c)
           /\ d.refresh_at = Left(c.refresh_at) /\ d.expiry_at = Left(c.expiry_at)
<1>1. c = [f \in CallFields |-> c[f]]
  BY DEF PlaysPart
<1>2. d = [c EXCEPT !.refresh_at = Left(c.refresh_at), !.expiry_at = Left(c.expiry_at)]
  BY DEF CallElapse
<1> QED
  BY <1>1, <1>2 DEF CallFields, InFlight

\* tick when a refresh is due.
Refreshing(c) == [Numberless(CallTick(c)) EXCEPT !.uac_in_flight = TRUE]

LEMMA RefreshUp ==
    ASSUME NEW c, NEW p, NEW r, PlaysPart(c, p, r), RefreshDue(c),
           NEW d, d = Refreshing(c)
    PROVE  /\ r = p /\ c.refresh_at = 0 /\ ~InFlight(c)
           /\ ~ExpiryDue(c)
           /\ d.state = "Established" /\ d.dialog = c.dialog
           /\ InFlight(d) /\ d.refresh_at = SE \div 2
<1>1. /\ c = [f \in CallFields |-> c[f]] /\ c.session_expires = SE /\ r = p
      /\ c.expiry_at = Unset
  BY IntervalFacts DEF PlaysPart, RefreshDue
<1>2. PICK z : z = c.local_cseq + 1
  OBVIOUS
<1>3. PICK m : m = [c EXCEPT !.local_cseq = z, !.refresh_at = SE \div 2]
  OBVIOUS
<1>4. maybe_fire_refresh(c) = m
  BY <1>1, <1>2, <1>3 DEF maybe_fire_refresh
<1>5. m.expiry_at = Unset /\ m = [f \in CallFields |-> m[f]]
  BY <1>1, <1>3 DEF CallFields
<1>6. CallTick(c) = m
  BY <1>4, <1>5, IntervalFacts DEF CallTick, maybe_fire_expiry_bye, ExpiryDue
<1>7. d = [[m EXCEPT !.local_cseq = 0] EXCEPT !.uac_in_flight = TRUE]
  BY <1>6 DEF Numberless, Refreshing
<1>8. d.state = m.state /\ d.dialog = m.dialog /\ InFlight(d) /\ d.refresh_at = m.refresh_at
  BY <1>5, <1>7 DEF CallFields, InFlight
<1>9. m.state = c.state /\ m.dialog = c.dialog /\ m.refresh_at = SE \div 2
  BY <1>1, <1>3 DEF CallFields
<1> QED
  BY <1>1, <1>8, <1>9, IntervalFacts DEF RefreshDue, ExpiryDue, InFlight

\* tick when only the expiry is due.
LEMMA ExpiryUp ==
    ASSUME NEW c, NEW p, NEW r, PlaysPart(c, p, r), ExpiryDue(c),
           NEW d, d = Numberless(CallTick(c))
    PROVE  /\ r # p /\ ~RefreshDue(c) /\ d.state # "Established"
<1>1. c = [f \in CallFields |-> c[f]] /\ r # p /\ c.refresh_at = Unset
  BY IntervalFacts DEF PlaysPart, ExpiryDue
<1>2. ~RefreshDue(c)
  BY <1>1, IntervalFacts DEF RefreshDue
<1>3. maybe_fire_refresh(c) = c
  BY <1>2 DEF maybe_fire_refresh
<1>4. PICK z : z = c.local_cseq + 1
  OBVIOUS
<1>5. PICK m : m = [c EXCEPT !.local_cseq = z, !.expiry_at = Unset, !.state = "Terminating"]
  OBVIOUS
<1>6. CallTick(c) = m
  BY <1>3, <1>4, <1>5 DEF CallTick, maybe_fire_expiry_bye
<1>7. m = [f \in CallFields |-> m[f]] /\ m.state = "Terminating"
  BY <1>1, <1>5 DEF CallFields
<1>8. d.state = m.state
  BY <1>6, <1>7 DEF Numberless, CallFields
<1> QED
  BY <1>1, <1>2, <1>7, <1>8

LEMMA TimeFacts ==
    /\ SE \in Nat /\ SE \div 2 \in Nat /\ SE = 2 * (SE \div 2)
    /\ MaxDelay \in Nat /\ TimerF \in Nat /\ 0 < MaxDelay
    /\ 2 * MaxDelay < SE \div 2 /\ 2 * MaxDelay <= TimerF
BY RefreshAssumption

\* A slide of the peer's deadline leaves time for everything the refresher may
\* be doing.
LEMMA JustSlid ==
    ASSUME RetryFits, NEW y \in Nat, y <= SE \div 2, NEW q \in ReqRec, NEW b \in ReqRec,
           NEW fail
    PROVE  InTime(y, SE, q, b, fail)
<1>1. q.age \in Nat
  BY DEF ReqRec
<1>2. PICK h \in Nat : h = SE \div 2
  BY TimeFacts
<1>3. Covers(SE, y, q)
  BY <1>1, <1>2, TimeFacts DEF Covers, RetryFits
<1>4. SE + q.age >= SE
  BY <1>1, TimeFacts
<1> QED
  BY <1>3, <1>4 DEF InTime

\* The answer to a refresh is back at the refresher.
LEMMA Refreshed ==
    ASSUME NEW x \in Nat, NEW q \in ReqRec, q.age <= MaxDelay, x + q.age >= SE,
           NEW b, NEW none \in ReqRec, none.at = "none", NEW fail
    PROVE  InTime(SE \div 2, x, none, b, fail)
<1>1. q.age \in Nat
  BY DEF ReqRec
<1>2. PICK h \in Nat : h = SE \div 2
  BY TimeFacts
<1>3. Covers(x, h, none)
  BY <1>1, <1>2, TimeFacts DEF Covers
<1> QED
  BY <1>2, <1>3, TimeFacts DEF InTime

\* The refresher sends a request.
LEMMA Sent ==
    ASSUME NEW x \in Nat, NEW y \in Nat, NEW q \in ReqRec, NEW b, NEW fail,
           InTime(y, x, q, b, fail), q.at = "none",
           NEW z \in Nat, z <= SE \div 2, NEW v \in ReqRec, v.at = "peer", v.age = 0
    PROVE  InTime(z, x, v, b, fail)
<1>1. Covers(x, y, q) => Covers(x, z, v)
  BY TimeFacts DEF Covers
<1> QED
  BY <1>1 DEF InTime

\* The peer's request does not matter until it has been accepted, and then
\* its answer comes in time.
LEMMA PeerFree ==
    ASSUME NEW x, NEW y, NEW q, NEW b, NEW fail, InTime(y, x, q, b, fail),
           b.at # "back" \/ b.code # 200, NEW v
    PROVE  InTime(y, x, q, v, fail)
BY DEF InTime, Arriving

LEMMA PeerAccepted ==
    ASSUME NEW x \in Nat, NEW y \in Nat, NEW q \in ReqRec, NEW b, NEW fail,
           InTime(y, x, q, b, fail), b.at = "peer",
           NEW v \in ReqRec, v.at = "back", v.code = 200, v.age = 0
    PROVE  InTime(SE \div 2, x, q, v, fail)
<1>1. q.age \in Nat /\ q.at \in {"none", "peer", "back", "lost"}
  BY DEF ReqRec
<1>2. PICK h \in Nat : h = SE \div 2
  BY TimeFacts
<1>3. ASSUME Covers(x, y, q) PROVE Covers(x, h, q) \/ Arriving(x, v)
  BY <1>1, <1>2, <1>3, TimeFacts DEF Covers, Arriving
<1>4. ~fail => Covers(x, y, q)
  BY DEF InTime, Arriving
<1>5. q.at = "back" /\ q.code = 200 => x + q.age >= SE
  BY DEF InTime
<1>6. SE \div 2 <= SE \div 2
  BY TimeFacts
<1> QED
  BY <1>2, <1>3, <1>4, <1>5, <1>6 DEF InTime

\* After a failure nothing is claimed until the next success.
LEMMA Failing ==
    ASSUME NEW x, NEW y, NEW q, NEW b, NEW fail, InTime(y, x, q, b, fail),
           NEW v, v = q \/ v.at = "lost" \/ v.code # 200, NEW w
    PROVE  InTime(y, x, v, w, TRUE)
BY DEF InTime

\* The request of the refresher has ended without success.
LEMMA EndedWithout ==
    ASSUME NEW x \in Nat, NEW y \in Nat, NEW q \in ReqRec, NEW b, NEW fail,
           InTime(y, x, q, b, fail),
           q.at = "lost" \/ (q.at = "back" /\ q.code # 200),
           NEW v, v.at = "none"
    PROVE  InTime(y, x, v, b, fail)
BY DEF InTime, Covers

\* Time passes: nothing is due, so what is left shrinks together.
LEMMA TimePasses ==
    ASSUME RetryFits, NEW x \in Nat, NEW y \in Nat, NEW q \in ReqRec, NEW b \in ReqRec,
           NEW fail, InTime(y, x, q, b, fail),
           x # 0, q.at = "none" => y # 0,
           q.at \in {"peer", "back"} => q.age < MaxDelay,
           b.at \in {"peer", "back"} => b.age < MaxDelay,
           q.at = "lost" => q.age < TimerF,
           NEW v \in ReqRec, v.at = q.at, v.code = q.code,
           q.at # "none" => v.age = q.age + 1,
           NEW w \in ReqRec, w.at = b.at, w.code = b.code,
           b.at # "none" => w.age = b.age + 1
    PROVE  InTime(Left(y), Left(x), v, w, fail)
<1>1. q.age \in Nat /\ b.age \in Nat /\ v.age \in Nat /\ w.age \in Nat
  BY DEF ReqRec
<1>2. Left(x) = x - 1 /\ (y # 0 => Left(y) = y - 1) /\ (y = 0 => Left(y) = y) /\ Left(y) \in Nat
  BY DEF Left
<1>3. PICK X, Y : X = Left(x) /\ Y = Left(y)
  OBVIOUS
<1>4. Covers(x, y, q) => Covers(X, Y, v)
  BY <1>1, <1>2, <1>3, TimeFacts DEF Covers
<1>5. Arriving(x, b) => Arriving(X, w)
  BY <1>1, <1>2, <1>3, TimeFacts DEF Arriving
<1>6. q.at = "back" /\ q.code = 200 /\ x + q.age >= SE => X + v.age >= SE
  BY <1>1, <1>2, <1>3, TimeFacts
<1>7. y <= SE \div 2 => Y <= SE \div 2
  BY <1>2, <1>3, TimeFacts
<1> QED
  BY <1>3, <1>4, <1>5, <1>6, <1>7 DEF InTime

\* One side's call and request are replaced.
LEMMA CallMoved ==
    ASSUME NEW r, Plays(r), NEW p \in Party, NEW d, call' = [call EXCEPT ![p] = d]
    PROVE  call'[p] = d /\ call'[Peer(p)] = call[Peer(p)]
BY PeerFacts DEF Plays

LEMMA ReqMoved ==
    ASSUME req \in [Party -> ReqRec], NEW p \in Party, NEW v \in ReqRec,
           req' = [req EXCEPT ![p] = v]
    PROVE  req'[p] = v /\ req'[Peer(p)] = req[Peer(p)] /\ req' \in [Party -> ReqRec]
BY PeerFacts

\* What AnswerBack and Lose write.
LEMMA ReqRewritten ==
    ASSUME req \in [Party -> ReqRec], NEW p \in Party, NEW code \in Nat, AnswerBack(p, code)
    PROVE  \E v \in ReqRec : /\ req' = [req EXCEPT ![p] = v]
                             /\ v.at = "back" /\ v.age = 0 /\ v.code = code
<1>1. PICK o, v : o = req[p] /\ v = [o EXCEPT !.at = "back", !.age = 0, !.code = code]
  OBVIOUS
<1>2. o \in ReqRec
  BY <1>1
<1>3. v \in ReqRec /\ v.at = "back" /\ v.age = 0 /\ v.code = code
  BY <1>1, <1>2 DEF ReqRec
<1>4. req' = [req EXCEPT ![p] = v]
  BY <1>1 DEF AnswerBack
<1> QED
  BY <1>3, <1>4

LEMMA ReqLost ==
    ASSUME req \in [Party -> ReqRec], NEW p \in Party,
           req' = [req EXCEPT ![p].at = "lost", ![p].age = 0]
    PROVE  \E v \in ReqRec : /\ req' = [req EXCEPT ![p] = v]
                             /\ v.at = "lost" /\ v.age = 0
<1>1. PICK o, v : o = req[p] /\ v = [o EXCEPT !.at = "lost", !.age = 0]
  OBVIOUS
<1>2. o \in ReqRec
  BY <1>1
<1>3. v \in ReqRec /\ v.at = "lost" /\ v.age = 0
  BY <1>1, <1>2 DEF ReqRec
<1>4. req' = [req EXCEPT ![p] = v]
  BY <1>1
<1> QED
  BY <1>3, <1>4

LEMMA IdleFacts == Idle \in ReqRec /\ Idle.at = "none"
BY DEF Idle, ReqRec

\* An established call in time, with the facts its steps need.
LEMMA RunningFacts ==
    ASSUME NEW r \in Party, Timely(r), Running(r)
    PROVE  /\ \A p \in Party : /\ PlaysPart(call[p], p, r) /\ SideUp(call[p], req[p])
                               /\ req[p] \in ReqRec
           /\ call[r].refresh_at \in Nat /\ call[Peer(r)].expiry_at \in Nat
           /\ InTime(call[r].refresh_at, call[Peer(r)].expiry_at, req[r], req[Peer(r)], failed)
           /\ call[r].refresh_at <= SE \div 2
<1>1. \A p \in Party : /\ PlaysPart(call[p], p, r) /\ SideUp(call[p], req[p])
                       /\ req[p] \in ReqRec
  BY DEF Timely, Running, Plays
<1>2. call[r].refresh_at \in Nat /\ call[Peer(r)].expiry_at \in Nat
  <2>1. call[r].refresh_at \in Deadlines /\ call[r].refresh_at # Unset
    BY <1>1 DEF PlaysPart, SideUp
  <2>2. /\ PlaysPart(call[Peer(r)], Peer(r), r) /\ SideUp(call[Peer(r)], req[Peer(r)])
        /\ Peer(r) # r
    BY <1>1, PeerFacts
  <2>3. call[Peer(r)].expiry_at \in Deadlines /\ call[Peer(r)].expiry_at # Unset
    BY <2>2 DEF PlaysPart, SideUp
  <2> QED
    BY <2>1, <2>3 DEF Deadlines
<1> QED
  BY <1>1, <1>2 DEF Running, InTime

LEMMA RunningTime ==
    ASSUME RetryFits, NEW r \in Party, Timely(r), Running(r), silent = {}, Elapse
    PROVE  req' \in [Party -> ReqRec] /\ Running(r)'
<1>1. PICK e : e = Peer(r)
  OBVIOUS
<1>2. e \in Party /\ e # r /\ Peer(e) = r /\ \A q \in Party : q = r \/ q = e
  BY <1>1, PeerFacts
<1>3. /\ \A p \in Party : /\ PlaysPart(call[p], p, r) /\ SideUp(call[p], req[p])
                          /\ req[p] \in ReqRec
      /\ call[r].refresh_at \in Nat /\ call[e].expiry_at \in Nat
      /\ InTime(call[r].refresh_at, call[e].expiry_at, req[r], req[e], failed)
  BY <1>1, RunningFacts
<1>4. \A p \in Party : Live(p)
  BY DEF Live
<1>5. ~Urgent
  BY DEF Elapse
<1>6. \A p \in Party : /\ ~RefreshDue(call[p]) /\ ~ExpiryDue(call[p])
                       /\ req[p].at \in {"peer", "back"} => req[p].age # MaxDelay
                       /\ req[p].at = "lost" => req[p].age # TimerF
  BY <1>4, <1>5 DEF Urgent
<1>7. \A p \in Party : call'[p] = CallElapse(call[p])
  BY <1>4 DEF Elapse
<1>8. \A p \in Party : /\ call'[p].state = call[p].state /\ call'[p].dialog = call[p].dialog
                       /\ InFlight(call'[p]) <=> InFlight(call[p])
                       /\ call'[p].refresh_at = Left(call[p].refresh_at)
                       /\ call'[p].expiry_at = Left(call[p].expiry_at)
  BY <1>3, <1>7, ElapseUp
<1>9. ASSUME NEW p \in Party
      PROVE  /\ req[p].at \in {"peer", "back"} => req[p].age < MaxDelay
             /\ req[p].at = "lost" => req[p].age < TimerF
             /\ req'[p] \in ReqRec /\ req'[p].at = req[p].at /\ req'[p].code = req[p].code
             /\ req[p].at # "none" => req'[p].age = req[p].age + 1
  <2>1. req[p] \in ReqRec /\ SideUp(call[p], req[p])
    BY <1>3
  <2>2. req[p].age \in Nat /\ req[p].at \in {"none", "peer", "back", "lost"}
    BY <2>1 DEF ReqRec
  <2>3. /\ req[p].at \in {"peer", "back"} => req[p].age < MaxDelay
        /\ req[p].at = "lost" => req[p].age < TimerF
    BY <1>6, <2>1, <2>2, TimeFacts DEF SideUp
  <2>4. req'[p] = IF req[p].at = "none" THEN req[p]
                  ELSE [req[p] EXCEPT !.age = Older(req[p].age, TimerF)]
    BY DEF Elapse
  <2>5. CASE req[p].at = "none"
    BY <2>1, <2>3, <2>4, <2>5
  <2>6. CASE req[p].at # "none"
    <3>1. Older(req[p].age, TimerF) = req[p].age + 1
      BY <2>2, <2>3, <2>6, TimeFacts DEF Older
    <3>2. PICK a \in Nat : a = req[p].age + 1
      BY <2>2
    <3>3. req'[p] = [req[p] EXCEPT !.age = a]
      BY <2>4, <2>6, <3>1, <3>2
    <3>4. req'[p] \in ReqRec /\ req'[p].at = req[p].at /\ req'[p].code = req[p].code
          /\ req'[p].age = a
      BY <2>1, <3>3 DEF ReqRec
    <3> QED
      BY <2>3, <3>2, <3>4
  <2> QED
    BY <2>5, <2>6
<1>10. req' = [p \in Party |-> req'[p]]
  BY DEF Elapse
<1>11. req' \in [Party -> ReqRec]
  BY <1>9, <1>10
<1>12. ASSUME NEW p \in Party PROVE SideUp(call'[p], req'[p])
  <2>1. SideUp(call[p], req[p]) /\ req[p].age \in Nat
    BY <1>3 DEF ReqRec
  <2> QED
    BY <1>8, <1>9, <2>1, TimeFacts DEF SideUp
<1>13. call[e].expiry_at # 0 /\ (req[r].at = "none" => call[r].refresh_at # 0)
  <2>1. SideUp(call[e], req[e]) /\ SideUp(call[r], req[r])
    BY <1>2, <1>3
  <2>2. call[r].session_expires # Unset
    BY <1>3, <2>1, IntervalFacts DEF PlaysPart, SideUp
  <2> QED
    BY <1>2, <1>6, <2>1, <2>2 DEF SideUp, RefreshDue, ExpiryDue, InFlight
<1>14. InTime(Left(call[r].refresh_at), Left(call[e].expiry_at), req'[r], req'[e], failed)
  <2>1. PICK x, y, q, b, v, w : /\ x = call[e].expiry_at /\ y = call[r].refresh_at
                                /\ q = req[r] /\ b = req[e] /\ v = req'[r] /\ w = req'[e]
    OBVIOUS
  <2>2. /\ x \in Nat /\ y \in Nat /\ q \in ReqRec /\ b \in ReqRec /\ v \in ReqRec /\ w \in ReqRec
        /\ InTime(y, x, q, b, failed)
        /\ x # 0 /\ (q.at = "none" => y # 0)
    BY <1>2, <1>3, <1>9, <1>13, <2>1
  <2>3. /\ q.at \in {"peer", "back"} => q.age < MaxDelay
        /\ q.at = "lost" => q.age < TimerF
        /\ v.at = q.at /\ v.code = q.code /\ (q.at # "none" => v.age = q.age + 1)
    BY <1>9, <2>1
  <2>4. /\ b.at \in {"peer", "back"} => b.age < MaxDelay
        /\ w.at = b.at /\ w.code = b.code /\ (b.at # "none" => w.age = b.age + 1)
    BY <1>2, <1>9, <2>1
  <2>5. InTime(Left(y), Left(x), v, w, failed)
    BY <2>2, <2>3, <2>4, TimePasses
  <2> QED
    BY <2>1, <2>5
<1>15. answer200' = Unset /\ bye' = {} /\ failed' = failed
  BY DEF Elapse, Running
<1>16. InTime(call'[r].refresh_at, call'[e].expiry_at, req'[r], req'[e], failed')
  BY <1>2, <1>8, <1>14, <1>15
<1> QED
  BY <1>1, <1>11, <1>12, <1>15, <1>16 DEF Running

LEMMA RunningNext ==
    ASSUME NEW r \in Party, Running(r), answer200' = answer200, bye' = bye,
           NEW p \in Party, SideUp(call'[p], req'[p]), SideUp(call'[Peer(p)], req'[Peer(p)]),
           InTime(call'[r].refresh_at, call'[Peer(r)].expiry_at, req'[r], req'[Peer(r)], failed')
    PROVE  Running(r)'
BY PeerFacts DEF Running

\* A request v of side p is sent: by tick, or by the application.
SendsOff(p, r, d, v) ==
    /\ v \in ReqRec /\ v.at = "peer" /\ v.age = 0
    /\ call' = [call EXCEPT ![p] = d] /\ req' = [req EXCEPT ![p] = v] /\ bye' = bye
    /\ d.state = "Established" /\ d.dialog = call[p].dialog /\ InFlight(d)
    /\ ~InFlight(call[p])
    /\ r = p => d.refresh_at \in {call[p].refresh_at, SE \div 2}
    /\ r # p => d.expiry_at = call[p].expiry_at

LEMMA RunningSends ==
    ASSUME NEW r \in Party, Timely(r), Running(r), NEW p \in Party,
           Hold(p) \/ (Wake(p) /\ RefreshDue(call[p]))
    PROVE  Running(r)'
<1>1. PICK q : q = Peer(p)
  OBVIOUS
<1>2. q \in Party /\ q # p /\ Peer(q) = p /\ (r = p \/ r = q)
  BY <1>1, PeerFacts
<1>3. /\ \A s \in Party : /\ PlaysPart(call[s], s, r) /\ SideUp(call[s], req[s])
                          /\ req[s] \in ReqRec
      /\ call[r].refresh_at \in Nat /\ call[Peer(r)].expiry_at \in Nat
      /\ InTime(call[r].refresh_at, call[Peer(r)].expiry_at, req[r], req[Peer(r)], failed)
      /\ call[r].refresh_at <= SE \div 2
  BY RunningFacts
<1>4. PICK d, v : SendsOff(p, r, d, v)
  <2>1. CASE Hold(p)
    <3>1. PICK c : c = call[p]
      OBVIOUS
    <3>2. c = [f \in CallFields |-> c[f]] /\ c.state = "Established"
      BY <1>3, <3>1 DEF PlaysPart, SideUp
    <3>3. PICK d : d = [c EXCEPT !.uac_in_flight = TRUE]
      OBVIOUS
    <3>4. /\ d.state = c.state /\ d.dialog = c.dialog /\ InFlight(d)
          /\ d.refresh_at = c.refresh_at /\ d.expiry_at = c.expiry_at
      BY <3>2, <3>3 DEF CallFields, InFlight
    <3>5. PICK v : v = [kind |-> "Hold", at |-> "peer", age |-> 0, code |-> 0]
      OBVIOUS
    <3>6. v \in ReqRec /\ v.at = "peer" /\ v.age = 0
      BY <3>5 DEF ReqRec
    <3>7. /\ call' = [call EXCEPT ![p] = d] /\ req' = [req EXCEPT ![p] = v]
          /\ ~InFlight(call[p]) /\ bye' = bye
      BY <2>1, <3>1, <3>3, <3>5 DEF Hold, InFlight
    <3>8. SendsOff(p, r, d, v)
      BY <3>1, <3>2, <3>4, <3>6, <3>7 DEF SendsOff
    <3> QED
      BY <3>8
  <2>2. CASE Wake(p) /\ RefreshDue(call[p])
    <3>1. PICK c : c = call[p]
      OBVIOUS
    <3>2. PICK d : d = Refreshing(c)
      OBVIOUS
    <3>3. PlaysPart(c, p, r) /\ RefreshDue(c)
      BY <1>3, <2>2, <3>1
    <3>4. /\ r = p /\ ~InFlight(c) /\ ~ExpiryDue(c)
          /\ d.state = "Established" /\ d.dialog = c.dialog
          /\ InFlight(d) /\ d.refresh_at = SE \div 2
      BY <3>2, <3>3, RefreshUp
    <3>5. PICK v : v = [kind |-> RefreshKind(c), at |-> "peer", age |-> 0, code |-> 0]
      OBVIOUS
    <3>6. v \in ReqRec /\ v.at = "peer" /\ v.age = 0
      BY <3>5 DEF ReqRec, RefreshKind
    <3>7. call' = [call EXCEPT ![p] = d] /\ req' = [req EXCEPT ![p] = v] /\ bye' = bye
      BY <2>2, <3>1, <3>2, <3>4, <3>5 DEF Wake, Refreshing
    <3>8. SendsOff(p, r, d, v)
      BY <3>1, <3>4, <3>6, <3>7 DEF SendsOff
    <3> QED
      BY <3>8
  <2> QED
    BY <2>1, <2>2
<1>4a. /\ v \in ReqRec /\ v.at = "peer" /\ v.age = 0
       /\ call' = [call EXCEPT ![p] = d] /\ req' = [req EXCEPT ![p] = v] /\ bye' = bye
  BY <1>4 DEF SendsOff
<1>4b. /\ d.state = "Established" /\ d.dialog = call[p].dialog /\ InFlight(d)
       /\ ~InFlight(call[p])
       /\ r = p => d.refresh_at \in {call[p].refresh_at, SE \div 2}
       /\ r # p => d.expiry_at = call[p].expiry_at
  BY <1>4 DEF SendsOff
<1>5. call'[p] = d /\ call'[q] = call[q] /\ req'[p] = v /\ req'[q] = req[q]
  <2>1. Plays(r) /\ req \in [Party -> ReqRec]
    BY DEF Timely
  <2>2. call'[p] = d /\ call'[q] = call[q]
    BY <1>1, <1>4a, <1>4b, <2>1, CallMoved
  <2>3. req'[p] = v /\ req'[q] = req[q]
    BY <1>1, <1>4a, <1>4b, <2>1, ReqMoved
  <2> QED
    BY <2>2, <2>3
<1>6. answer200' = answer200 /\ failed' = failed
  BY DEF Hold, Wake
<1>7. SideUp(call[p], req[p]) /\ SideUp(call[q], req[q]) /\ req[p].at = "none"
  BY <1>2, <1>3, <1>4a, <1>4b DEF SideUp
<1>8. SideUp(d, v)
  BY <1>4a, <1>4b, <1>7, TimeFacts DEF SideUp
<1>9. InTime(call'[r].refresh_at, call'[Peer(r)].expiry_at, req'[r], req'[Peer(r)], failed)
  <2>1. CASE r = p
    <3>1. d.refresh_at \in Nat /\ d.refresh_at <= SE \div 2
      BY <1>3, <1>4a, <1>4b, <2>1, TimeFacts
    <3>2. /\ InTime(call[p].refresh_at, call[q].expiry_at, req[p], req[q], failed)
          /\ call[p].refresh_at \in Nat /\ call[q].expiry_at \in Nat /\ req[p] \in ReqRec
      BY <1>1, <1>3, <2>1
    <3>3. InTime(d.refresh_at, call[q].expiry_at, v, req[q], failed)
      BY <1>4a, <1>4b, <1>7, <3>1, <3>2, Sent
    <3> QED
      BY <1>1, <1>5, <2>1, <3>3
  <2>2. CASE r = q
    <3>1. InTime(call[q].refresh_at, call[p].expiry_at, req[q], req[p], failed)
      BY <1>2, <1>3, <2>2
    <3>2. InTime(call[q].refresh_at, call[p].expiry_at, req[q], v, failed)
      BY <1>7, <3>1, PeerFree
    <3> QED
      BY <1>2, <1>4a, <1>4b, <1>5, <2>2, <3>2
  <2> QED
    BY <1>2, <2>1, <2>2
<1> QED
  BY <1>1, <1>5, <1>6, <1>7, <1>8, <1>9, <1>4a, <1>4b, RunningNext

\* A request is accepted by the peer.
LEMMA RunningAccepts ==
    ASSUME RetryFits, NEW r \in Party, Timely(r), Running(r), NEW p \in Party, Accept(p)
    PROVE  Running(r)'
<1>1. PICK q : q = Peer(p)
  OBVIOUS
<1>2. q \in Party /\ q # p /\ Peer(q) = p /\ (r = p \/ r = q)
  BY <1>1, PeerFacts
<1>3. /\ \A s \in Party : /\ PlaysPart(call[s], s, r) /\ SideUp(call[s], req[s])
                          /\ req[s] \in ReqRec
      /\ call[r].refresh_at \in Nat /\ call[Peer(r)].expiry_at \in Nat
      /\ InTime(call[r].refresh_at, call[Peer(r)].expiry_at, req[r], req[Peer(r)], failed)
      /\ call[r].refresh_at <= SE \div 2
  BY RunningFacts
<1>4. PICK v \in ReqRec : /\ req' = [req EXCEPT ![p] = v]
                          /\ v.at = "back" /\ v.age = 0 /\ v.code = 200
  <2>1. AnswerBack(p, 200) /\ req \in [Party -> ReqRec] /\ 200 \in Nat
    BY DEF Accept, Timely
  <2> QED
    BY <2>1, ReqRewritten
<1>5. PICK d : d = IF req[p].kind = "SessionTimerUpdate"
                   THEN CallHandleUpdate(call[q], SE, MinSE) ELSE slide_deadlines(call[q])
  OBVIOUS
<1>6. call' = [call EXCEPT ![q] = d]
  BY <1>1, <1>5 DEF Accept
<1>7. /\ call'[q] = d /\ call'[p] = call[p] /\ req'[p] = v /\ req'[q] = req[q]
      /\ answer200' = answer200 /\ failed' = failed /\ bye' = bye /\ req[p].at = "peer"
  <2>1. Plays(r) /\ req \in [Party -> ReqRec]
    BY DEF Timely
  <2>2. call'[q] = d /\ call'[p] = call[p]
    BY <1>2, <1>6, <2>1, CallMoved
  <2>3. v \in ReqRec /\ req' = [req EXCEPT ![p] = v]
    BY <1>4
  <2>4. req'[p] = v /\ req'[Peer(p)] = req[Peer(p)]
    BY <2>1, <2>3, ReqMoved
  <2> QED
    BY <1>1, <2>2, <2>4 DEF Accept
<1>8. SideUp(call[p], req[p]) /\ SideUp(call[q], req[q])
  BY <1>2, <1>3
<1>9. /\ d.state = "Established" /\ d.dialog = call[q].dialog
      /\ InFlight(d) <=> InFlight(call[q])
      /\ r = q => d.refresh_at = SE \div 2
      /\ r # q => d.expiry_at = SE
  <2>1. PlaysPart(call[q], q, r) /\ call[q].state = "Established"
    BY <1>2, <1>3, <1>8 DEF SideUp
  <2> QED
    BY <1>5, <2>1, SlideUp
<1>10. SideUp(d, req[q])
  BY <1>8, <1>9 DEF SideUp
<1>11. SideUp(call[p], v)
  BY <1>4, <1>7, <1>8, TimeFacts DEF SideUp
<1>12. InTime(call'[r].refresh_at, call'[Peer(r)].expiry_at, req'[r], req'[Peer(r)], failed)
  <2>1. CASE r = p
    <3>1. InTime(call[p].refresh_at, SE, v, req[q], failed)
      BY <1>2, <1>3, <1>4, <2>1, JustSlid
    <3> QED
      BY <1>1, <1>2, <1>7, <1>9, <2>1, <3>1
  <2>2. CASE r = q
    <3>1. /\ InTime(call[q].refresh_at, call[p].expiry_at, req[q], req[p], failed)
          /\ call[q].refresh_at \in Nat /\ call[p].expiry_at \in Nat /\ req[q] \in ReqRec
      BY <1>2, <1>3, <2>2
    <3>2. InTime(SE \div 2, call[p].expiry_at, req[q], v, failed)
      BY <1>4, <1>7, <3>1, PeerAccepted
    <3> QED
      BY <1>2, <1>7, <1>9, <2>2, <3>2
  <2> QED
    BY <1>2, <2>1, <2>2
<1> QED
  BY <1>1, <1>2, <1>7, <1>10, <1>11, <1>12, RunningNext

\* A request is refused or lost.
LEMMA RunningFails ==
    ASSUME NEW r \in Party, Timely(r), Running(r), NEW p \in Party, Refuse(p) \/ Lose(p)
    PROVE  Running(r)'
<1>1. PICK q : q = Peer(p)
  OBVIOUS
<1>2. q \in Party /\ q # p /\ Peer(q) = p /\ (r = p \/ r = q)
  BY <1>1, PeerFacts
<1>3. /\ \A s \in Party : /\ PlaysPart(call[s], s, r) /\ SideUp(call[s], req[s])
                          /\ req[s] \in ReqRec
      /\ call[r].refresh_at \in Nat /\ call[Peer(r)].expiry_at \in Nat
      /\ InTime(call[r].refresh_at, call[Peer(r)].expiry_at, req[r], req[Peer(r)], failed)
      /\ call[r].refresh_at <= SE \div 2
  BY RunningFacts
<1>4. Plays(r) /\ req \in [Party -> ReqRec]
  BY DEF Timely
<1>5. SideUp(call[p], req[p]) /\ SideUp(call[q], req[q])
  BY <1>2, <1>3
<1>6. PICK v : /\ v \in ReqRec /\ req' = [req EXCEPT ![p] = v] /\ v.age = 0
               /\ v.at = "lost" \/ (v.at = "back" /\ v.code # 200)
  <2>1. ASSUME NEW code \in Nat, code # 200, AnswerBack(p, code)
        PROVE  \E v : /\ v \in ReqRec /\ req' = [req EXCEPT ![p] = v] /\ v.age = 0
                      /\ v.at = "lost" \/ (v.at = "back" /\ v.code # 200)
    <3>1. PICK v \in ReqRec : /\ req' = [req EXCEPT ![p] = v]
                              /\ v.at = "back" /\ v.age = 0 /\ v.code = code
      BY <1>4, <2>1, ReqRewritten
    <3> QED
      BY <2>1, <3>1
  <2>2. CASE Refuse(p)
    <3>1. \E code \in Nat : code # 200 /\ AnswerBack(p, code)
      <4>1. AnswerBack(p, 405) \/ AnswerBack(p, 481) \/ AnswerBack(p, 491)
        BY <2>2 DEF Refuse
      <4>2. /\ 405 \in Nat /\ 481 \in Nat /\ 491 \in Nat
            /\ 405 # 200 /\ 481 # 200 /\ 491 # 200
        OBVIOUS
      <4> QED
        BY <4>1, <4>2
    <3> QED
      BY <2>1, <3>1
  <2>3. CASE Lose(p)
    <3>1. req' = [req EXCEPT ![p].at = "lost", ![p].age = 0]
      BY <2>3 DEF Lose
    <3>2. PICK v \in ReqRec : req' = [req EXCEPT ![p] = v] /\ v.at = "lost" /\ v.age = 0
      BY <1>4, <3>1, ReqLost
    <3> QED
      BY <3>2
  <2> QED
    BY <2>2, <2>3
<1>7. req'[p] = v /\ req'[Peer(p)] = req[Peer(p)]
  <2>1. v \in ReqRec /\ req' = [req EXCEPT ![p] = v]
    BY <1>6
  <2> QED
    BY <1>4, <2>1, ReqMoved
<1>8. /\ call' = call /\ answer200' = answer200 /\ bye' = bye /\ failed' = TRUE
      /\ req[p].at \in {"peer", "back"}
  BY DEF Refuse, Lose, Fail
<1>9. SideUp(call[p], v)
  BY <1>5, <1>6, <1>8, TimeFacts DEF SideUp
<1>10. InTime(call[r].refresh_at, call[Peer(r)].expiry_at, req'[r], req'[Peer(r)], TRUE)
  <2>1. req'[r] = req[r] \/ req'[r].at = "lost" \/ req'[r].code # 200
    BY <1>1, <1>2, <1>6, <1>7
  <2> QED
    BY <1>3, <2>1, Failing
<1> QED
  BY <1>1, <1>5, <1>7, <1>8, <1>9, <1>10, RunningNext

\* The request of side p ends, with success or not.
Closes(p, r, good, d) ==
    /\ call' = [call EXCEPT ![p] = d]
    /\ d.state = "Established" /\ d.dialog = call[p].dialog /\ ~InFlight(d)
    /\ good /\ r = p => d.refresh_at = SE \div 2
    /\ good /\ r # p => d.expiry_at = SE
    /\ ~good => d.refresh_at = call[p].refresh_at /\ d.expiry_at = call[p].expiry_at

\* The answer to a request is back, or its transaction gives up.
LEMMA RunningEnds ==
    ASSUME RetryFits, NEW r \in Party, Timely(r), Running(r), NEW p \in Party,
           Complete(p) \/ GiveUp(p)
    PROVE  Running(r)'
<1>1. PICK q : q = Peer(p)
  OBVIOUS
<1>2. q \in Party /\ q # p /\ Peer(q) = p /\ (r = p \/ r = q)
  BY <1>1, PeerFacts
<1>3. /\ \A s \in Party : /\ PlaysPart(call[s], s, r) /\ SideUp(call[s], req[s])
                          /\ req[s] \in ReqRec
      /\ call[r].refresh_at \in Nat /\ call[Peer(r)].expiry_at \in Nat
      /\ InTime(call[r].refresh_at, call[Peer(r)].expiry_at, req[r], req[Peer(r)], failed)
      /\ call[r].refresh_at <= SE \div 2
  BY RunningFacts
<1>4. Plays(r) /\ req \in [Party -> ReqRec]
  BY DEF Timely
<1>5. SideUp(call[p], req[p]) /\ SideUp(call[q], req[q])
  BY <1>2, <1>3
<1>6. PICK good : /\ good \in BOOLEAN
                  /\ good <=> (Complete(p) /\ req[p].code = 200)
  <2>1. (Complete(p) /\ req[p].code = 200) \in BOOLEAN
    OBVIOUS
  <2> QED
    OBVIOUS
<1>7. /\ req' = [req EXCEPT ![p] = Idle] /\ answer200' = answer200 /\ bye' = bye
      /\ req[p].at = "back" \/ req[p].at = "lost"
      /\ good => req[p].at = "back" /\ req[p].code = 200
      /\ ~good => req[p].at = "lost" \/ (req[p].at = "back" /\ req[p].code # 200)
  BY <1>6 DEF Complete, GiveUp
<1>8. req'[p] = Idle /\ req'[q] = req[q]
  BY <1>1, <1>4, <1>7, ReqMoved, IdleFacts
<1>9. ~good => failed' = failed
  <2>1. failed \in BOOLEAN
    BY DEF Timely
  <2>2. ASSUME ~good PROVE failed' = failed
    BY <1>6, <2>1, <2>2 DEF Complete, GiveUp
  <2> QED
    BY <2>2
<1>9a. PICK d : Closes(p, r, good, d)
  <2>1. PICK o : o = call[p]
    OBVIOUS
  <2>2. PlaysPart(o, p, r) /\ o.state = "Established" /\ o = [f \in CallFields |-> o[f]]
    BY <1>3, <1>5, <2>1 DEF SideUp, PlaysPart
  <2>3. CASE Complete(p)
    <3>1. PICK c : c = IF req[p].code = 200 THEN slide_deadlines(o) ELSE o
      OBVIOUS
    <3>2. /\ c = [f \in CallFields |-> c[f]] /\ c.state = "Established" /\ c.dialog = o.dialog
          /\ good /\ r = p => c.refresh_at = SE \div 2
          /\ good /\ r # p => c.expiry_at = SE
          /\ ~good => c = o
      <4>1. CASE req[p].code = 200
        <5>1. c = slide_deadlines(o) /\ good
          BY <1>6, <2>3, <3>1, <4>1
        <5>2. PlaysPart(c, p, r)
          BY <2>2, <5>1, SlideKeepsPart
        <5>3. /\ c.state = "Established" /\ c.dialog = o.dialog
              /\ r = p => c.refresh_at = SE \div 2
              /\ r # p => c.expiry_at = SE
          BY <2>2, <5>1, SlideUp
        <5> QED
          BY <5>1, <5>2, <5>3 DEF PlaysPart
      <4>2. CASE req[p].code # 200
        BY <1>6, <2>2, <3>1, <4>2
      <4> QED
        BY <4>1, <4>2
    <3>3. PICK w : w = (c.update_unsupported \/ req[p].code = 405)
      OBVIOUS
    <3>4. PICK d : d = [c EXCEPT !.uac_in_flight = FALSE, !.update_unsupported = w]
      OBVIOUS
    <3>5. call' = [call EXCEPT ![p] = d]
      BY <2>1, <2>3, <3>1, <3>3, <3>4 DEF Complete
    <3>6. /\ d.state = c.state /\ d.dialog = c.dialog /\ ~InFlight(d)
          /\ d.refresh_at = c.refresh_at /\ d.expiry_at = c.expiry_at
      BY <3>2, <3>4 DEF CallFields, InFlight
    <3>7. Closes(p, r, good, d)
      BY <2>1, <3>2, <3>5, <3>6 DEF Closes
    <3> QED
      BY <3>7
  <2>4. CASE ~Complete(p)
    <3>1. ~good /\ GiveUp(p)
      BY <1>6, <2>4
    <3>2. PICK d : d = [o EXCEPT !.uac_in_flight = FALSE]
      OBVIOUS
    <3>3. call' = [call EXCEPT ![p] = d]
      BY <2>1, <3>1, <3>2 DEF GiveUp
    <3>4. /\ d.state = o.state /\ d.dialog = o.dialog /\ ~InFlight(d)
          /\ d.refresh_at = o.refresh_at /\ d.expiry_at = o.expiry_at
      BY <2>2, <3>2 DEF CallFields, InFlight
    <3>5. Closes(p, r, good, d)
      BY <2>1, <2>2, <3>1, <3>3, <3>4 DEF Closes
    <3> QED
      BY <3>5
  <2> QED
    BY <2>3, <2>4
<1>10. /\ call' = [call EXCEPT ![p] = d]
       /\ d.state = "Established" /\ d.dialog = call[p].dialog /\ ~InFlight(d)
       /\ good /\ r = p => d.refresh_at = SE \div 2
       /\ good /\ r # p => d.expiry_at = SE
       /\ ~good => d.refresh_at = call[p].refresh_at /\ d.expiry_at = call[p].expiry_at
  BY <1>9a DEF Closes
<1>11. call'[p] = d /\ call'[q] = call[q]
  BY <1>1, <1>4, <1>10, CallMoved
<1>12. SideUp(d, Idle)
  BY <1>5, <1>10, IdleFacts DEF SideUp
<1>13. InTime(call'[r].refresh_at, call'[Peer(r)].expiry_at, req'[r], req'[Peer(r)], failed')
  <2>1. CASE r = p
    <3>1. /\ InTime(call[p].refresh_at, call[q].expiry_at, req[p], req[q], failed)
          /\ call[p].refresh_at \in Nat /\ call[q].expiry_at \in Nat
          /\ req[p] \in ReqRec /\ req[q] \in ReqRec
      BY <1>1, <1>2, <1>3, <2>1
    <3>2. CASE good
      <4>1. req[p].age <= MaxDelay /\ call[q].expiry_at + req[p].age >= SE
        BY <1>5, <1>7, <3>1, <3>2 DEF SideUp, InTime
      <4>2. InTime(SE \div 2, call[q].expiry_at, Idle, req[q], failed')
        BY <3>1, <4>1, IdleFacts, Refreshed
      <4> QED
        BY <1>1, <1>8, <1>10, <1>11, <2>1, <3>2, <4>2
    <3>3. CASE ~good
      <4>1. InTime(call[p].refresh_at, call[q].expiry_at, Idle, req[q], failed)
        BY <1>7, <3>1, <3>3, IdleFacts, EndedWithout
      <4> QED
        BY <1>1, <1>8, <1>9, <1>10, <1>11, <2>1, <3>3, <4>1
    <3> QED
      BY <1>6, <3>2, <3>3
  <2>2. CASE r = q
    <3>1. /\ InTime(call[q].refresh_at, call[p].expiry_at, req[q], req[p], failed)
          /\ call[q].refresh_at \in Nat /\ call[q].refresh_at <= SE \div 2
          /\ req[p] \in ReqRec /\ req[q] \in ReqRec
      BY <1>1, <1>2, <1>3, <2>2
    <3>2. CASE good
      <4>1. InTime(call[q].refresh_at, SE, req[q], Idle, failed')
        BY <3>1, IdleFacts, JustSlid
      <4> QED
        BY <1>2, <1>8, <1>10, <1>11, <2>2, <3>2, <4>1
    <3>3. CASE ~good
      <4>1. req[p].at # "back" \/ req[p].code # 200
        BY <1>7, <3>3
      <4>2. InTime(call[q].refresh_at, call[p].expiry_at, req[q], Idle, failed)
        BY <3>1, <4>1, PeerFree
      <4> QED
        BY <1>2, <1>8, <1>9, <1>10, <1>11, <2>2, <3>3, <4>2
    <3> QED
      BY <1>6, <3>2, <3>3
  <2> QED
    BY <1>2, <2>1, <2>2
<1> QED
  BY <1>1, <1>5, <1>7, <1>8, <1>11, <1>12, <1>13, RunningNext

\* While the 200 OK is under way nothing else happens but its arrival.
LEMMA OpeningFacts ==
    ASSUME NEW r \in Party, Timely(r), Opening(r)
    PROVE  /\ answer200 \in Nat /\ answer200 <= MaxDelay
           /\ \A p \in Party : /\ PlaysPart(call[p], p, r) /\ req[p].at = "none"
                               /\ req[p] \in ReqRec
                               /\ ~RefreshDue(call[p]) /\ ~ExpiryDue(call[p])
           /\ call["uas"].state = "Established"
           /\ r = "uas" => call["uas"].refresh_at \in Nat /\ call["uas"].refresh_at # 0
           /\ r = "uac" => call["uas"].expiry_at \in Nat /\ call["uas"].expiry_at # 0
<1>1. answer200 \in Nat /\ answer200 <= MaxDelay
  BY TimeFacts DEF Opening
<1>2. \A p \in Party : PlaysPart(call[p], p, r) /\ req[p].at = "none" /\ req[p] \in ReqRec
  BY DEF Timely, Plays, Opening
<1>3. call["uas"].state = "Established" /\ call["uac"].state # "Established"
  BY DEF Opening, SideUp
<1>4. PICK h \in Nat : h = SE \div 2
  BY TimeFacts
<1>5. r = "uas" => call["uas"].refresh_at \in Nat /\ call["uas"].refresh_at # 0
  BY <1>1, <1>4, TimeFacts DEF Opening
<1>6. r = "uac" => call["uas"].expiry_at \in Nat /\ call["uas"].expiry_at # 0
  BY <1>1, <1>4, TimeFacts DEF Opening
<1>7. PlaysPart(call["uas"], "uas", r)
  BY <1>2, PeerFacts
<1>8. ~RefreshDue(call["uas"]) /\ ~ExpiryDue(call["uas"])
  BY <1>3, <1>5, <1>6, <1>7, IntervalFacts DEF RefreshDue, ExpiryDue, PlaysPart, Party
<1>9. ~RefreshDue(call["uac"]) /\ ~ExpiryDue(call["uac"])
  BY <1>3 DEF RefreshDue, ExpiryDue
<1> QED
  BY <1>1, <1>2, <1>3, <1>5, <1>6, <1>8, <1>9 DEF Party

LEMMA OpeningTime ==
    ASSUME NEW r \in Party, Timely(r), Opening(r), silent = {}, Elapse
    PROVE  Opening(r)'
<1>1. /\ answer200 \in Nat /\ answer200 <= MaxDelay
      /\ \A p \in Party : PlaysPart(call[p], p, r) /\ req[p].at = "none"
      /\ r = "uas" => call["uas"].refresh_at \in Nat /\ call["uas"].refresh_at # 0
      /\ r = "uac" => call["uas"].expiry_at \in Nat /\ call["uas"].expiry_at # 0
  BY OpeningFacts
<1>2. \A p \in Party : Live(p)
  BY DEF Live
<1>3. answer200 < MaxDelay /\ answer200 # Unset
  BY <1>1, <1>2, PeerFacts, IntervalFacts, TimeFacts DEF Elapse, Urgent
<1>4. \A p \in Party : call'[p] = CallElapse(call[p]) /\ req'[p] = req[p]
  BY <1>1, <1>2 DEF Elapse
<1>5. answer200' = answer200 + 1 /\ answer200' \in 0 .. MaxDelay
  BY <1>1, <1>3, TimeFacts DEF Elapse, Older
<1>6. \A p \in Party : /\ call'[p].state = call[p].state /\ call'[p].dialog = call[p].dialog
                       /\ InFlight(call'[p]) <=> InFlight(call[p])
                       /\ call'[p].refresh_at = Left(call[p].refresh_at)
                       /\ call'[p].expiry_at = Left(call[p].expiry_at)
  BY <1>1, <1>4, ElapseUp
<1>7. PICK h \in Nat : h = SE \div 2
  BY TimeFacts
<1>8. r = "uas" => call'["uas"].refresh_at = h - answer200'
  <2>1. ASSUME r = "uas" PROVE call'["uas"].refresh_at = h - answer200'
    <3>1. call["uas"].refresh_at = h - answer200
      BY <1>7, <2>1 DEF Opening
    <3>2. Left(call["uas"].refresh_at) = call["uas"].refresh_at - 1
      BY <1>1, <2>1 DEF Left
    <3>3. call'["uas"].refresh_at = Left(call["uas"].refresh_at)
      BY <1>6, PeerFacts
    <3> QED
      BY <1>1, <1>5, <3>1, <3>2, <3>3
  <2> QED
    BY <2>1
<1>9. r = "uac" => call'["uas"].expiry_at = SE - answer200'
  <2>1. ASSUME r = "uac" PROVE call'["uas"].expiry_at = SE - answer200'
    <3>1. call["uas"].expiry_at = SE - answer200
      BY <2>1 DEF Opening
    <3>2. Left(call["uas"].expiry_at) = call["uas"].expiry_at - 1
      BY <1>1, <2>1 DEF Left
    <3>3. call'["uas"].expiry_at = Left(call["uas"].expiry_at)
      BY <1>6, PeerFacts
    <3> QED
      BY <1>1, <1>5, <3>1, <3>2, <3>3, TimeFacts
  <2> QED
    BY <2>1
<1>10. SideUp(call'["uas"], req'["uas"])
  BY <1>4, <1>6, PeerFacts DEF Opening, SideUp
<1>11. call'["uac"].state # "Established" /\ ~InFlight(call'["uac"])
  BY <1>6, PeerFacts DEF Opening
<1>12. \A p \in Party : req'[p].at = "none"
  BY <1>1, <1>4
<1>13. bye' = {}
  BY DEF Elapse, Opening
<1> QED
  BY <1>5, <1>7, <1>8, <1>9, <1>10, <1>11, <1>12, <1>13 DEF Opening

\* The call of the UAC once the 200 OK has arrived.
LEMMA AnsweredUp ==
    ASSUME NEW c, NEW id, NEW r \in Party, PlaysPart(c, "uac", r), ~InFlight(c),
           NEW d, d = apply_invite_2xx_session_timer(
                        handle_answer(set_negotiated_media(
                           populate(set_dialog(c, id, 0), "uac"), 0)),
                        SE, c.refresher)
    PROVE  /\ d.state = "Established" /\ d.dialog = id /\ ~InFlight(d)
           /\ r = "uac" => d.refresh_at = SE \div 2
           /\ r # "uac" => d.expiry_at = SE
<1>1. c = [f \in CallFields |-> c[f]] /\ c.refresher = r /\ r # "none"
  BY DEF PlaysPart, Party
<1>2. PICK s : s = set_dialog(c, id, 0)
  OBVIOUS
<1>3. s = [f \in CallFields |-> s[f]] /\ s.dialog = id /\ ~InFlight(s)
  BY <1>1, <1>2 DEF set_dialog, CallFields, InFlight
<1>4. PICK q : q = populate(s, "uac")
  OBVIOUS
<1>5. q = [f \in CallFields |-> q[f]] /\ q.dialog = id /\ ~InFlight(q)
  BY <1>3, <1>4 DEF populate, CallFields, InFlight
<1>6. PICK a : a = [[q EXCEPT !.media = "active", !.port = 0] EXCEPT !.state = "Established"]
  OBVIOUS
<1>7. /\ a = [f \in CallFields |-> a[f]] /\ a.dialog = id /\ ~InFlight(a)
      /\ a.state = "Established"
  BY <1>5, <1>6 DEF CallFields, InFlight
<1>8. PICK x, y : /\ x = IF r = "uac" THEN SE \div 2 ELSE Unset
                  /\ y = IF r = "uac" THEN Unset ELSE SE
  OBVIOUS
<1>9. d = apply_invite_2xx_session_timer(a, SE, r)
  BY <1>1, <1>2, <1>4, <1>6 DEF handle_answer, set_negotiated_media
<1>10. d = [a EXCEPT !.session_expires = SE, !.refresher = r, !.refresh_at = x, !.expiry_at = y]
  BY <1>1, <1>8, <1>9, IntervalFacts DEF apply_invite_2xx_session_timer, set_session_timer
<1>11. d.state = a.state /\ d.dialog = a.dialog /\ (InFlight(d) <=> InFlight(a))
  BY <1>7, <1>10 DEF CallFields, InFlight
<1>12. d.refresh_at = x /\ d.expiry_at = y
  BY <1>7, <1>10 DEF CallFields
<1> QED
  BY <1>7, <1>8, <1>11, <1>12

LEMMA OpeningAnswered ==
    ASSUME RetryFits, NEW r \in Party, Timely(r), Opening(r), Answered
    PROVE  Running(r)'
<1>0. PICK id : id = <<1>>
  OBVIOUS
<1>1. /\ answer200 \in Nat /\ answer200 <= MaxDelay
      /\ \A p \in Party : PlaysPart(call[p], p, r) /\ req[p].at = "none" /\ req[p] \in ReqRec
      /\ r = "uas" => call["uas"].refresh_at \in Nat
      /\ r = "uac" => call["uas"].expiry_at \in Nat
  BY OpeningFacts
<1>2. PICK d : d = apply_invite_2xx_session_timer(
                     handle_answer(set_negotiated_media(
                        populate(set_dialog(call["uac"], id, 0), "uac"), 0)),
                     SE, call["uac"].refresher)
  OBVIOUS
<1>3. call' = [call EXCEPT !["uac"] = d]
  BY <1>0, <1>2 DEF Answered
<1>4. call'["uac"] = d /\ call'["uas"] = call["uas"]
  <2>1. Plays(r) /\ "uac" \in Party /\ Peer("uac") = "uas"
    BY PeerFacts DEF Timely
  <2> QED
    BY <1>3, <2>1, CallMoved
<1>5. req' = req /\ bye' = {} /\ answer200' = Unset
  BY DEF Answered, Opening
<1>6. /\ d.state = "Established" /\ d.dialog = id /\ ~InFlight(d)
      /\ r = "uac" => d.refresh_at = SE \div 2
      /\ r # "uac" => d.expiry_at = SE
  <2>1. PlaysPart(call["uac"], "uac", r) /\ ~InFlight(call["uac"])
    BY <1>1, PeerFacts DEF Opening
  <2> QED
    BY <1>2, <2>1, AnsweredUp
<1>7. id # NoDialog
  BY <1>0 DEF NoDialog
<1>8. SideUp(d, req["uac"]) /\ SideUp(call["uas"], req["uas"])
  BY <1>1, <1>6, <1>7, PeerFacts DEF SideUp, Opening
<1>9. PICK h \in Nat : h = SE \div 2
  BY TimeFacts
<1>10. CASE r = "uas"
  <2>1. call["uas"].refresh_at \in Nat /\ call["uas"].refresh_at <= SE \div 2
    BY <1>1, <1>9, <1>10, TimeFacts DEF Opening
  <2>2. req["uas"] \in ReqRec /\ req["uac"] \in ReqRec
    BY <1>1, PeerFacts
  <2>3. InTime(call["uas"].refresh_at, SE, req["uas"], req["uac"], failed')
    BY <2>1, <2>2, JustSlid
  <2>4. Peer(r) = "uac"
    BY <1>10, PeerFacts
  <2>5. InTime(call'[r].refresh_at, call'[Peer(r)].expiry_at, req'[r], req'[Peer(r)], failed')
    BY <1>4, <1>5, <1>6, <1>10, <2>3, <2>4
  <2> QED
    BY <1>4, <1>5, <1>8, <2>5 DEF Running, Party
<1>11. CASE r = "uac"
  <2>1. PICK q : q = [kind |-> "none", at |-> "back", age |-> answer200, code |-> 200]
    OBVIOUS
  <2>2. q \in ReqRec /\ q.age = answer200
    BY <1>1, <2>1 DEF ReqRec
  <2>3. call["uas"].expiry_at \in Nat /\ call["uas"].expiry_at + q.age >= SE
    BY <1>1, <1>11, <2>2, TimeFacts DEF Opening
  <2>4. req["uac"] \in ReqRec /\ req["uac"].at = "none" /\ q.age <= MaxDelay
    BY <1>1, <2>2, PeerFacts
  <2>5. InTime(SE \div 2, call["uas"].expiry_at, req["uac"], req["uas"], failed')
    BY <2>2, <2>3, <2>4, Refreshed
  <2>6. Peer(r) = "uas"
    BY <1>11, PeerFacts
  <2>7. InTime(call'[r].refresh_at, call'[Peer(r)].expiry_at, req'[r], req'[Peer(r)], failed')
    BY <1>4, <1>5, <1>6, <1>11, <2>5, <2>6
  <2> QED
    BY <1>4, <1>5, <1>8, <2>7 DEF Running, Party
<1> QED
  BY <1>10, <1>11 DEF Party

\* The requests keep their form whatever happens.
LEMMA ReqTypes ==
    ASSUME NEW r \in Party, Timely(r), SrNext
    PROVE  req' \in [Party -> ReqRec] /\ failed' \in BOOLEAN
<1>1. req \in [Party -> ReqRec] /\ failed \in BOOLEAN
  BY DEF Timely
<1>2. ASSUME NEW p \in Party, NEW v \in ReqRec, req' = [req EXCEPT ![p] = v]
      PROVE  req' \in [Party -> ReqRec]
  BY <1>1, <1>2
<1>3. CASE Answered
  BY <1>1, <1>3 DEF Answered
<1>4. CASE Elapse
  <2>1. ASSUME NEW p \in Party PROVE req'[p] \in ReqRec
    <3>1. req[p] \in ReqRec
      BY <1>1
    <3>2. req[p].age \in Nat
      BY <3>1 DEF ReqRec
    <3>3. PICK a : a = Older(req[p].age, TimerF)
      OBVIOUS
    <3>4. a \in Nat
      BY <3>2, <3>3 DEF Older
    <3>5. [req[p] EXCEPT !.age = a] \in ReqRec
      BY <3>1, <3>4 DEF ReqRec
    <3> QED
      BY <1>4, <3>1, <3>3, <3>5 DEF Elapse
  <2>2. req' = [p \in Party |-> req'[p]] /\ failed' = failed
    BY <1>4 DEF Elapse
  <2> QED
    BY <1>1, <2>1, <2>2
<1>5. ASSUME NEW p \in Party, Wake(p) \/ Hold(p)
      PROVE  req' \in [Party -> ReqRec] /\ failed' \in BOOLEAN
  <2>1. PICK k : /\ k \in {"Hold", "SessionTimerUpdate", "SessionTimerReInvite"}
                 /\ \/ req' = req
                    \/ req' = [req EXCEPT ![p] = [kind |-> k, at |-> "peer",
                                                  age |-> 0, code |-> 0]]
    <3>1. CASE Hold(p)
      BY <3>1 DEF Hold
    <3>2. CASE Wake(p)
      <4>1. RefreshKind(call[p]) \in {"SessionTimerUpdate", "SessionTimerReInvite"}
        BY DEF RefreshKind
      <4>2. PICK k : k = RefreshKind(call[p])
        OBVIOUS
      <4>3. \/ req' = req
            \/ req' = [req EXCEPT ![p] = [kind |-> k, at |-> "peer", age |-> 0, code |-> 0]]
        BY <3>2, <4>2 DEF Wake
      <4> QED
        BY <4>1, <4>2, <4>3
    <3> QED
      BY <1>5, <3>1, <3>2
  <2>2. PICK v : v = [kind |-> k, at |-> "peer", age |-> 0, code |-> 0]
    OBVIOUS
  <2>2a. v \in ReqRec
    BY <2>1, <2>2 DEF ReqRec
  <2>3. req' \in [Party -> ReqRec]
    BY <1>1, <1>2, <2>1, <2>2, <2>2a
  <2> QED
    BY <1>1, <1>5, <2>3 DEF Wake, Hold
<1>6. ASSUME NEW p \in Party, NEW code \in Nat, AnswerBack(p, code)
      PROVE  req' \in [Party -> ReqRec]
  <2>1. PICK v \in ReqRec : req' = [req EXCEPT ![p] = v]
    BY <1>1, <1>6, ReqRewritten
  <2> QED
    BY <1>2, <2>1
<1>7. 200 \in Nat /\ 405 \in Nat /\ 481 \in Nat /\ 491 \in Nat
  OBVIOUS
<1>8. ASSUME NEW p \in Party, Accept(p) \/ Refuse(p)
      PROVE  req' \in [Party -> ReqRec] /\ failed' \in BOOLEAN
  <2>1. AnswerBack(p, 200) \/ AnswerBack(p, 405) \/ AnswerBack(p, 481) \/ AnswerBack(p, 491)
    BY <1>8 DEF Accept, Refuse
  <2>2. req' \in [Party -> ReqRec]
    BY <1>6, <1>7, <2>1
  <2> QED
    BY <1>1, <1>8, <2>2 DEF Accept, Refuse, Fail
<1>9. ASSUME NEW p \in Party, Lose(p)
      PROVE  req' \in [Party -> ReqRec] /\ failed' \in BOOLEAN
  <2>1. req' = [req EXCEPT ![p].at = "lost", ![p].age = 0] /\ failed' = TRUE
    BY <1>9 DEF Lose, Fail
  <2>2. PICK v \in ReqRec : req' = [req EXCEPT ![p] = v]
    BY <1>1, <2>1, ReqLost
  <2> QED
    BY <1>2, <2>1, <2>2
<1>10. ASSUME NEW p \in Party, Complete(p) \/ GiveUp(p)
       PROVE  req' \in [Party -> ReqRec] /\ failed' \in BOOLEAN
  <2>1. req' = [req EXCEPT ![p] = Idle]
    BY <1>10 DEF Complete, GiveUp
  <2>2. failed' \in BOOLEAN
    BY <1>1, <1>10 DEF Complete, GiveUp
  <2> QED
    BY <1>2, <2>1, <2>2, IdleFacts
<1>11. ASSUME NEW p \in Party, ByeArrives(p) \/ GoSilent(p)
       PROVE  req' \in [Party -> ReqRec] /\ failed' \in BOOLEAN
  BY <1>1, <1>11 DEF ByeArrives, GoSilent
<1> QED
  BY <1>3, <1>4, <1>5, <1>8, <1>9, <1>10, <1>11 DEF SrNext

\* What is not tick or the 200 OK leaves a call that is down where it is.
LEMMA StaysDown ==
    ASSUME NEW c, NEW p, NEW r, PlaysPart(c, p, r), c.state # "Established"
    PROVE  /\ slide_deadlines(c).state # "Established"
           /\ CallHandleUpdate(c, SE, MinSE).state # "Established"
           /\ CallElapse(c).state # "Established"
           /\ handle_ended(c).state # "Established"
           /\ \A z : [c EXCEPT !.uac_in_flight = z].state # "Established"
           /\ \A z, w : [c EXCEPT !.uac_in_flight = z,
                                  !.update_unsupported = w].state # "Established"
<1>1. c = [f \in CallFields |-> c[f]]
  BY DEF PlaysPart
<1>2. slide_deadlines(c).state # "Established"
  BY <1>1 DEF slide_deadlines, CallFields
<1>3. CallHandleUpdate(c, SE, MinSE).state # "Established"
  <2>1. PICK b : b = [c EXCEPT !.session_expires = SE]
    OBVIOUS
  <2>2. b = [f \in CallFields |-> b[f]] /\ b.state = c.state
    BY <1>1, <2>1 DEF CallFields
  <2>3. slide_deadlines(b).state # "Established"
    BY <2>2 DEF slide_deadlines, CallFields
  <2> QED
    BY <2>1, <2>3, IntervalFacts DEF CallHandleUpdate
<1>4. CallElapse(c).state # "Established"
  BY ElapseUp
<1>5. handle_ended(c).state # "Established"
  BY <1>1 DEF handle_ended, CallFields
<1>6. ASSUME NEW z PROVE [c EXCEPT !.uac_in_flight = z].state # "Established"
  BY <1>1 DEF CallFields
<1>7. ASSUME NEW z, NEW w
      PROVE  [c EXCEPT !.uac_in_flight = z, !.update_unsupported = w].state # "Established"
  BY <1>1 DEF CallFields
<1> QED
  BY <1>2, <1>3, <1>4, <1>5, <1>6, <1>7

\* A call that has expired stays down.
LEMMA OverStays ==
    ASSUME NEW r \in Party, Timely(r), Over(r), SrNext
    PROVE  Over(r)'
<1>1. PICK e : e = Peer(r) /\ e \in Party
  BY PeerFacts
<1>2. PlaysPart(call[e], e, r) /\ call[e].state # "Established"
  BY <1>1 DEF Timely, Plays, Over
<1>3. answer200 = Unset /\ ~Answered
  BY DEF Over, Answered
<1>4. answer200' = Unset
  BY <1>3 DEF SrNext, Elapse, Wake, Hold, Accept, Refuse, Lose, Complete, GiveUp,
              ByeArrives, GoSilent
<1>5. call'[e].state # "Established"
  <2>1. PICK c : c = call[e]
    OBVIOUS
  <2>2. PlaysPart(c, e, r) /\ c.state # "Established" /\ call = [p \in Party |-> call[p]]
    BY <1>2, <2>1 DEF Timely, Plays
  <2>3. CASE call'[e] = c
    BY <2>2, <2>3
  <2>4. CASE Elapse
    <3>1. CallElapse(c).state # "Established"
      BY <2>2, StaysDown
    <3> QED
      BY <1>1, <2>1, <2>2, <2>4, <3>1 DEF Elapse
  <2>5. ASSUME NEW p \in Party, Wake(p)
        PROVE  call'[e] = c
    <3>1. p # e
      BY <2>1, <2>2, <2>5 DEF Wake, RefreshDue, ExpiryDue
    <3>2. PICK d : call' = [call EXCEPT ![p] = d]
      BY <2>5 DEF Wake
    <3> QED
      BY <1>1, <2>1, <2>2, <3>1, <3>2
  <2>6. ASSUME NEW p \in Party, Hold(p) \/ GiveUp(p)
        PROVE  call'[e].state # "Established"
    <3>1. PICK z : call' = [call EXCEPT ![p].uac_in_flight = z]
      BY <2>6 DEF Hold, GiveUp
    <3>2. call'[e] = c \/ call'[e] = [c EXCEPT !.uac_in_flight = z]
      BY <1>1, <2>1, <2>2, <3>1
    <3>3. [c EXCEPT !.uac_in_flight = z].state # "Established"
      BY <2>2, StaysDown
    <3> QED
      BY <2>2, <3>2, <3>3
  <2>7. ASSUME NEW p \in Party, Accept(p)
        PROVE  call'[e].state # "Established"
    <3>1. PICK q, d : /\ q = Peer(p)
                      /\ d = IF req[p].kind = "SessionTimerUpdate"
                             THEN CallHandleUpdate(call[q], SE, MinSE)
                             ELSE slide_deadlines(call[q])
      OBVIOUS
    <3>2. call' = [call EXCEPT ![q] = d]
      BY <2>7, <3>1 DEF Accept
    <3>3. q = e => d.state # "Established"
      BY <2>1, <2>2, <3>1, StaysDown
    <3> QED
      BY <1>1, <2>1, <2>2, <3>2, <3>3
  <2>8. ASSUME NEW p \in Party, Complete(p)
        PROVE  call'[e].state # "Established"
    <3>1. PICK o : o = IF req[p].code = 200 THEN slide_deadlines(call[p]) ELSE call[p]
      OBVIOUS
    <3>2. PICK w : w = (o.update_unsupported \/ req[p].code = 405)
      OBVIOUS
    <3>3. PICK d : d = [o EXCEPT !.uac_in_flight = FALSE, !.update_unsupported = w]
      OBVIOUS
    <3>4. call' = [call EXCEPT ![p] = d]
      BY <2>8, <3>1, <3>2, <3>3 DEF Complete
    <3>5. ASSUME p = e PROVE d.state # "Established"
      <4>1. PlaysPart(o, p, r) /\ o.state # "Established"
        BY <2>1, <2>2, <3>1, <3>5, StaysDown, SlideKeepsPart
      <4> QED
        BY <3>3, <4>1, StaysDown
    <3> QED
      BY <1>1, <2>1, <2>2, <3>4, <3>5
  <2>9. ASSUME NEW p \in Party, ByeArrives(p)
        PROVE  call'[e].state # "Established"
    <3>1. PICK q, d : q = Peer(p) /\ d = handle_ended(call[q])
      OBVIOUS
    <3>2. call' = call \/ call' = [call EXCEPT ![q] = d]
      BY <2>9, <3>1 DEF ByeArrives
    <3>3. q = e => d.state # "Established"
      BY <2>1, <2>2, <3>1, StaysDown
    <3> QED
      BY <1>1, <2>1, <2>2, <3>2, <3>3
  <2>10. ASSUME NEW p \in Party, Refuse(p) \/ Lose(p) \/ GoSilent(p)
         PROVE  call'[e] = c
    BY <2>1, <2>10 DEF Refuse, Lose, GoSilent
  <2> QED
    BY <1>3, <2>3, <2>4, <2>5, <2>6, <2>7, <2>8, <2>9, <2>10 DEF SrNext
<1> QED
  BY <1>1, <1>4, <1>5 DEF Over

\* While a call is up and no side has gone silent, only a failure lets it
\* expire.
LEMMA ExpiryNeedsFailure ==
    ASSUME NEW r \in Party, Timely(r), silent = {}, NEW p \in Party, Wake(p),
           ExpiryDue(call[p]), expired' # expired
    PROVE  failed /\ Running(r) /\ p = Peer(r)
<1>1. PlaysPart(call[p], p, r)
  BY DEF Timely, Plays
<1>2. p # r
  BY <1>1, ExpiryUp
<1>3. p = Peer(r)
  BY <1>2, PeerFacts
<1>4. ~Over(r)
  BY <1>3 DEF Over, ExpiryDue
<1>5. ~Opening(r)
  BY OpeningFacts
<1>6. Running(r)
  BY <1>4, <1>5 DEF Timely
<1>7. failed
  <2>1. /\ call[r].refresh_at \in Nat /\ req[r] \in ReqRec /\ req[p] \in ReqRec
        /\ InTime(call[r].refresh_at, call[p].expiry_at, req[r], req[p], failed)
        /\ SideUp(call[r], req[r]) /\ SideUp(call[p], req[p])
    BY <1>3, <1>6, RunningFacts
  <2>2. call[p].expiry_at = 0
    BY DEF ExpiryDue
  <2>3. /\ req[r].age \in Nat /\ req[p].age \in Nat
        /\ req[r].at \in {"none", "peer", "back", "lost"}
    BY <2>1 DEF ReqRec
  <2>4. ~Arriving(0, req[p])
    BY <2>1, <2>3, TimeFacts DEF Arriving, SideUp
  <2>5. ~Covers(0, call[r].refresh_at, req[r])
    <3>1. CASE req[r].at = "back" /\ req[r].code = 200
      BY <2>1, <2>2, <2>3, <3>1, TimeFacts DEF InTime, SideUp
    <3>2. CASE ~(req[r].at = "back" /\ req[r].code = 200)
      BY <2>1, <2>3, <3>2, TimeFacts DEF Covers, SideUp
    <3> QED
      BY <3>1, <3>2
  <2> QED
    BY <2>1, <2>2, <2>4, <2>5 DEF InTime
<1> QED
  BY <1>3, <1>6, <1>7

\* The call is up or being set up, and time or a message moves it on.
LEMMA UpStep ==
    ASSUME RetryFits, NEW r \in Party, Timely(r), silent = {}, expired = {}, SrNext,
           silent' = {}
    PROVE  IF expired' = {} THEN (Opening(r) \/ Running(r))' ELSE Over(r)'
<1>1. CASE Opening(r)
  <2>1. /\ answer200 \in Nat
        /\ \A p \in Party : /\ req[p].at = "none"
                            /\ ~RefreshDue(call[p]) /\ ~ExpiryDue(call[p])
    BY <1>1, OpeningFacts
  <2>2. bye = {} /\ answer200 # Unset
    BY <1>1, <2>1, IntervalFacts DEF Opening
  <2>3. ASSUME NEW p \in Party
        PROVE  /\ ~Wake(p) /\ ~Hold(p) /\ ~Accept(p) /\ ~Refuse(p) /\ ~Lose(p)
               /\ ~Complete(p) /\ ~GiveUp(p) /\ ~ByeArrives(p) /\ ~GoSilent(p)
    BY <2>1, <2>2 DEF Wake, Hold, Accept, Refuse, Lose, Complete, GiveUp, ByeArrives, GoSilent
  <2>4. CASE Answered
    <3>1. Running(r)' /\ expired' = {}
      BY <1>1, <2>4, OpeningAnswered DEF Answered
    <3> QED
      BY <3>1
  <2>5. CASE Elapse
    <3>1. Opening(r)' /\ expired' = {}
      BY <1>1, <2>5, OpeningTime DEF Elapse
    <3> QED
      BY <3>1
  <2> QED
    BY <2>3, <2>4, <2>5 DEF SrNext
<1>2. CASE Running(r)
  <2>1. bye = {} /\ answer200 = Unset
    BY <1>2 DEF Running
  <2>2. ~Answered /\ \A p \in Party : ~ByeArrives(p) /\ ~GoSilent(p)
    BY <2>1 DEF Answered, ByeArrives, GoSilent
  <2>3. CASE Elapse
    <3>1. Running(r)' /\ expired' = {}
      BY <1>2, <2>3, RunningTime DEF Elapse
    <3> QED
      BY <3>1
  <2>4. ASSUME NEW p \in Party, Hold(p) \/ (Wake(p) /\ RefreshDue(call[p]))
        PROVE  Running(r)' /\ expired' = {}
    <3>1. Running(r)'
      BY <1>2, <2>4, RunningSends
    <3>2. PlaysPart(call[p], p, r)
      BY DEF Timely, Plays
    <3>3. RefreshDue(call[p]) => ~ExpiryDue(call[p])
      BY <3>2, RefreshUp
    <3> QED
      BY <2>4, <3>1, <3>3 DEF Hold, Wake
  <2>5. ASSUME NEW p \in Party, Wake(p), ~RefreshDue(call[p])
        PROVE  Over(r)' /\ expired' # {}
    <3>1. PlaysPart(call[p], p, r) /\ ExpiryDue(call[p]) /\ Plays(r)
      BY <2>5 DEF Timely, Plays, Wake
    <3>2. PICK d : d = Numberless(CallTick(call[p]))
      OBVIOUS
    <3>3. r # p /\ d.state # "Established"
      BY <3>1, <3>2, ExpiryUp
    <3>4. call' = [call EXCEPT ![p] = d]
      BY <2>5, <3>2 DEF Wake
    <3>5. call'[p] = d
      BY <3>1, <3>4, CallMoved
    <3>6. p = Peer(r)
      BY <3>3, PeerFacts
    <3>7. expired' # {} /\ answer200' = Unset
      BY <2>1, <2>5, <3>1 DEF Wake
    <3> QED
      BY <3>3, <3>5, <3>6, <3>7 DEF Over
  <2>6. ASSUME NEW p \in Party, Accept(p) \/ Refuse(p) \/ Lose(p) \/ Complete(p) \/ GiveUp(p)
        PROVE  Running(r)' /\ expired' = {}
    <3>1. Running(r)'
      BY <1>2, <2>6, RunningAccepts, RunningFails, RunningEnds
    <3> QED
      BY <2>6, <3>1 DEF Accept, Refuse, Lose, Complete, GiveUp
  <2> QED
    BY <2>2, <2>3, <2>4, <2>5, <2>6 DEF SrNext
<1> QED
  BY <1>1, <1>2 DEF Timely

LEMMA TimelyStep ==
    ASSUME RetryFits, NEW r \in Party, Timely(r), [SrNext]_srvars
    PROVE  Timely(r)'
<1>1. CASE UNCHANGED srvars
  <2>1. Plays(r)'
    BY SrStep DEF Timely
  <2> QED
    BY <1>1, <2>1 DEF srvars, Timely, Opening, Running, Over
<1>2. CASE SrNext
  <2>1. Plays(r)'
    BY SrStep DEF Timely
  <2>2. req' \in [Party -> ReqRec] /\ failed' \in BOOLEAN
    BY <1>2, ReqTypes
  <2>3. ASSUME silent' = {}
        PROVE  IF expired' = {} THEN (Opening(r) \/ Running(r))' ELSE Over(r)'
    <3>1. silent = {}
      BY <1>2, <2>3 DEF SrNext, Answered, Elapse, Wake, Hold, Accept, Refuse, Lose, Complete,
                        GiveUp, ByeArrives, GoSilent
    <3>2. CASE expired = {}
      BY <1>2, <2>3, <3>1, <3>2, UpStep
    <3>3. CASE expired # {}
      <4>1. Over(r)'
        BY <1>2, <3>1, <3>3, OverStays DEF Timely
      <4>2. expired \subseteq expired'
        BY <1>2 DEF SrNext, Answered, Elapse, Wake, Hold, Accept, Refuse, Lose, Complete,
                    GiveUp, ByeArrives, GoSilent
      <4> QED
        BY <3>3, <4>1, <4>2
    <3> QED
      BY <3>2, <3>3
  <2> QED
    BY <2>1, <2>2, <2>3 DEF Timely
<1> QED
  BY <1>1, <1>2

LEMMA TimelyInit ==
    ASSUME SrInit
    PROVE  \E r \in Party : Timely(r)
<1>1. PICK r \in Party : Plays(r) /\ Started(r)
  BY SrInitPlays
<1>2. /\ answer200 = 0 /\ req = [p \in Party |-> Idle] /\ bye = {} /\ failed = FALSE
      /\ expired = {}
  BY DEF SrInit
<1>3. req \in [Party -> ReqRec] /\ \A p \in Party : req[p] = Idle
  BY <1>2, IdleFacts
<1>4. <<1>> # NoDialog
  BY DEF NoDialog
<1>5. SideUp(call["uas"], req["uas"])
  BY <1>1, <1>3, <1>4, PeerFacts, IdleFacts DEF SideUp, Started
<1>6. answer200 \in 0 .. MaxDelay
  BY <1>2, TimeFacts
<1>7. SE \div 2 = SE \div 2 - answer200 /\ SE = SE - answer200
  BY <1>2, TimeFacts
<1>8. Opening(r)
  BY <1>1, <1>2, <1>3, <1>5, <1>6, <1>7, IdleFacts DEF Opening, Started
<1> QED
  BY <1>1, <1>2, <1>3, <1>8 DEF Timely

(* A call whose refreshes are answered is never cut off, however refreshes *)
(* and requests of the application cross, are refused or lost before the   *)
(* last success: for every interval, delay and Timer F for which a request *)
(* after one that has timed out still arrives within the interval.  With   *)
(* TimerF + MaxDelay = SE the statement is false.                          *)
THEOREM AnsweredCallsSurvive ==
    ASSUME RetryFits
    PROVE  SrSpec => AnsweredCallsStayUp
<1> DEFINE TInv == \E r \in Party : Timely(r)
           Survives == expired' # expired => failed \/ silent # {}
<1>1. SrInit => TInv
  BY TimelyInit
<1>2. TInv /\ [SrNext]_srvars => TInv'
  BY TimelyStep
<1>3. TInv /\ [SrNext]_srvars => [Survives]_srvars
  <2> SUFFICES ASSUME NEW r \in Party, Timely(r), SrNext, expired' # expired, silent = {}
               PROVE  failed
    OBVIOUS
  <2>1. PICK p \in Party : Wake(p) /\ ExpiryDue(call[p])
    BY DEF SrNext, Answered, Elapse, Wake, Hold, Accept, Refuse, Lose, Complete, GiveUp,
           ByeArrives, GoSilent
  <2> QED
    BY <2>1, ExpiryNeedsFailure
<1> HIDE DEF TInv, Survives
<1>4. SrSpec => [][Survives]_srvars
  BY <1>1, <1>2, <1>3, PTL DEF SrSpec
<1> QED
  BY <1>4 DEF Survives, AnsweredCallsStayUp
=============================================================================
