--------------------------- MODULE HaServerProofs ---------------------------
(***************************************************************************)
(* Proofs about HaServer, for any number of clients: a server that is a    *)
(* standby, or still to be active, has updates disabled, with any number   *)
(* of log appliers; and a server that becomes active has the report of     *)
(* every one, with one applier or with several that stay connected.        *)
(***************************************************************************)
EXTENDS HaServer, TLAPS, FiniteSetTheorems, WellFoundedInduction

\* StandbyDisablesUpdates is inductive once pc is known to be a function.
HInv == StandbyDisablesUpdates /\ DOMAIN pc = Client

\* A state in which updates must be off, save for a client about to do that.
Standing(s) == s \in {"standby", "to_be_active"}
NoneDisables == \A c \in Client : pc[c] # "disable"

-----------------------------------------------------------------------------
\* A request to be active leaves the server waiting only when it was a standby
\* or waiting already, and then keeps updates off.
LEMMA ToActive ==
  ASSUME NEW s, ChangeToActive(s), Standing(st')
  PROVE  Standing(s) /\ (disabled => disabled')
BY Zenon DEF ChangeToActive, Transit, AppliersDone, Standing

\* A request to be a standby switches updates off when it succeeds.
LEMMA ToStandby ==
  ASSUME NEW s, s # "standby", ChangeToStandby(s), Standing(st')
  PROVE  disabled' \/ (Standing(s) /\ (disabled => disabled'))
BY Zenon DEF ChangeToStandby, Transit, Standing

\* A forced request to be a standby does so at once.
LEMMA ForcedStandby ==
  ASSUME ChangeToStandby("standby")
  PROVE  disabled'
BY Zenon DEF ChangeToStandby, Transit

\* A request for maintenance leaves a standby only when it is refused.
LEMMA ToMaintenance ==
  ASSUME NEW s, ChangeToMaintenance(s), Standing(st')
  PROVE  Standing(s) /\ (disabled => disabled')
BY Zenon DEF ChangeToMaintenance, Transit, Standing

\* css_change_ha_server_state keeps the invariant.
LEMMA ChangeStateStep ==
  ASSUME HInv, NEW req \in {"active", "standby", "maintenance"}, NEW force, NEW heartbeat,
         ChangeState(req, force, heartbeat)
  PROVE  HInv'
<1> DEFINE s == IF force THEN req ELSE st
<1>1. /\ pc' = pc /\ st # req
      /\ req = "active" => ChangeToActive(s)
      /\ req = "standby" => ChangeToStandby(s)
      /\ req = "maintenance" => ChangeToMaintenance(s)
  BY Zenon DEF ChangeState, Ignored
<1>2. s = req \/ s = st
  BY Zenon
<1>3. (Standing(st) /\ NoneDisables => disabled) /\ NoneDisables' = NoneDisables
  BY Zenon, <1>1 DEF HInv, StandbyDisablesUpdates, Standing, NoneDisables
<1> HIDE DEF s
<1>4. ASSUME Standing(st'), NoneDisables
      PROVE  disabled'
  <2>1. CASE req = "active"
    <3>1. Standing(s) /\ (disabled => disabled')
      BY Zenon, <1>1, <1>4, <2>1, ToActive
    <3>2. s = st
      BY Zenon, <1>2, <2>1, <3>1 DEF Standing
    <3> QED BY Zenon, <1>3, <1>4, <3>1, <3>2
  <2>2. CASE req = "maintenance"
    <3>1. Standing(s) /\ (disabled => disabled')
      BY Zenon, <1>1, <1>4, <2>2, ToMaintenance
    <3>2. s = st
      BY Zenon, <1>2, <2>2, <3>1 DEF Standing
    <3> QED BY <1>3, <1>4, <3>1, <3>2
  <2>3. CASE req = "standby" /\ s = "standby"
    BY Zenon, <1>1, <2>3, ForcedStandby
  <2>4. CASE req = "standby" /\ s # "standby"
    <3>1. s = st
      BY Zenon, <1>2, <2>4
    <3>2. disabled' \/ (Standing(s) /\ (disabled => disabled'))
      BY Zenon, <1>1, <1>4, <2>4, ToStandby
    <3> QED BY Zenon, <1>3, <1>4, <3>1, <3>2
  <2> QED BY Zenon, <2>1, <2>2, <2>3, <2>4
<1> QED BY Zenon, <1>1, <1>3, <1>4 DEF HInv, StandbyDisablesUpdates, Standing, NoneDisables

\* css_notify_ha_log_applier_state promotes to active or changes nothing.
LEMMA NotifyStep ==
  ASSUME HInv, NEW a, NEW r, NotifyApplierState(a, r)
  PROVE  HInv'
<1> DEFINE promoted == table' # table /\ AppliersDone(table', st)
<1>1. /\ pc' = pc /\ st' = (IF promoted THEN Transit(st, "active") ELSE st)
      /\ disabled' = (disabled /\ ~promoted)
  BY Zenon DEF NotifyApplierState
<1>2. promoted => st \in {"to_be_active", "active"}
  BY Zenon DEF AppliersDone
<1> HIDE DEF promoted
<1>3. CASE promoted
  <2>1. st' = "active"
    BY Zenon, <1>1, <1>2, <1>3 DEF Transit
  <2> QED BY Zenon, <1>1, <2>1 DEF HInv, StandbyDisablesUpdates
<1>4. CASE ~promoted
  BY Zenon, <1>1, <1>4 DEF HInv, StandbyDisablesUpdates
<1> QED BY Zenon, <1>3, <1>4

\* A client moves: only its own place changes.
LEMMA ClientMoves ==
  ASSUME HInv, NEW c \in Client, NEW from, NEW to, At(c, from, to)
  PROVE  /\ DOMAIN pc' = Client /\ pc[c] = from /\ pc'[c] = to
         /\ \A d \in Client : d # c => pc'[d] = pc[d]
BY Zenon DEF HInv, At

\* The steps of a client that leave the state and the switch alone.
LEMMA ClientStays ==
  ASSUME HInv, NEW c \in Client, NEW from, NEW to, At(c, from, to), from # "disable",
         st' = st, disabled' = disabled
  PROVE  HInv'
<1>1. /\ DOMAIN pc' = Client /\ pc[c] # "disable"
      /\ \A d \in Client : d # c => pc'[d] = pc[d]
  BY Zenon, ClientMoves
<1>2. NoneDisables' => NoneDisables
  BY Zenon, <1>1 DEF NoneDisables
<1> QED BY Zenon, <1>1, <1>2 DEF HInv, StandbyDisablesUpdates, NoneDisables

\* The last client of a failback: it is about to disable updates from its
\* transition on.
LEMMA LastClientSteps ==
  ASSUME HInv, NEW c \in Client, LastClientTransits(c) \/ LastClientDisables(c)
  PROVE  HInv'
<1>1. CASE LastClientDisables(c)
  <2>1. disabled' = TRUE /\ At(c, "disable", "leaving")
    BY Zenon, <1>1 DEF LastClientDisables
  <2>2. DOMAIN pc' = Client
    BY Zenon, <2>1, ClientMoves
  <2> QED BY Zenon, <2>1, <2>2 DEF HInv, StandbyDisablesUpdates
<1>2. CASE LastClientTransits(c)
  <2> DEFINE next == Transit(st, "standby")
             to == IF next = "standby" THEN "disable" ELSE "leaving"
  <2>1. At(c, "last", to) /\ st' = (IF next = "na" THEN st ELSE next) /\ disabled' = disabled
    BY Zenon, <1>2 DEF LastClientTransits
  <2>2. next \in {"standby", "to_be_standby", "na"}
    BY Zenon DEF Transit
  <2> HIDE DEF next
  <2>3. /\ DOMAIN pc' = Client /\ pc[c] = "last" /\ pc'[c] = to
        /\ \A d \in Client : d # c => pc'[d] = pc[d]
    BY Zenon, <2>1, ClientMoves
  <2>4. CASE next = "standby"
    BY Zenon, <2>3, <2>4 DEF HInv, StandbyDisablesUpdates
  <2>5. CASE next = "to_be_standby"
    BY Zenon, <2>1, <2>3, <2>5 DEF HInv, StandbyDisablesUpdates
  <2>6. CASE next = "na"
    <3>1. NoneDisables' => NoneDisables
      BY Zenon, <2>3 DEF NoneDisables
    <3> QED BY Zenon, <2>1, <2>3, <2>6, <3>1 DEF HInv, StandbyDisablesUpdates, NoneDisables
  <2> QED BY Zenon, <2>2, <2>4, <2>5, <2>6
<1> QED BY Zenon, <1>1, <1>2

\* The other steps of a client.
LEMMA ClientSteps ==
  ASSUME HInv, NEW c \in Client,
         Register(c) \/ Leave(c) \/ EndTransaction(c) \/ RegisterCheck(c) \/ Release(c)
  PROVE  HInv'
<1>1. /\ st' = st
      /\ \E from, to : from \in {"off", "in", "assigned", "leaving"} /\ At(c, from, to)
  BY DEF Register, Leave, EndTransaction, RegisterCheck, Release
<1>2. disabled' = disabled
  BY Zenon DEF Register, Leave, EndTransaction, RegisterCheck, Release
<1>3. PICK from, to : from \in {"off", "in", "assigned", "leaving"} /\ At(c, from, to)
  BY Zenon, <1>1
<1>4. from # "disable"
  BY Zenon, <1>3
<1> QED BY Zenon, <1>1, <1>2, <1>3, <1>4, ClientStays

-----------------------------------------------------------------------------
\* A standby, and a server that is to be active, has updates disabled: no
\* sequence of heartbeat and administrator requests, reports of any number of
\* appliers and comings and goings of clients leaves them enabled
\* (css_change_ha_server_state, css_notify_ha_log_applier_state,
\* css_check_ha_server_state_for_client).
THEOREM StandbyDisablesUpdatesAlways == Spec => []StandbyDisablesUpdates
<1>1. Init => HInv
  <2>1. Init => disabled
    BY Zenon DEF Init
  <2>2. Init => DOMAIN pc = Client
    BY Zenon DEF Init
  <2> QED BY Zenon, <2>1, <2>2 DEF HInv, StandbyDisablesUpdates
<1>2. HInv /\ [Next]_vars => HInv'
  <2> SUFFICES ASSUME HInv, [Next]_vars
               PROVE  HInv'
    BY Zenon
  <2>1. CASE Request
    <3>1. PICK req \in {"active", "standby", "maintenance"}, force \in BOOLEAN, heartbeat \in BOOLEAN :
            ChangeState(req, force, heartbeat)
      BY Zenon, <2>1 DEF Request
    <3> QED BY Zenon, <3>1, ChangeStateStep
  <2>2. ASSUME NEW a \in Applier,
               ApplierConnects(a) \/ ApplierDrops(a) \/ \E r \in Report : ApplierReports(a, r)
        PROVE  HInv'
    <3>1. \E r : NotifyApplierState(a, r)
      BY Zenon, <2>2 DEF ApplierConnects, ApplierDrops, ApplierReports
    <3> QED BY Zenon, <3>1, NotifyStep
  <2>3. ASSUME NEW c \in Client,
               Register(c) \/ Leave(c) \/ EndTransaction(c) \/ ClientStep(c)
        PROVE  HInv'
    BY Zenon, <2>3, ClientSteps, LastClientSteps DEF ClientStep
  <2>4. CASE UNCHANGED vars
    <3>1. st' = st /\ disabled' = disabled /\ pc' = pc
      BY Zenon, <2>4 DEF vars
    <3> QED BY Zenon, <3>1 DEF HInv, StandbyDisablesUpdates
  <2> QED BY Zenon, <2>1, <2>2, <2>3, <2>4 DEF Next
<1>3. HInv => StandbyDisablesUpdates
  BY Zenon DEF HInv
<1> QED BY <1>1, <1>2, <1>3, PTL DEF Spec

-----------------------------------------------------------------------------
(* The slots of ha_Log_applier_state.                                      *)

\* An applier that drops leaves a slot that the report of another one may
\* take; with a single applier, or when none drops, that cannot happen.
SlotsKeepTheirOwner == NumHosts = 1 \/ MaxDrops = 0

Slot == [id : Applier, state : Report]

\* A slot with a report holds the last report of its applier, no applier has
\* two of them, and only the newest slot may wait for its first report.
SlotsOK(tb, sd) ==
  /\ tb \in Seq(Slot) /\ Len(tb) <= NumHosts /\ sd \in [Applier -> Report \cup {"off"}]
  /\ \A i \in 1 .. Len(tb) : tb[i].state # "unregistered" => sd[tb[i].id] = tb[i].state
  /\ \A i, j \in 1 .. Len(tb) :
       tb[i].state # "unregistered" /\ tb[j].state # "unregistered" /\ tb[i].id = tb[j].id => i = j
  /\ \A i \in 1 .. Len(tb) : tb[i].state = "unregistered" => i = Len(tb)

SInv == SlotsOK(table, said) /\ drops \in 0 .. MaxDrops /\ st # "idle"

\* A full table in which every slot says done speaks for every applier.
LEMMA AllSlotsDone ==
  ASSUME NEW tb, NEW sd, SlotsOK(tb, sd), Len(tb) = NumHosts,
         \A i \in 1 .. NumHosts : tb[i].state = "done",
         NEW a \in Applier
  PROVE  sd[a] = "done"
<1> DEFINE f == [i \in 1 .. NumHosts |-> tb[i].id]
<1>1. NumHosts \in Nat /\ IsFiniteSet(Applier)
  BY Zenon, HaServerAssumption, FS_CardinalityType DEF NumHosts
<1>2. IsFiniteSet(1 .. NumHosts) /\ Cardinality(1 .. NumHosts) = Cardinality(Applier)
  BY <1>1, FS_Interval DEF NumHosts
<1>3. \A i \in 1 .. NumHosts : tb[i] \in Slot
  BY DEF SlotsOK
<1>4. f \in [1 .. NumHosts -> Applier]
  BY Zenon, <1>3 DEF Slot
<1>5. \A i, j \in 1 .. NumHosts : f[i] = f[j] => i = j
  BY Zenon DEF SlotsOK
<1> HIDE DEF f
<1>6. f \in Injection(1 .. NumHosts, Applier)
  BY Zenon, <1>4, <1>5 DEF Injection, IsInjective
<1>7. f \in Surjection(1 .. NumHosts, Applier)
  BY Zenon, <1>1, <1>2, <1>6, FS_Injection
<1>8. PICK i \in 1 .. NumHosts : f[i] = a
  BY Zenon, <1>7 DEF Surjection
<1> QED BY Zenon, <1>8 DEF SlotsOK, f

\* A slot of the table gets a new report.
LEMMA SlotUpdated ==
  ASSUME NEW tb \in Seq(Slot), NEW k \in 1 .. Len(tb), NEW e \in Slot
  PROVE  /\ [tb EXCEPT ![k] = e] \in Seq(Slot) /\ Len([tb EXCEPT ![k] = e]) = Len(tb)
         /\ [tb EXCEPT ![k] = e][k] = e
         /\ \A i \in 1 .. Len(tb) : i # k => [tb EXCEPT ![k] = e][i] = tb[i]
OBVIOUS

\* A slot is added to the table.
LEMMA SlotAdded ==
  ASSUME NEW tb \in Seq(Slot), NEW e \in Slot
  PROVE  /\ Append(tb, e) \in Seq(Slot) /\ Len(Append(tb, e)) = Len(tb) + 1 /\ Len(tb) \in Nat
         /\ Append(tb, e)[Len(tb) + 1] = e
         /\ \A i \in 1 .. Len(tb) : Append(tb, e)[i] = tb[i]
OBVIOUS

\* The slots that a report of applier a may take.
Matches(a) == {i \in 1 .. Len(table) : table[i].id = a \/ table[i].state = "unregistered"}

\* Where css_notify_ha_log_applier_state puts a report.
LEMMA WhereReported ==
  ASSUME table \in Seq(Slot), NEW a, NEW r
  PROVE  \/ \E k \in Matches(a) : /\ \A j \in Matches(a) : k <= j
                                  /\ Reported(a, r) = [table EXCEPT ![k] = [id |-> a, state |-> r]]
         \/ /\ Matches(a) = {} /\ Len(table) < NumHosts
            /\ Reported(a, r) = Append(table, [id |-> a, state |-> r])
         \/ Matches(a) = {} /\ Reported(a, r) = table
<1> DEFINE slot == CHOOSE i \in Matches(a) : \A j \in Matches(a) : i <= j
           match == {i \in DOMAIN table : table[i].id = a \/ table[i].state = "unregistered"}
<1>1. match = Matches(a) /\ Matches(a) \subseteq Nat
  BY DEF Matches
<1>2. Reported(a, r) = IF Matches(a) # {} THEN [table EXCEPT ![slot] = [id |-> a, state |-> r]]
                       ELSE IF Len(table) < NumHosts THEN Append(table, [id |-> a, state |-> r])
                       ELSE table
  <2>1. Reported(a, r) =
          IF match # {}
          THEN [table EXCEPT ![CHOOSE i \in match : \A j \in match : i <= j] = [id |-> a, state |-> r]]
          ELSE IF Len(table) < NumHosts THEN Append(table, [id |-> a, state |-> r]) ELSE table
    BY Zenon DEF Reported
  <2> HIDE DEF match
  <2> QED BY Zenon, <1>1, <2>1
<1>3. ASSUME Matches(a) # {}
      PROVE  slot \in Matches(a) /\ \A j \in Matches(a) : slot <= j
  <2>1. \E i \in Matches(a) : \A j \in Matches(a) : <<j, i>> \notin OpToRel(<, Nat)
    BY Zenon, <1>1, <1>3, WFMin, NatLessThanWellFounded
  <2>2. ASSUME NEW i \in Matches(a), NEW j \in Matches(a), <<j, i>> \notin OpToRel(<, Nat)
        PROVE  i <= j
    BY <1>1, <2>2 DEF OpToRel
  <2>3. \E i \in Matches(a) : \A j \in Matches(a) : i <= j
    BY Zenon, <2>1, <2>2
  <2> QED BY Zenon, <2>3
<1> HIDE DEF slot
<1> QED BY Zenon, <1>2, <1>3

\* What applier a and the server know after a report, a connection or, with a
\* single applier, a disconnection.
Tells(a, r, w) ==
  \/ r # "unregistered" /\ w = r
  \/ r = "unregistered" /\ w = "unregistered" /\ said[a] = "off"
  \/ r = "unregistered" /\ w = "off" /\ NumHosts = 1

\* A report keeps the slots with their owners.
LEMMA ReportKeeps ==
  ASSUME SlotsOK(table, said), NEW a \in Applier, NEW r \in Report,
         NEW w \in Report \cup {"off"}, Tells(a, r, w)
  PROVE  SlotsOK(Reported(a, r), [said EXCEPT ![a] = w])
<1> DEFINE e == [id |-> a, state |-> r]
           sd == [said EXCEPT ![a] = w]
<1>0. /\ \A i \in 1 .. Len(table) :
           table[i].state # "unregistered" => said[table[i].id] = table[i].state
      /\ \A i, j \in 1 .. Len(table) :
           table[i].state # "unregistered" /\ table[j].state # "unregistered"
             /\ table[i].id = table[j].id => i = j
  BY Zenon DEF SlotsOK
<1>1. /\ table \in Seq(Slot) /\ Len(table) \in Nat /\ Len(table) <= NumHosts
      /\ said \in [Applier -> Report \cup {"off"}]
      /\ \A i \in 1 .. Len(table) : table[i] \in Slot
      /\ NumHosts \in Nat
  BY HaServerAssumption, FS_CardinalityType DEF SlotsOK, NumHosts
<1>2. /\ sd \in [Applier -> Report \cup {"off"}] /\ sd[a] = w
      /\ \A b \in Applier : b # a => sd[b] = said[b]
  BY Zenon, <1>1
<1>3. e \in Slot /\ e.id = a /\ e.state = r
  BY Zenon DEF Slot
<1>4. ASSUME NEW i \in 1 .. Len(table), table[i].id = a, table[i].state # "unregistered"
      PROVE  r # "unregistered" \/ NumHosts = 1
  <2>1. said[a] # "off"
    <3>1. said[a] = table[i].state /\ table[i].state \in Report
      BY Zenon, <1>1, <1>4 DEF SlotsOK, Slot
    <3> QED BY Zenon, <3>1 DEF Report
  <2> QED BY Zenon, <2>1 DEF Tells
<1> HIDE DEF e, sd
<1>5. ASSUME NEW k \in Matches(a), \A j \in Matches(a) : k <= j
      PROVE  SlotsOK([table EXCEPT ![k] = e], sd)
  <2> DEFINE tb == [table EXCEPT ![k] = e]
  <2>0. k \in 1 .. Len(table)
    BY Zenon DEF Matches
  <2>1. /\ tb \in Seq(Slot) /\ Len(tb) = Len(table) /\ tb[k] = e
        /\ \A i \in 1 .. Len(table) : i # k => tb[i] = table[i]
    BY <1>1, <1>3, <2>0, SlotUpdated
  <2> HIDE DEF tb
  <2>2. ASSUME NEW i \in 1 .. Len(table), i # k, table[i].id = a, table[i].state # "unregistered"
        PROVE  FALSE
    <3>1. i \in Matches(a) /\ k <= i
      BY Zenon, <1>5, <2>2 DEF Matches
    <3>2. k # Len(table)
      BY <1>1, <2>0, <2>2, <3>1
    <3>3. table[k].state # "unregistered"
      BY Zenon, <2>0, <3>2 DEF SlotsOK
    <3>4. table[k].id = a
      BY Zenon, <3>3 DEF Matches
    <3> QED BY Zenon, <2>0, <2>2, <3>3, <3>4 DEF SlotsOK
  <2>3. ASSUME NEW i \in 1 .. Len(tb), tb[i].state # "unregistered"
        PROVE  sd[tb[i].id] = tb[i].state
    <3>1. CASE i = k
      BY Zenon, <1>2, <1>3, <2>1, <2>3, <3>1 DEF Tells
    <3>2. CASE i # k
      <4>1. tb[i] = table[i] /\ table[i].id # a /\ table[i].id \in Applier
        BY Zenon, <1>1, <2>1, <2>2, <2>3, <3>2 DEF Slot
      <4>2. i \in 1 .. Len(table) /\ table[i].state # "unregistered"
        BY Zenon, <2>1, <2>3, <4>1
      <4>3. sd[table[i].id] = said[table[i].id]
        BY Zenon, <1>2, <4>1
      <4>4. said[table[i].id] = table[i].state
        BY Zenon, <1>0, <4>2
      <4> QED BY Zenon, <4>1, <4>3, <4>4
    <3> QED BY Zenon, <3>1, <3>2
  <2>4. ASSUME NEW i \in 1 .. Len(tb), NEW j \in 1 .. Len(tb),
               tb[i].state # "unregistered", tb[j].state # "unregistered", tb[i].id = tb[j].id
        PROVE  i = j
    <3>1. i \in 1 .. Len(table) /\ j \in 1 .. Len(table)
      BY Zenon, <2>1
    <3>2. CASE i # k /\ j # k
      <4>1. tb[i] = table[i] /\ tb[j] = table[j]
        BY Zenon, <2>1, <3>1, <3>2
      <4> QED BY Zenon, <1>0, <2>4, <3>1, <4>1
    <3>3. CASE i = k /\ j # k
      <4>1. tb[j] = table[j] /\ tb[i].id = a
        BY Zenon, <1>3, <2>1, <3>1, <3>3
      <4> QED BY Zenon, <2>2, <2>4, <3>1, <3>3, <4>1
    <3>4. CASE i # k /\ j = k
      <4>1. tb[i] = table[i] /\ tb[j].id = a
        BY Zenon, <1>3, <2>1, <3>1, <3>4
      <4> QED BY Zenon, <2>2, <2>4, <3>1, <3>4, <4>1
    <3> QED BY Zenon, <3>2, <3>3, <3>4
  <2>5. ASSUME NEW i \in 1 .. Len(tb), tb[i].state = "unregistered"
        PROVE  i = Len(tb)
    <3>1. CASE i # k
      BY Zenon, <2>1, <2>5, <3>1 DEF SlotsOK
    <3>2. CASE i = k /\ table[k].state = "unregistered"
      BY Zenon, <2>0, <2>1, <3>2 DEF SlotsOK
    <3>3. CASE i = k /\ table[k].state # "unregistered"
      <4>1. table[k].id = a /\ r = "unregistered"
        BY Zenon, <1>3, <2>1, <2>5, <3>3 DEF Matches
      <4>2. NumHosts = 1
        BY Zenon, <1>4, <2>0, <3>3, <4>1
      <4> QED BY <1>1, <2>0, <2>1, <3>3, <4>2
    <3> QED BY Zenon, <3>1, <3>2, <3>3
  <2>6. Len(tb) <= NumHosts
    BY Zenon, <1>1, <2>1
  <2>7. SlotsOK(tb, sd)
    BY Zenon, <1>2, <2>1, <2>3, <2>4, <2>5, <2>6 DEF SlotsOK
  <2> QED BY Zenon, <2>7 DEF tb
<1>6. ASSUME Matches(a) = {}, Len(table) < NumHosts
      PROVE  SlotsOK(Append(table, e), sd)
  <2> DEFINE tb == Append(table, e)
             n == Len(table)
  <2>1. /\ tb \in Seq(Slot) /\ Len(tb) = n + 1 /\ n \in Nat /\ tb[n + 1] = e
        /\ \A i \in 1 .. n : tb[i] = table[i]
    BY Zenon, <1>1, <1>3, SlotAdded
  <2> HIDE DEF tb
  <2>2. \A i \in 1 .. n : table[i].id # a /\ table[i].state # "unregistered"
    BY Zenon, <1>6 DEF Matches
  <2>3. ASSUME NEW i \in 1 .. Len(tb) PROVE i \in 1 .. n \/ i = n + 1
    BY <2>1
  <2>4. ASSUME NEW i \in 1 .. Len(tb), tb[i].state # "unregistered"
        PROVE  sd[tb[i].id] = tb[i].state
    <3>1. CASE i = n + 1
      BY Zenon, <1>2, <1>3, <2>1, <2>4, <3>1 DEF Tells
    <3>2. CASE i \in 1 .. n
      <4>1. tb[i] = table[i] /\ table[i].id # a /\ table[i].id \in Applier
        BY Zenon, <1>1, <2>1, <2>2, <3>2 DEF Slot
      <4> QED BY Zenon, <1>0, <1>2, <2>4, <3>2, <4>1
    <3> QED BY Zenon, <2>3, <3>1, <3>2
  <2>5. ASSUME NEW i \in 1 .. Len(tb), NEW j \in 1 .. Len(tb),
               tb[i].state # "unregistered", tb[j].state # "unregistered", tb[i].id = tb[j].id
        PROVE  i = j
    <3>1. CASE i \in 1 .. n /\ j \in 1 .. n
      <4>1. tb[i] = table[i] /\ tb[j] = table[j]
        BY Zenon, <2>1, <3>1
      <4> QED BY Zenon, <1>0, <2>5, <3>1, <4>1
    <3>2. CASE i \in 1 .. n /\ j = n + 1
      <4>1. tb[i] = table[i] /\ tb[j].id = a
        BY Zenon, <1>3, <2>1, <3>2
      <4> QED BY Zenon, <2>2, <2>5, <3>2, <4>1
    <3>3. CASE i = n + 1 /\ j \in 1 .. n
      <4>1. tb[j] = table[j] /\ tb[i].id = a
        BY Zenon, <1>3, <2>1, <3>3
      <4> QED BY Zenon, <2>2, <2>5, <3>3, <4>1
    <3> QED BY Zenon, <2>3, <3>1, <3>2, <3>3
  <2>6. ASSUME NEW i \in 1 .. Len(tb), tb[i].state = "unregistered"
        PROVE  i = Len(tb)
    BY Zenon, <2>1, <2>2, <2>3, <2>6
  <2>7. Len(tb) <= NumHosts
    BY <1>1, <1>6, <2>1
  <2>8. SlotsOK(tb, sd)
    BY Zenon, <1>2, <2>1, <2>4, <2>5, <2>6, <2>7 DEF SlotsOK
  <2> QED BY Zenon, <2>8 DEF tb
<1>7. ASSUME Matches(a) = {}
      PROVE  SlotsOK(table, sd)
  <2>1. \A i \in 1 .. Len(table) : table[i].id # a /\ table[i].id \in Applier
    BY Zenon, <1>1, <1>7 DEF Matches, Slot
  <2> QED BY Zenon, <1>2, <2>1 DEF SlotsOK
<1> QED BY Zenon, <1>1, <1>5, <1>6, <1>7, WhereReported DEF e, sd

\* A request keeps the server out of the idle state, and makes it active
\* unforced only when the table says that every applier is done.
LEMMA RequestActive ==
  ASSUME st # "idle", NEW req \in {"active", "standby", "maintenance"}, NEW force \in BOOLEAN,
         NEW heartbeat, ChangeState(req, force, heartbeat)
  PROVE  /\ st' # "idle" /\ UNCHANGED <<table, said, drops>>
         /\ st # "active" /\ st' = "active" /\ ~forced' =>
              Len(table) = NumHosts /\ \A i \in 1 .. NumHosts : table[i].state = "done"
<1> DEFINE s == IF force THEN req ELSE st
<1>1. /\ UNCHANGED <<table, said, drops>>
      /\ req = "active" => ChangeToActive(s)
      /\ req = "standby" => ChangeToStandby(s)
      /\ req = "maintenance" => ChangeToMaintenance(s)
  BY Zenon DEF ChangeState
<1>2. forced' = force /\ ~Ignored(req, force, heartbeat)
  BY Zenon DEF ChangeState
<1>3. s # "idle" /\ (~force => s = st) /\ (force => s = req)
  BY Zenon
<1> HIDE DEF s
<1>4. CASE req = "active"
  <2> DEFINE first == Transit(s, "active")
             final == IF AppliersDone(table, first) THEN Transit(first, "active") ELSE first
  <2>1. ChangeToActive(s)
    BY Zenon, <1>1, <1>4
  <2>2. st' = IF first = "na" THEN s ELSE final
    BY Zenon, <2>1 DEF ChangeToActive
  <2>3. /\ first \in {"active", "to_be_active", "na"}
        /\ first = "active" => s \in {"active", "to_be_active"}
    BY Zenon, <1>3 DEF Transit
  <2>4. Transit(first, "active") \in {"active", "na"} \/ first = "na"
    BY Zenon, <2>3 DEF Transit
  <2>5. st' # "idle"
    <3>1. CASE first = "na"
      BY Zenon, <1>3, <2>2, <3>1
    <3>2. CASE first # "na" /\ AppliersDone(table, first)
      BY Zenon, <2>2, <2>4, <3>2
    <3>3. CASE first # "na" /\ ~AppliersDone(table, first)
      BY Zenon, <2>2, <2>3, <3>3
    <3> QED BY Zenon, <3>1, <3>2, <3>3
  <2>6. ASSUME st # "active", st' = "active", ~forced'
        PROVE  AppliersDone(table, first)
    <3>1. ~force /\ s = st /\ st # "to_be_active"
      BY Zenon, <1>2, <1>3, <1>4, <2>6 DEF Ignored
    <3>2. first # "active"
      BY Zenon, <2>3, <2>6, <3>1
    <3> QED BY Zenon, <2>2, <2>6, <3>1, <3>2
  <2>7. AppliersDone(table, first) =>
          Len(table) = NumHosts /\ \A i \in 1 .. NumHosts : table[i].state = "done"
    BY Zenon DEF AppliersDone
  <2> QED BY Zenon, <1>1, <2>5, <2>6, <2>7
<1>5. CASE req = "standby"
  <2>1. ChangeToStandby(s)
    BY Zenon, <1>1, <1>5
  <2>2. st' \in {"standby", "to_be_standby", s, "na"}
    BY Zenon, <2>1 DEF ChangeToStandby, Transit
  <2>3. ~force => s = st
    BY Zenon, <1>3
  <2>4. force => s = "standby"
    BY Zenon, <1>3, <1>5
  <2> QED BY Zenon, <1>1, <1>2, <1>3, <2>2, <2>3, <2>4
<1>6. CASE req = "maintenance"
  <2>1. ChangeToMaintenance(s)
    BY Zenon, <1>1, <1>6
  <2>2. st' \in {"maintenance", s}
    BY Zenon, <2>1 DEF ChangeToMaintenance, Transit
  <2>3. force => s = "maintenance"
    BY Zenon, <1>3, <1>6
  <2> QED BY Zenon, <1>1, <1>2, <1>3, <2>2, <2>3
<1> QED BY Zenon, <1>4, <1>5, <1>6

\* What a step has to do for ActiveMeansDone.
ActivatesDone == st # "active" /\ st' = "active" /\ ~forced' => \A a \in Applier : said'[a] = "done"

\* A report, a connection or a disconnection of an applier.
LEMMA ApplierKeeps ==
  ASSUME SInv, SlotsKeepTheirOwner, NEW a \in Applier,
         ApplierConnects(a) \/ ApplierDrops(a) \/ \E r \in Report : ApplierReports(a, r)
  PROVE  SInv' /\ ActivatesDone
<1>1. PICK r \in Report, w \in Report \cup {"off"} :
        NotifyApplierState(a, r) /\ said' = [said EXCEPT ![a] = w] /\ Tells(a, r, w)
  <2>1. "unregistered" \in Report
    BY Zenon DEF Report
  <2>2. CASE ApplierConnects(a)
    BY Zenon, <2>1, <2>2 DEF ApplierConnects, Tells
  <2>3. CASE ApplierDrops(a)
    <3>1. drops < MaxDrops /\ drops \in 0 .. MaxDrops
      BY Zenon, <2>3 DEF ApplierDrops, SInv
    <3>2. NumHosts = 1
      BY <3>1, HaServerAssumption DEF SlotsKeepTheirOwner
    <3> QED BY Zenon, <2>1, <2>3, <3>2 DEF ApplierDrops, Tells
  <2>4. ASSUME NEW r \in Report, ApplierReports(a, r)
        PROVE  NotifyApplierState(a, r) /\ said' = [said EXCEPT ![a] = r] /\ Tells(a, r, r)
    BY Zenon, <2>4 DEF ApplierReports, Tells
  <2> QED BY Zenon, <2>2, <2>3, <2>4
<1>2. drops' \in 0 .. MaxDrops
  <2>1. drops' = drops \/ (drops < MaxDrops /\ drops' = drops + 1)
    BY Zenon DEF ApplierConnects, ApplierDrops, ApplierReports
  <2>2. drops \in 0 .. MaxDrops /\ MaxDrops \in Nat
    BY Zenon, HaServerAssumption DEF SInv
  <2> QED BY <2>1, <2>2
<1>3. SlotsOK(table', said')
  BY Zenon, <1>1, ReportKeeps DEF SInv, NotifyApplierState
<1>4. \/ st' = st
      \/ AppliersDone(table', st) /\ st' = Transit(st, "active")
  BY Zenon, <1>1 DEF NotifyApplierState
<1>5. AppliersDone(table', st) =>
        /\ st \in {"to_be_active", "active"} /\ Len(table') = NumHosts
        /\ \A i \in 1 .. NumHosts : table'[i].state = "done"
  BY Zenon DEF AppliersDone
<1>6. AppliersDone(table', st) => \A b \in Applier : said'[b] = "done"
  <2>1. PICK tb, sd : tb = table' /\ sd = said'
    BY Zenon
  <2>2. ASSUME AppliersDone(table', st), NEW b \in Applier
        PROVE  sd[b] = "done"
    BY Zenon, <1>3, <1>5, <2>1, <2>2, AllSlotsDone
  <2> QED BY Zenon, <2>1, <2>2
<1>7. st' # "idle"
  <2>1. st \in {"to_be_active", "active"} => Transit(st, "active") = "active"
    BY Zenon DEF Transit
  <2>2. st # "idle"
    BY Zenon DEF SInv
  <2> QED BY Zenon, <1>4, <1>5, <2>1, <2>2
<1>8. ActivatesDone
  BY Zenon, <1>4, <1>6 DEF ActivatesDone
<1> QED BY Zenon, <1>2, <1>3, <1>7, <1>8 DEF SInv

\* A step of a client leaves the appliers alone and makes no server active.
LEMMA ClientKeeps ==
  ASSUME SInv, NEW c \in Client, Register(c) \/ Leave(c) \/ EndTransaction(c) \/ ClientStep(c)
  PROVE  SInv' /\ ActivatesDone
<1>1. UNCHANGED <<table, said, drops>>
  BY Zenon DEF Register, Leave, EndTransaction, ClientStep, RegisterCheck, Release,
               LastClientTransits, LastClientDisables
<1>2. st' = st \/ (st' = Transit(st, "standby") /\ Transit(st, "standby") # "na")
  BY Zenon DEF Register, Leave, EndTransaction, ClientStep, RegisterCheck, Release,
               LastClientTransits, LastClientDisables
<1>3. Transit(st, "standby") \in {"standby", "to_be_standby", "na"}
  BY Zenon DEF Transit
<1>4. st' = st \/ st' \in {"standby", "to_be_standby"}
  BY Zenon, <1>2, <1>3
<1>5. ActivatesDone
  BY Zenon, <1>4 DEF ActivatesDone
<1> QED BY Zenon, <1>1, <1>4, <1>5 DEF SInv

\* Unless it was forced, a server becomes active only when every log applier
\* has reported that it is done (css_change_ha_server_state and
\* css_notify_ha_log_applier_state with the table of the appliers' reports):
\* with a single log applier that may come and go, or with any number of
\* appliers that stay connected.
THEOREM ActiveMeansDoneAlways == SlotsKeepTheirOwner /\ Spec => ActiveMeansDone
<1> SUFFICES ASSUME SlotsKeepTheirOwner
             PROVE  Spec => ActiveMeansDone
  BY Zenon
<1>1. Init => SInv
  <2>1. ASSUME Init PROVE table = <<>> /\ said = [a \in Applier |-> "off"] /\ drops = 0 /\ st = "standby"
    BY Zenon, <2>1 DEF Init
  <2>2. NumHosts \in Nat /\ MaxDrops \in Nat
    BY Zenon, HaServerAssumption, FS_CardinalityType DEF NumHosts
  <2>3. ASSUME Init PROVE SlotsOK(table, said)
    <3>1. table \in Seq(Slot) /\ Len(table) = 0 /\ 1 .. Len(table) = {}
      BY <2>1, <2>3
    <3>2. said \in [Applier -> Report \cup {"off"}]
      BY Zenon, <2>1, <2>3
    <3> QED BY <2>2, <3>1, <3>2 DEF SlotsOK
  <2> QED BY <2>1, <2>2, <2>3 DEF SInv
<1>2. SInv /\ [Next]_vars =>
        SInv' /\ [st # "active" /\ st' = "active" /\ ~forced' => \A a \in Applier : said'[a] = "done"]_vars
  <2> SUFFICES ASSUME SInv, [Next]_vars
               PROVE  SInv' /\ (ActivatesDone \/ UNCHANGED vars)
    BY Zenon DEF ActivatesDone
  <2>1. CASE Request
    <3>1. PICK req \in {"active", "standby", "maintenance"}, force \in BOOLEAN, heartbeat \in BOOLEAN :
            ChangeState(req, force, heartbeat)
      BY Zenon, <2>1 DEF Request
    <3>2. /\ st' # "idle" /\ UNCHANGED <<table, said, drops>>
          /\ st # "active" /\ st' = "active" /\ ~forced' =>
               Len(table) = NumHosts /\ \A i \in 1 .. NumHosts : table[i].state = "done"
      BY Zenon, <3>1, RequestActive DEF SInv
    <3>3. SInv'
      BY Zenon, <3>2 DEF SInv
    <3>4. ASSUME st # "active", st' = "active", ~forced', NEW a \in Applier
          PROVE  said[a] = "done"
      BY Zenon, <3>2, <3>4, AllSlotsDone DEF SInv
    <3> QED BY Zenon, <3>2, <3>3, <3>4 DEF ActivatesDone
  <2>2. ASSUME NEW a \in Applier,
               ApplierConnects(a) \/ ApplierDrops(a) \/ \E r \in Report : ApplierReports(a, r)
        PROVE  SInv' /\ ActivatesDone
    BY Zenon, <2>2, ApplierKeeps
  <2>3. ASSUME NEW c \in Client,
               Register(c) \/ Leave(c) \/ EndTransaction(c) \/ ClientStep(c)
        PROVE  SInv' /\ ActivatesDone
    BY Zenon, <2>3, ClientKeeps
  <2>4. CASE UNCHANGED vars
    <3>1. UNCHANGED <<st, table, said, drops>>
      BY Zenon, <2>4 DEF vars
    <3> QED BY Zenon, <2>4, <3>1 DEF SInv
  <2> QED BY Zenon, <2>1, <2>2, <2>3, <2>4 DEF Next
<1> QED BY <1>1, <1>2, PTL DEF Spec, ActiveMeansDone

=============================================================================
