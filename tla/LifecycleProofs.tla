--------------------------- MODULE LifecycleProofs ---------------------------
(***************************************************************************)
(* The handlers that create, reactivate, restore and remove agents         *)
(* implement what the lock table promises (Delegation), for every number   *)
(* of agents, directories and deliveries; the registry, the directories    *)
(* and the locks agree; and an agent to which no two deliveries have       *)
(* crossed has one task, which its entry or teardown knows and which holds *)
(* its workspace.                                                          *)
(*                                                                         *)
(* Base is the inductive invariant everything rests on: the types, the     *)
(* tree of agents that reservations fix (TreeInv), and where each handler  *)
(* is, with what that says of its agent (HandlerInv).  DInv is the         *)
(* invariant of Delegation, read through the refinement mapping.  A lemma  *)
(* named ...Next goes through all handlers in the order of the module.     *)
(***************************************************************************)
EXTENDS Lifecycle, FiniteSetTheorems, TLAPS

\* Nothing has been said of a yet: its name is free and no handler is at it.
Unborn(a) ==
    /\ entry[a] = "none" /\ disk[a] = "none" /\ pc[a] = "idle" /\ tear[a] = "no"
    /\ cfg[a].sup = Nobody /\ cfg[a].above = {} /\ ~cfg[a].heir
    /\ task[a] = "none" /\ \A d \in Deliveries : target[d] # a

\* The tree of agents: fixed for each agent by its reservation.
TreeInv ==
    /\ cfg[Root].sup = Nobody /\ cfg[Root].above = {} /\ ~cfg[Root].heir
    /\ cfg[Root].stead = Root /\ pc[Root] = "idle"
    /\ \A a \in Agents :
          /\ IsFiniteSet(cfg[a].above)
          /\ cfg[a].stead = Nobody => Unborn(a)
          /\ cfg[a].stead # Nobody /\ a # Root =>
                /\ cfg[a].sup \in Agents /\ cfg[cfg[a].sup].stead # Nobody
                /\ cfg[a].above = cfg[cfg[a].sup].above \cup {cfg[a].sup}
          /\ cfg[a].heir =>
                /\ cfg[a].normal /\ cfg[cfg[a].sup].normal
                /\ cfg[a].ws = cfg[cfg[a].sup].ws /\ cfg[a].stead = cfg[cfg[a].sup].stead
          /\ \A x \in cfg[a].above : \E z \in cfg[a].above \cup {a} : cfg[z].sup = x

\* Where a spawn or removal is, and what that means for its agent: nothing
\* else knows of an agent that is being created.
SpawnerInv ==
    \A a \in Agents :
        /\ pc[a] \in SpawnPCs
        /\ pc[a] = "chained" => chain[a] = cfg[a].above
        /\ pc[a] = "reserved" => disk[a] = "none"
        /\ pc[a] \notin {"idle", "done"} =>
              /\ entry[a] = "none" /\ tear[a] = "no"
              /\ \A y \in Agents : cfg[y].sup # a
              /\ \A d \in Deliveries : target[d] # a
        /\ tear[a] # "no" => entry[a] = "none"

\* Where a delivery is.
DelivererInv ==
    \A d \in Deliveries :
        /\ pc[d] \in DeliverPCs
        /\ pc[d] # "idle" => target[d] \in Agents
        /\ pc[d] = "idle" => task[d] = "none" /\ target[d] = Nobody
        /\ pc[d] = "chained" => chain[d] \subseteq cfg[target[d]].above

\* An entry holds handles and channel of its own agent's incarnations.
HolderInv ==
    \A a \in Agents :
        /\ entry[a] = "live" => handle[a] # Nobody
        /\ handle[a] # Nobody => AgentOf(handle[a]) = a
        /\ chan[a] # Nobody => AgentOf(chan[a]) = a

\* While the agents are restored no handler runs.
BootInv ==
    booting => /\ \A i \in Incarnations : pc[i] \in {"idle", "done"}
               /\ \A a \in Agents : tear[a] = "no"

\* Where the handlers are.
HandlerInv == SpawnerInv /\ DelivererInv /\ HolderInv /\ BootInv

\* Registered with the configuration its meta.json holds, not as a refused directory.
Known(a) == entry[a] \in {"live", "faulted"}

\* Slots: a known or materializing agent is in its superior's list.  A boot registers the
\* refused directories before it knows anybody, and superiors before their subagents.
SlotInv ==
    /\ \A a \in Agents : a # Root /\ cfg[a].stead # Nobody =>
          /\ (Known(a) \/ pc[a] \in Materializing) /\ Registered(cfg[a].sup)
                => a \in subs[cfg[a].sup]
          /\ booting /\ Known(a) /\ disk[cfg[a].sup] = "live" => Registered(cfg[a].sup)
    /\ booting => \A a \in Agents : entry[a] = "refused" => disk[a] = "bare"
    /\ booting /\ Unreadable # {} => \A a \in Agents : ~Known(a)

\* Chains: the superiors of a live or materializing agent are known.
ChainInv ==
    \A a \in Agents :
        entry[a] = "live" \/ pc[a] \in Materializing => \A x \in cfg[a].above : Known(x)

\* The invariant of the lock table's promise: nesting is not inductive alone, as
\* a transfer keeps it only because the heir shares workspace and chain.
DInv == D!TypeOK /\ D!OwnsOnlyHome /\ D!ChainOfCommand /\ D!NestedWithinDelegation

\* Nothing is locked at first, and nobody but the root is in command.
LEMMA DInit == D!Init => DInv
BY WorkspacesAssumption
   DEF D!Init, DInv, D!TypeOK, D!OwnsOnlyHome, D!ChainOfCommand, D!NestedWithinDelegation

\* An heir or a carved-out child joins the chain at its end: a fresh agent is
\* in nobody's chain yet and owns nothing.
LEMMA AppointInv ==
    ASSUME DInv, NEW c \in Agents, NEW s \in Agents, NEW d \in Dirs, NEW heir \in BOOLEAN,
           D!Appoint(c, s, d, heir)
    PROVE  DInv'
<1> USE WorkspacesAssumption
<1>1. D!TypeOK'
  BY DEF DInv, D!TypeOK, D!Appoint, D!Fresh
<1>2. /\ c # s
      /\ \A a \in Agents : c \notin Above[a]
      /\ \A a \in Agents : Stead[a] # c
      /\ \A e \in Dirs : lock[e] # c
  BY DEF DInv, D!TypeOK, D!ChainOfCommand, D!Appoint, D!Fresh
<1>3. D!OwnsOnlyHome'
  BY <1>2 DEF DInv, D!TypeOK, D!OwnsOnlyHome, D!Appoint, D!Fresh
<1>4. D!NestedWithinDelegation'
  BY <1>2 DEF DInv, D!TypeOK, D!NestedWithinDelegation, D!Appoint, D!Fresh
<1>5. D!ChainOfCommand'
  <2> SUFFICES ASSUME NEW a \in Agents
               PROVE  /\ a \notin Above'[a]
                      /\ \A b \in Above'[a] : Stead'[b] # Nobody /\ Above'[b] \subseteq Above'[a]
                      /\ Stead'[a] = Nobody => Above'[a] = {} /\ \A e \in Dirs : lock'[e] # a
                      /\ Stead'[a] # Nobody =>
                            /\ Stead'[a] = a \/ Stead'[a] \in Above'[a]
                            /\ Stead'[Stead'[a]] = Stead'[a] /\ Home'[Stead'[a]] = Home'[a]
    BY DEF D!ChainOfCommand
  <2>1. CASE a # c
    BY <1>2, <2>1 DEF DInv, D!TypeOK, D!ChainOfCommand, D!Appoint, D!Fresh
  <2>2. CASE a = c
    <3>1. Above'[a] = Above[s] \cup {s} /\ Stead'[a] = (IF heir THEN Stead[s] ELSE c) /\ Home'[a] = d
      BY <2>2 DEF DInv, D!TypeOK, D!Appoint, D!Fresh
    <3>2. \A b \in Above[s] \cup {s} : b # c /\ Stead'[b] = Stead[b] /\ Above'[b] = Above[b]
      BY <1>2 DEF DInv, D!TypeOK, D!Appoint, D!Fresh
    <3>3. /\ a \notin Above'[a]
          /\ \A b \in Above'[a] : Stead'[b] # Nobody /\ Above'[b] \subseteq Above'[a]
      BY <1>2, <2>2, <3>1, <3>2 DEF DInv, D!TypeOK, D!ChainOfCommand, D!Appoint, D!Fresh
    <3>4. CASE heir
      <4>1. Stead[s] \in Agents /\ Stead[s] # c /\ Stead'[a] = Stead[s] /\ d = Home[s]
        BY <1>2, <3>1, <3>4 DEF DInv, D!TypeOK, D!Appoint, D!Fresh
      <4>2. Stead'[Stead[s]] = Stead[Stead[s]] /\ Home'[Stead[s]] = Home[Stead[s]]
        BY <4>1 DEF DInv, D!TypeOK, D!Appoint, D!Fresh
      <4>3. Stead[s] \in Above[s] \cup {s} /\ Stead[Stead[s]] = Stead[s] /\ Home[Stead[s]] = Home[s]
        BY DEF DInv, D!ChainOfCommand, D!Appoint, D!Fresh
      <4> QED BY <3>1, <3>3, <4>1, <4>2, <4>3
    <3>5. CASE ~heir
      <4>1. Stead'[a] = a /\ a # Nobody
        BY <2>2, <3>1, <3>5
      <4> QED BY <3>3, <4>1
    <3> QED BY <3>4, <3>5
  <2> QED BY <2>1, <2>2
<1> QED BY <1>1, <1>3, <1>4, <1>5 DEF DInv

\* A grant: the locks above the workspace are held by superiors, so those they
\* stand in for are superiors too; beneath it there are none.
LEMMA GrantInv == ASSUME DInv, NEW a \in Agents, D!Grant(a) PROVE DInv'
<1> USE WorkspacesAssumption
<1>1. D!TypeOK' /\ D!OwnsOnlyHome' /\ D!ChainOfCommand'
  BY DEF DInv, D!TypeOK, D!OwnsOnlyHome, D!ChainOfCommand, D!Grant
<1>2. ASSUME NEW d \in Dirs, NEW e \in Dirs,
             <<d, e>> \in Beneath, lock'[d] # Nobody, lock'[e] # Nobody
      PROVE  Stead'[lock'[e]] \in Above'[lock'[d]]
  <2>0. d # e
    BY <1>2
  <2>1. CASE d = Home[a]
    <3>1. lock'[d] = a /\ lock'[e] = lock[e] /\ lock[e] \in Above[a]
      BY <1>2, <2>0, <2>1 DEF DInv, D!TypeOK, D!Grant
    <3>2. Stead[lock[e]] = lock[e] \/ Stead[lock[e]] \in Above[lock[e]]
      BY <3>1 DEF DInv, D!TypeOK, D!ChainOfCommand
    <3> QED BY <3>1, <3>2 DEF DInv, D!TypeOK, D!ChainOfCommand, D!Grant
  <2>2. CASE e = Home[a]
    BY <1>2, <2>0, <2>2 DEF DInv, D!TypeOK, D!Grant
  <2>3. CASE d # Home[a] /\ e # Home[a]
    BY <1>2, <2>3 DEF DInv, D!TypeOK, D!NestedWithinDelegation, D!Grant
  <2> QED BY <2>1, <2>2, <2>3
<1> QED BY <1>1, <1>2 DEF DInv, D!NestedWithinDelegation

\* A lock passes on: the new holder stands in the same stead and has the same
\* workspace.  Handed back to a superior y, a lock above it cannot be held in
\* the stead of y itself, whose workspace is the one passed on.
LEMMA PassOnInv == ASSUME DInv, NEW x \in Agents, NEW y \in Agents, D!PassOn(x, y) PROVE DInv'
<1> USE WorkspacesAssumption
<1>1. D!TypeOK'
  BY DEF DInv, D!TypeOK, D!PassOn
<1>2. Home[y] = Home[x] /\ Stead[y] # Nobody /\ Home[x] \in Dirs
  BY DEF DInv, D!TypeOK, D!ChainOfCommand, D!PassOn
<1>3. D!OwnsOnlyHome' /\ D!ChainOfCommand'
  BY <1>2 DEF DInv, D!TypeOK, D!OwnsOnlyHome, D!ChainOfCommand, D!PassOn
<1>4. ASSUME NEW d \in Dirs, NEW e \in Dirs,
             <<d, e>> \in Beneath, lock'[d] # Nobody, lock'[e] # Nobody
      PROVE  Stead'[lock'[e]] \in Above'[lock'[d]]
  <2>0. d # e
    BY <1>4
  <2>1. CASE d = Home[x]
    <3>1. lock'[d] = y /\ lock[d] = x /\ lock'[e] = lock[e]
      BY <1>2, <2>0, <2>1 DEF DInv, D!TypeOK, D!PassOn
    <3>2. Stead[lock[e]] \in Above[x]
      BY <1>4, <3>1 DEF DInv, D!NestedWithinDelegation
    <3>3. Stead[lock[e]] # y
      <4>1. lock[e] \in Agents /\ Home[lock[e]] = e
        BY <1>4, <3>1 DEF DInv, D!TypeOK, D!OwnsOnlyHome
      <4>2. Stead[lock[e]] # Nobody => Home[Stead[lock[e]]] = e
        BY <4>1 DEF DInv, D!ChainOfCommand
      <4> QED BY <1>2, <2>0, <2>1, <4>2
    <3>4. Stead[lock[e]] \in Above[y]
      BY <3>2, <3>3 DEF DInv, D!TypeOK, D!ChainOfCommand, D!PassOn
    <3> QED BY <3>1, <3>4 DEF D!PassOn
  <2>2. CASE e = Home[x]
    <3>1. lock'[e] = y /\ lock[e] = x /\ lock'[d] = lock[d]
      BY <1>2, <2>0, <2>2 DEF DInv, D!TypeOK, D!PassOn
    <3> QED BY <1>4, <3>1 DEF DInv, D!NestedWithinDelegation, D!PassOn
  <2>3. CASE d # Home[x] /\ e # Home[x]
    BY <1>4, <2>3 DEF DInv, D!TypeOK, D!NestedWithinDelegation, D!PassOn
  <2> QED BY <2>1, <2>2, <2>3
<1> QED BY <1>1, <1>3, <1>4 DEF DInv, D!NestedWithinDelegation

\* Fewer locks satisfy whatever more of them did.
LEMMA GiveUpInv == ASSUME DInv, NEW gone, D!GiveUp(gone) PROVE DInv'
<1> USE WorkspacesAssumption
<1>1. \A d \in Dirs : lock'[d] = Nobody \/ lock'[d] = lock[d]
  BY DEF D!GiveUp
<1>2. D!TypeOK'
  BY DEF DInv, D!TypeOK, D!GiveUp
<1>3. D!ChainOfCommand'
  BY <1>1 DEF DInv, D!TypeOK, D!ChainOfCommand, D!GiveUp
<1> QED BY <1>1, <1>2, <1>3 DEF DInv, D!OwnsOnlyHome, D!NestedWithinDelegation, D!GiveUp

\* Every step keeps the invariant.
LEMMA DNext == DInv /\ [D!Next]_(D!vars) => DInv'
<1> SUFFICES ASSUME DInv, [D!Next]_(D!vars) PROVE DInv'
  OBVIOUS
<1>1. CASE UNCHANGED D!vars
  BY <1>1 DEF D!vars, DInv, D!TypeOK, D!OwnsOnlyHome, D!ChainOfCommand, D!NestedWithinDelegation
<1>2. CASE \E c \in D!Fresh, s \in Agents, d \in Dirs, heir \in BOOLEAN : D!Appoint(c, s, d, heir)
  BY <1>2, AppointInv DEF D!Fresh
<1>3. CASE \E a \in Agents : D!Grant(a) \/ D!GiveUp({a})
  BY <1>3, GrantInv, GiveUpInv
<1>4. CASE \E x, y \in Agents : D!PassOn(x, y)
  BY <1>4, PassOnInv
<1>5. CASE D!GiveUp(Agents)
  BY <1>5, GiveUpInv
<1> QED BY <1>1, <1>2, <1>3, <1>4, <1>5 DEF D!Next

\* The lock table keeps its type under every operation on it.
LEMMA LockTypes ==
    ASSUME TypeOK, NEW l \in [Dirs -> Agents \cup {Nobody}], NEW a \in Agents
    PROVE  /\ ReleaseAll(l, a) \in [Dirs -> Agents \cup {Nobody}]
           /\ Acquired(l, a) \in [Dirs -> Agents \cup {Nobody}]
           /\ Forward(l, a) \in [Dirs -> Agents \cup {Nobody}]
           /\ Reverse(l, a) \in [Dirs -> Agents \cup {Nobody}]
<1>1. cfg[a].ws \in Dirs /\ cfg[a].sup \in Agents \cup {Nobody}
  BY DEF TypeOK, Config
<1> QED BY <1>1 DEF ReleaseAll, Acquired, Forward, Reverse, Transfer

\* So do slots and tasks.
LEMMA OtherTypes ==
    ASSUME TypeOK, NEW a \in Agents, NEW i \in Incarnations
    PROVE  /\ Retracted(a) \in [Agents -> SUBSET Agents]
           /\ Linked(a) \in [Agents -> SUBSET Agents]
           /\ Stop(i) \in [Incarnations -> {"none", "held", "running", "panicked", "ended"}]
<1>1. Retracted(a) \in [Agents -> SUBSET Agents]
  BY DEF TypeOK, Retracted
<1>2. Linked(a) \in [Agents -> SUBSET Agents]
  BY DEF TypeOK, Linked
<1>3. Stop(i) \in [Incarnations -> {"none", "held", "running", "panicked", "ended"}]
  BY DEF TypeOK, Stop
<1> QED BY <1>1, <1>2, <1>3

\* So do directories, what is known of the failing ones, and their count.
LEMMA ClearTypes ==
    ASSUME TypeOK, NEW a \in Agents, NEW to \in {"none", "archived"} \cup OnDisk, Clear(a, to)
    PROVE  /\ disk' \in [Agents -> {"none", "bare", "live", "archived"}]
           /\ leftover' \subseteq Agents /\ faults' \in 0..MaxFaults
<1>1. disk' \in [Agents -> {"none", "bare", "live", "archived"}]
  BY DEF TypeOK, Clear, OnDisk
<1>2. leftover' \subseteq Agents
  BY DEF TypeOK, Clear
<1>3. faults' \in 0..MaxFaults
  BY LifecycleAssumption DEF TypeOK, Clear
<1> QED BY <1>1, <1>2, <1>3

\* Each step of a handler keeps the types.
LEMMA NextType == TypeOK /\ HandlerInv /\ [Next]_vars => TypeOK'
<1> SUFFICES ASSUME TypeOK, HandlerInv, [Next]_vars PROVE TypeOK'
  OBVIOUS
<1> USE WorkspacesAssumption, LifecycleAssumption
<1>1. CASE UNCHANGED vars
  BY <1>1 DEF vars, TypeOK
<1>2. ASSUME NEW c \in Agents, NEW s \in Agents, NEW k \in Kinds, NEW r \in Roles,
             SpawnReserve(c, s, k, r)
      PROVE  TypeOK'
  BY <1>2 DEF TypeOK, SpawnReserve, Advance, SpawnPCs, Incarnations, Config
<1>3. ASSUME NEW c \in Agents, SpawnMakeDir(c)
      PROVE  TypeOK'
  BY <1>3, LockTypes, OtherTypes
     DEF TypeOK, SpawnMakeDir, Advance, SpawnPCs, Incarnations, Config
<1>4. ASSUME NEW c \in Agents, NEW written \in BOOLEAN, SpawnWriteMeta(c, written)
      PROVE  TypeOK'
  BY <1>4 DEF TypeOK, SpawnWriteMeta, Advance, SpawnPCs, Incarnations
<1>5. ASSUME NEW c \in Agents, SpawnChain(c)
      PROVE  TypeOK'
  <2>1. UNCHANGED <<entry, cfg, lock, task, handle, chan, disk, target, tear, booting, faults, leftover, crossed>>
    BY <1>5 DEF SpawnChain
  <2>2. subs' \in [Agents -> SUBSET Agents]
    BY <1>5, OtherTypes DEF SpawnChain, TypeOK, Incarnations
  <2>3. cfg[c].above \in SUBSET Agents
    BY DEF TypeOK, Config
  <2>4. chain' \in [Incarnations -> SUBSET Agents]
    BY <1>5, <2>3 DEF SpawnChain, TypeOK
  <2>5. pc' \in [Incarnations -> SpawnPCs \cup DeliverPCs]
    BY <1>5 DEF SpawnChain, TypeOK, Advance, SpawnPCs
  <2> QED BY <2>1, <2>2, <2>4, <2>5 DEF TypeOK
<1>6. ASSUME NEW c \in Agents, SpawnCarve(c)
      PROVE  TypeOK'
  <2>1. UNCHANGED <<entry, cfg, task, handle, chan, disk, chain, target, tear, booting, faults, leftover, crossed>>
    BY <1>6 DEF SpawnCarve
  <2>2. subs' \in [Agents -> SUBSET Agents]
    BY <1>6, OtherTypes DEF SpawnCarve, TypeOK, Incarnations
  <2>3. Forward(lock, c) \in [Dirs -> Agents \cup {Nobody}]
    BY LockTypes DEF TypeOK
  <2>4. lock' \in [Dirs -> Agents \cup {Nobody}]
    BY <1>6, <2>3, LockTypes DEF SpawnCarve
  <2>5. pc' \in [Incarnations -> SpawnPCs \cup DeliverPCs]
    BY <1>6 DEF SpawnCarve, TypeOK, Advance, SpawnPCs
  <2> QED BY <2>1, <2>2, <2>4, <2>5 DEF TypeOK
<1>7. ASSUME NEW c \in Agents, SpawnTask(c)
      PROVE  TypeOK'
  BY <1>7, LockTypes, OtherTypes DEF TypeOK, SpawnTask, Advance, SpawnPCs, Incarnations, Config
<1>8. ASSUME NEW c \in Agents, NEW to \in {"none"} \cup OnDisk, SpawnRegister(c, to)
      PROVE  TypeOK'
  <2>1. UNCHANGED <<cfg, lock, chain, target, tear, booting, crossed>>
    BY <1>8 DEF SpawnRegister
  <2>2. c \in Incarnations
    BY DEF Incarnations
  <2>3. /\ subs' \in [Agents -> SUBSET Agents]
        /\ task' \in [Incarnations -> {"none", "held", "running", "panicked", "ended"}]
    BY <1>8, <2>2, OtherTypes DEF SpawnRegister, TypeOK
  <2>6. /\ disk' \in [Agents -> {"none", "bare", "live", "archived"}]
        /\ leftover' \subseteq Agents /\ faults' \in 0..MaxFaults
    BY <1>8, ClearTypes DEF SpawnRegister, TypeOK
  <2>4. /\ entry' \in [Agents -> {"none", "live", "faulted", "refused"}]
        /\ handle' \in [Agents -> Incarnations \cup {Nobody}]
        /\ chan' \in [Agents -> Incarnations \cup {Nobody}]
    BY <1>8, <2>2 DEF SpawnRegister, TypeOK
  <2>5. pc' \in [Incarnations -> SpawnPCs \cup DeliverPCs]
    BY <1>8 DEF SpawnRegister, TypeOK, Advance, SpawnPCs
  <2> QED BY <2>1, <2>3, <2>4, <2>5, <2>6 DEF TypeOK
<1>9. ASSUME NEW c \in Agents, SpawnFails(c)
      PROVE  TypeOK'
  BY <1>9, LockTypes, OtherTypes DEF TypeOK, SpawnFails, Advance, SpawnPCs, Incarnations, Config
<1>10. ASSUME NEW c \in Agents, NEW to \in {"none"} \cup OnDisk, SpawnErase(c, to)
      PROVE  TypeOK'
  BY <1>10, ClearTypes DEF TypeOK, SpawnErase, Advance, SpawnPCs
<1>11. ASSUME NEW c \in Agents, SpawnUnwind(c)
      PROVE  TypeOK'
  BY <1>11, LockTypes, OtherTypes
     DEF TypeOK, SpawnUnwind, Advance, SpawnPCs, Incarnations, Config
<1>12. ASSUME NEW c \in Agents, SpawnRefused(c)
      PROVE  TypeOK'
  BY <1>12, LockTypes, OtherTypes
     DEF TypeOK, SpawnRefused, Advance, SpawnPCs, Incarnations, Config
<1>13. ASSUME NEW d \in Deliveries, NEW a \in Agents, Probe(d, a)
      PROVE  TypeOK'
  BY <1>13 DEF TypeOK, Probe, Advance, Incarnations, DeliverPCs
<1>14. ASSUME NEW d \in Deliveries, NEW ok \in BOOLEAN, Reserve(d, ok)
      PROVE  TypeOK'
  <2>1. target[d] \in Agents
    BY <1>14 DEF HandlerInv, SpawnerInv, DelivererInv, HolderInv, BootInv, Reserve
  <2> QED BY <1>14, <2>1, LockTypes DEF TypeOK, Reserve, Advance, Incarnations, DeliverPCs
<1>15. ASSUME NEW d \in Deliveries, NEW ok \in BOOLEAN, ReactSpawn(d, ok)
      PROVE  TypeOK'
  BY <1>15, LockTypes DEF TypeOK, ReactSpawn, Advance, Incarnations, DeliverPCs
<1>16. ASSUME NEW d \in Deliveries, ReserveSkipped(d)
      PROVE  TypeOK'
  <2>1. target[d] \in Agents
    BY <1>16 DEF HandlerInv, SpawnerInv, DelivererInv, HolderInv, BootInv, ReserveSkipped
  <2> QED BY <1>16, <2>1, LockTypes, OtherTypes
             DEF TypeOK, ReserveSkipped, Advance, Incarnations, DeliverPCs, Config
<1>17. ASSUME NEW d \in Deliveries, ReactChain(d)
      PROVE  TypeOK'
  <2>1. target[d] \in Agents
    BY <1>17 DEF HandlerInv, SpawnerInv, DelivererInv, HolderInv, BootInv, ReactChain
  <2> QED BY <1>17, <2>1, LockTypes, OtherTypes
             DEF TypeOK, ReactChain, Advance, Incarnations, DeliverPCs, Config
<1>18. ASSUME NEW d \in Deliveries, ReactAcquire(d)
      PROVE  TypeOK'
  <2>1. target[d] \in Agents
    BY <1>18 DEF HandlerInv, SpawnerInv, DelivererInv, HolderInv, BootInv, ReactAcquire
  <2>2. UNCHANGED <<entry, subs, cfg, task, handle, chan, disk, chain, target, tear, booting, faults, leftover, crossed>>
    BY <1>18 DEF ReactAcquire
  <2>3. lock' \in [Dirs -> Agents \cup {Nobody}]
    BY <1>18, <2>1, LockTypes DEF ReactAcquire, TypeOK
  <2>4. pc' \in [Incarnations -> SpawnPCs \cup DeliverPCs]
    BY <1>18 DEF ReactAcquire, TypeOK, Advance, DeliverPCs
  <2> QED BY <2>2, <2>3, <2>4 DEF TypeOK
<1>19. ASSUME NEW d \in Deliveries, ReactClose(d)
      PROVE  TypeOK'
  <2>1. target[d] \in Agents
    BY <1>19 DEF HandlerInv, SpawnerInv, DelivererInv, HolderInv, BootInv, ReactClose
  <2> QED BY <1>19, <2>1, LockTypes, OtherTypes
             DEF TypeOK, ReactClose, Advance, Incarnations, DeliverPCs, Config
<1>20. ASSUME NEW d \in Deliveries, ReactUnlock(d)
      PROVE  TypeOK'
  <2>1. target[d] \in Agents
    BY <1>20 DEF HandlerInv, SpawnerInv, DelivererInv, HolderInv, BootInv, ReactUnlock
  <2> QED BY <1>20, <2>1, LockTypes, OtherTypes
             DEF TypeOK, ReactUnlock, Advance, Incarnations, DeliverPCs, Config
<1>21. ASSUME NEW d \in Deliveries, NEW to \in {"none"} \cup OnDisk, ReactInstall(d, to)
      PROVE  TypeOK'
  <2>1. target[d] \in Agents
    BY <1>21 DEF HandlerInv, SpawnerInv, DelivererInv, HolderInv, BootInv, ReactInstall
  <2>2. UNCHANGED <<entry, subs, cfg, chain, target, tear, booting, crossed>>
    BY <1>21 DEF ReactInstall
  <2>3. d \in Incarnations
    BY DEF Incarnations
  <2>4. lock' \in [Dirs -> Agents \cup {Nobody}]
    BY <1>21, <2>1, LockTypes DEF ReactInstall, TypeOK
  <2>5. task' \in [Incarnations -> {"none", "held", "running", "panicked", "ended"}]
    BY <1>21, <2>1, <2>3, OtherTypes DEF ReactInstall, TypeOK
  <2>8. /\ disk' \in [Agents -> {"none", "bare", "live", "archived"}]
        /\ leftover' \subseteq Agents /\ faults' \in 0..MaxFaults
    BY <1>21, <2>1, ClearTypes DEF ReactInstall, TypeOK
  <2>6. /\ handle' \in [Agents -> Incarnations \cup {Nobody}]
        /\ chan' \in [Agents -> Incarnations \cup {Nobody}]
    BY <1>21, <2>3 DEF ReactInstall, TypeOK
  <2>7. pc' \in [Incarnations -> SpawnPCs \cup DeliverPCs]
    BY <1>21 DEF ReactInstall, TypeOK, Advance, DeliverPCs
  <2> QED BY <2>2, <2>4, <2>5, <2>6, <2>7, <2>8 DEF TypeOK
<1>22. ASSUME NEW a \in Agents, RemoveUnregister(a)
      PROVE  TypeOK'
  BY <1>22, LockTypes, OtherTypes DEF TypeOK, RemoveUnregister, Incarnations, Config
<1>23. ASSUME NEW a \in Agents, TearRelease(a)
      PROVE  TypeOK'
  BY <1>23, LockTypes, OtherTypes DEF TypeOK, TearRelease, Incarnations, Config
<1>24. ASSUME NEW a \in Agents, NEW to \in {"archived"} \cup OnDisk, TearArchive(a, to)
      PROVE  TypeOK'
  <2>1. UNCHANGED <<entry, subs, cfg, lock, pc, chain, target, booting, crossed>>
    BY <1>24 DEF TearArchive
  <2>2. task' \in [Incarnations -> {"none", "held", "running", "panicked", "ended"}]
    BY <1>24, OtherTypes DEF TearArchive, TypeOK
  <2>3. /\ disk' \in [Agents -> {"none", "bare", "live", "archived"}]
        /\ leftover' \subseteq Agents /\ faults' \in 0..MaxFaults
    BY <1>24, ClearTypes DEF TearArchive
  <2>4. /\ handle' \in [Agents -> Incarnations \cup {Nobody}]
        /\ chan' \in [Agents -> Incarnations \cup {Nobody}]
        /\ tear' \in [Agents -> {"no", "unregistered", "released"}]
    BY <1>24 DEF TearArchive, TypeOK
  <2> QED BY <2>1, <2>2, <2>3, <2>4 DEF TypeOK
<1>25. ASSUME NEW i \in Incarnations, Watch(i)
      PROVE  TypeOK'
  <2>1. UNCHANGED <<subs, cfg, disk, pc, chain, target, tear, booting, faults, leftover, crossed>>
    BY <1>25 DEF Watch
  <2>2. lock' \in [Dirs -> Agents \cup {Nobody}]
    BY <1>25 DEF Watch, TypeOK, ReleaseAll
  <2>3. task' \in [Incarnations -> {"none", "held", "running", "panicked", "ended"}]
    BY <1>25 DEF Watch, TypeOK
  <2>4. /\ entry' \in [Agents -> {"none", "live", "faulted", "refused"}]
        /\ handle' \in [Agents -> Incarnations \cup {Nobody}]
        /\ chan' \in [Agents -> Incarnations \cup {Nobody}]
    BY <1>25 DEF Watch, TypeOK
  <2> QED BY <2>1, <2>2, <2>3, <2>4 DEF TypeOK
<1>26. ASSUME NEW i \in Incarnations, NEW how \in {"panicked", "ended"}, TaskDies(i, how)
      PROVE  TypeOK'
  BY <1>26 DEF TypeOK, TaskDies, Incarnations
<1>27. ASSUME Restart \/ BootAborts
      PROVE  TypeOK'
  <2>1. faults' \in 0..MaxFaults
    BY <1>27 DEF TypeOK, Restart, BootAborts
  <2>2. ProcessEnds
    BY <1>27 DEF Restart, BootAborts
  <2>3. task' \in [Incarnations -> {"none", "held", "running", "panicked", "ended"}]
    BY <2>2 DEF ProcessEnds
  <2>4. pc' \in [Incarnations -> SpawnPCs \cup DeliverPCs]
    BY <2>2 DEF ProcessEnds, SpawnPCs
  <2> QED BY <2>1, <2>2, <2>3, <2>4 DEF ProcessEnds, TypeOK
<1>28. ASSUME BootDone
      PROVE  TypeOK'
  BY <1>28 DEF TypeOK, BootDone
<1>29. ASSUME NEW a \in Agents, RestoreRefused(a)
      PROVE  TypeOK'
  BY <1>29 DEF TypeOK, RestoreRefused
<1>30. ASSUME NEW a \in Agents, RestoreOrphan(a)
      PROVE  TypeOK'
  <2>1. subs' \in [Agents -> SUBSET Agents]
    BY <1>30, OtherTypes DEF RestoreOrphan, RestoreFaulted, Incarnations
  <2> QED BY <1>30, <2>1 DEF TypeOK, RestoreOrphan, RestoreFaulted
<1>31. ASSUME NEW a \in Agents, RestoreOne(a)
      PROVE  TypeOK'
  BY <1>31, LockTypes, OtherTypes DEF TypeOK, RestoreOne, Incarnations
<1>32. ASSUME NEW a \in Agents, NEW est \in BOOLEAN, RestoreFails(a, est)
      PROVE  TypeOK'
  <2>1. subs' \in [Agents -> SUBSET Agents]
    BY <1>32, OtherTypes DEF RestoreFails, RestoreFaulted, Incarnations
  <2>2. lock \in [Dirs -> Agents \cup {Nobody}]
    BY DEF TypeOK
  <2>3. Acquired(Forward(lock, a), a) \in [Dirs -> Agents \cup {Nobody}]
    BY <2>2, LockTypes
  <2>4. lock' \in [Dirs -> Agents \cup {Nobody}]
    BY <1>32, <2>2, <2>3, LockTypes DEF RestoreFails
  <2> QED BY <1>32, <2>1, <2>4 DEF TypeOK, RestoreFails, RestoreFaulted
<1> QED BY <1>1, <1>2, <1>3, <1>4, <1>5, <1>6, <1>7, <1>8, <1>9, <1>10, <1>11, <1>12, <1>13,
           <1>14, <1>15, <1>16, <1>17, <1>18, <1>19, <1>20, <1>21, <1>22, <1>23, <1>24, <1>25,
           <1>26, <1>27, <1>28, <1>29, <1>30, <1>31, <1>32
     DEF Next, SpawnStep, DeliverStep, RemoveStep, RestartStep

\* What the proofs of the other invariants start from.
Base == TypeOK /\ TreeInv /\ HandlerInv

\* The tree stands as long as no step touches the handlers, files or tasks of an agent
\* that has not been reserved.
LEMMA TreeFrame ==
    ASSUME Base, UNCHANGED cfg, pc'[Root] = "idle",
           \A a \in Agents : cfg[a].stead = Nobody =>
              /\ entry'[a] = entry[a] /\ disk'[a] = disk[a] /\ pc'[a] = pc[a]
              /\ tear'[a] = tear[a] /\ task'[a] = task[a]
              /\ \A d \in Deliveries : target'[d] = a => target[d] = a
    PROVE  TreeInv'
BY DEF Base, TreeInv, Unborn

\* Only a reservation (spawn_subagent) adds to the tree, and it adds a leaf.
LEMMA TreeNext == Base /\ [Next]_vars => TreeInv'
<1> SUFFICES ASSUME Base, [Next]_vars PROVE TreeInv'
  OBVIOUS
<1> USE WorkspacesAssumption, LifecycleAssumption
<1>1. CASE UNCHANGED vars
  BY <1>1, TreeFrame DEF vars, Base, TreeInv
<1>2. ASSUME NEW c \in Agents, NEW s \in Agents, NEW k \in Kinds, NEW r \in Roles, SpawnReserve(c, s, k, r)
      PROVE  TreeInv'
  <2>1. /\ Unborn(c) /\ cfg[c].stead = Nobody /\ c # Root /\ entry[s] = "live"
        /\ \A x \in Agents : c \notin cfg[x].above /\ cfg[x].sup # c
    <3>1. Unborn(c) /\ cfg[c].stead = Nobody /\ entry[s] = "live"
      BY <1>2 DEF SpawnReserve, ValidRequest, Base, TreeInv
    <3>2. c # Root /\ \A x \in Agents : cfg[x].sup # c
      BY <3>1 DEF Base, TreeInv, Unborn
    <3>3. \A x \in Agents : c \notin cfg[x].above
      BY <3>2 DEF Base, TypeOK, Config, TreeInv
    <3> QED BY <3>1, <3>2, <3>3
  <2>2. cfg[s].stead # Nobody /\ s # c
    BY <2>1 DEF Base, TreeInv, Unborn
  <2>3. /\ \A x \in Agents : x # c => cfg'[x] = cfg[x]
        /\ cfg'[c] = [sup |-> s, ws |-> k.ws, heir |-> k.heir, normal |-> k.normal, role |-> r,
                      above |-> cfg[s].above \cup {s},
                      stead |-> IF k.heir THEN cfg[s].stead ELSE c]
    BY <1>2 DEF SpawnReserve, Base, TypeOK
  <2>4. \A x \in Agents : x # c => pc'[x] = pc[x]
    BY <1>2 DEF SpawnReserve, Advance, Base, TypeOK, Incarnations
  <2>5. /\ cfg'[Root].sup = Nobody /\ cfg'[Root].above = {} /\ ~cfg'[Root].heir
        /\ cfg'[Root].stead = Root /\ pc'[Root] = "idle"
    BY <2>1, <2>3, <2>4 DEF Base, TreeInv
  <2> DEFINE Limb(x) ==
           /\ IsFiniteSet(cfg'[x].above)
           /\ cfg'[x].stead = Nobody => Unborn(x)'
           /\ cfg'[x].stead # Nobody /\ x # Root =>
                 /\ cfg'[x].sup \in Agents /\ cfg'[cfg'[x].sup].stead # Nobody
                 /\ cfg'[x].above = cfg'[cfg'[x].sup].above \cup {cfg'[x].sup}
           /\ cfg'[x].heir =>
                 /\ cfg'[x].normal /\ cfg'[cfg'[x].sup].normal
                 /\ cfg'[x].ws = cfg'[cfg'[x].sup].ws /\ cfg'[x].stead = cfg'[cfg'[x].sup].stead
           /\ \A y \in cfg'[x].above : \E z \in cfg'[x].above \cup {x} : cfg'[z].sup = y
  <2>6. ASSUME NEW x \in Agents, x # c
        PROVE  Limb(x)
    <3>1. IsFiniteSet(cfg'[x].above)
      BY <2>3, <2>6 DEF Base, TreeInv
    <3>2. cfg'[x].stead = Nobody => Unborn(x)'
      BY <1>2, <2>3, <2>4, <2>6 DEF Base, TreeInv, Unborn, SpawnReserve
    <3>3. cfg'[x].stead # Nobody /\ x # Root =>
             /\ cfg'[x].sup \in Agents /\ cfg'[cfg'[x].sup].stead # Nobody
             /\ cfg'[x].above = cfg'[cfg'[x].sup].above \cup {cfg'[x].sup}
      BY <2>1, <2>3, <2>6 DEF Base, TreeInv
    <3>4. cfg'[x].heir =>
             /\ cfg'[x].normal /\ cfg'[cfg'[x].sup].normal
             /\ cfg'[x].ws = cfg'[cfg'[x].sup].ws /\ cfg'[x].stead = cfg'[cfg'[x].sup].stead
      <4>1. cfg[x].heir => cfg[x].stead # Nobody /\ x # Root
        BY DEF Base, TreeInv, Unborn
      <4>2. cfg[x].heir => cfg[x].sup \in Agents
        BY <4>1 DEF Base, TreeInv
      <4> QED BY <2>1, <2>3, <2>6, <4>2 DEF Base, TreeInv
    <3>5. \A y \in cfg'[x].above : \E z \in cfg'[x].above \cup {x} : cfg'[z].sup = y
      <4>1. \A z \in cfg[x].above \cup {x} : z \in Agents /\ z # c
        BY <2>1, <2>6 DEF Base, TypeOK, Config
      <4> QED BY <2>3, <2>6, <4>1 DEF Base, TreeInv
    <3> QED BY <3>1, <3>2, <3>3, <3>4, <3>5
  <2>7. Limb(c)
    <3>1. IsFiniteSet(cfg[s].above \cup {s})
      BY FS_AddElement DEF Base, TreeInv
    <3>2. k.heir => k.normal /\ cfg[s].normal /\ k.ws = cfg[s].ws
      BY <1>2 DEF SpawnReserve, ValidRequest
    <3>3. \A y \in cfg[s].above : \E z \in cfg[s].above \cup {s} : cfg[z].sup = y
      BY DEF Base, TreeInv
    <3>4. \A z \in cfg[s].above \cup {s} : z \in Agents /\ z # c
      BY <2>1, <2>2 DEF Base, TypeOK, Config
    <3>5. \A y \in cfg'[c].above : \E z \in cfg'[c].above \cup {c} : cfg'[z].sup = y
      BY <2>3, <3>3, <3>4
    <3> QED BY <2>1, <2>2, <2>3, <3>1, <3>2, <3>5
  <2>8. \A x \in Agents : Limb(x)
    <3> HIDE DEF Limb
    <3> QED BY <2>6, <2>7
  <2> QED BY <2>5, <2>8 DEF TreeInv
<1>3. ASSUME NEW c \in Agents, SpawnMakeDir(c)
      PROVE  TreeInv'
  <2>1. cfg[c].stead # Nobody /\ c # Root
    BY <1>3 DEF Base, TreeInv, Unborn, SpawnMakeDir
  <2> QED BY <1>3, <2>1, TreeFrame DEF TypeOK, Base, TreeInv, Advance, SpawnMakeDir
<1>4. ASSUME NEW c \in Agents, NEW written \in BOOLEAN, SpawnWriteMeta(c, written)
      PROVE  TreeInv'
  <2>1. cfg[c].stead # Nobody /\ c # Root
    BY <1>4 DEF Base, TreeInv, Unborn, SpawnWriteMeta
  <2>2. UNCHANGED <<cfg, entry, tear, task, target>>
    BY <1>4 DEF SpawnWriteMeta
  <2>3. \A x \in Agents : x # c => disk'[x] = disk[x] /\ pc'[x] = pc[x]
    BY <1>4 DEF SpawnWriteMeta, Advance, Base, TypeOK, Incarnations
  <2> QED BY <2>1, <2>2, <2>3, TreeFrame DEF Base, TreeInv
<1>5. ASSUME NEW c \in Agents, SpawnChain(c)
      PROVE  TreeInv'
  BY <1>5, TreeFrame DEF TypeOK, Base, TreeInv, Unborn, Advance, Incarnations, SpawnChain
<1>6. ASSUME NEW c \in Agents, SpawnCarve(c)
      PROVE  TreeInv'
  BY <1>6, TreeFrame
     DEF TypeOK, Base, TreeInv, HandlerInv, Unborn, Advance, Incarnations, SpawnCarve
<1>7. ASSUME NEW c \in Agents, SpawnTask(c)
      PROVE  TreeInv'
  BY <1>7, TreeFrame DEF TypeOK, Base, TreeInv, HandlerInv, Unborn, Advance, SpawnTask
<1>8. ASSUME NEW c \in Agents, NEW to \in {"none"} \cup OnDisk, SpawnRegister(c, to)
      PROVE  TreeInv'
  BY <1>8, TreeFrame
     DEF TypeOK, Base, TreeInv, Unborn, Advance, Incarnations, SpawnRegister, Stop, Clear
<1>9. ASSUME NEW c \in Agents, SpawnFails(c)
      PROVE  TreeInv'
  BY <1>9, TreeFrame DEF Base, TreeInv, HandlerInv, Unborn, Advance, SpawnFails
<1>10. ASSUME NEW c \in Agents, NEW to \in {"none"} \cup OnDisk, SpawnErase(c, to)
      PROVE  TreeInv'
  <2>1. cfg[c].stead # Nobody /\ c # Root
    BY <1>10 DEF Base, TreeInv, Unborn, SpawnErase
  <2> QED BY <1>10, <2>1, TreeFrame DEF TypeOK, Base, TreeInv, Advance, SpawnErase, Clear
<1>11. ASSUME NEW c \in Agents, SpawnUnwind(c)
      PROVE  TreeInv'
  <2>1. cfg[c].stead # Nobody /\ c # Root
    BY <1>11 DEF Base, TreeInv, Unborn, SpawnUnwind
  <2> QED BY <1>11, <2>1, TreeFrame DEF TypeOK, Base, TreeInv, Advance, SpawnUnwind
<1>12. ASSUME NEW c \in Agents, SpawnRefused(c)
      PROVE  TreeInv'
  BY <1>12, TreeFrame DEF Base, TreeInv, Unborn, Advance, SpawnRefused
<1>13. ASSUME NEW d \in Deliveries, NEW a \in Agents, Probe(d, a)
      PROVE  TreeInv'
  BY <1>13, TreeFrame DEF Base, TreeInv, HandlerInv, Unborn, Advance, Probe
<1>14. ASSUME NEW d \in Deliveries, NEW ok \in BOOLEAN, Reserve(d, ok)
      PROVE  TreeInv'
  <2>1. target[d] \in Agents /\ d \notin Agents /\ Root # d
    BY <1>14 DEF Base, HandlerInv, SpawnerInv, DelivererInv, HolderInv, BootInv, Reserve
  <2>2. cfg[target[d]].stead # Nobody
    BY <1>14, <2>1 DEF Base, TreeInv, Unborn, Reserve
  <2>3. handle[target[d]] \in Agents => handle[target[d]] = target[d]
    BY <2>1 DEF Base, HandlerInv, SpawnerInv, DelivererInv, HolderInv, BootInv, AgentOf
  <2>4. \A a \in Agents : cfg[a].stead = Nobody => task'[a] = task[a]
    BY <1>14, <2>1, <2>2, <2>3 DEF Base, TypeOK, Reserve, Incarnations
  <2>5. UNCHANGED <<cfg, entry, disk, tear, target>> /\ \A a \in Agents : pc'[a] = pc[a]
    BY <1>14, <2>1 DEF Reserve, Advance, Base, TypeOK, Incarnations
  <2> QED BY <2>4, <2>5, TreeFrame DEF Base, TreeInv
<1>15. ASSUME NEW d \in Deliveries, NEW ok \in BOOLEAN, ReactSpawn(d, ok)
      PROVE  TreeInv'
  BY <1>15, TreeFrame DEF Base, TreeInv, Advance, ReactSpawn
<1>16. ASSUME NEW d \in Deliveries, ReserveSkipped(d)
      PROVE  TreeInv'
  BY <1>16, TreeFrame DEF Base, TreeInv, Advance, ReserveSkipped
<1>17. ASSUME NEW d \in Deliveries, ReactChain(d)
      PROVE  TreeInv'
  BY <1>17, TreeFrame DEF Base, TreeInv, Advance, ReactChain
<1>18. ASSUME NEW d \in Deliveries, ReactAcquire(d)
      PROVE  TreeInv'
  BY <1>18, TreeFrame DEF TypeOK, Base, TreeInv, Advance, Incarnations, ReactAcquire
<1>19. ASSUME NEW d \in Deliveries, ReactClose(d)
      PROVE  TreeInv'
  BY <1>19, TreeFrame DEF Base, TreeInv, Advance, ReactClose
<1>20. ASSUME NEW d \in Deliveries, ReactUnlock(d)
      PROVE  TreeInv'
  BY <1>20, TreeFrame DEF Base, TreeInv, Advance, ReactUnlock
<1>21. ASSUME NEW d \in Deliveries, NEW to \in {"none"} \cup OnDisk, ReactInstall(d, to)
      PROVE  TreeInv'
  BY <1>21, TreeFrame
     DEF TypeOK, Base, TreeInv, BootInv, Unborn, Advance, Incarnations, ReactInstall, Stop,
         Clear
<1>22. ASSUME NEW a \in Agents, RemoveUnregister(a)
      PROVE  TreeInv'
  <2>1. cfg[a].stead # Nobody
    BY <1>22 DEF Base, TreeInv, Unborn, RemoveUnregister, Registered
  <2>2. UNCHANGED <<cfg, disk, pc, task, target>>
    BY <1>22 DEF RemoveUnregister
  <2>3. \A x \in Agents : x # a => entry'[x] = entry[x] /\ tear'[x] = tear[x]
    BY <1>22 DEF RemoveUnregister, Base, TypeOK
  <2> QED BY <2>1, <2>2, <2>3, TreeFrame DEF Base, TreeInv
<1>23. ASSUME NEW a \in Agents, TearRelease(a)
      PROVE  TreeInv'
  BY <1>23, TreeFrame DEF Base, TreeInv, HandlerInv, Unborn, TearRelease
<1>24. ASSUME NEW a \in Agents, NEW to \in {"archived"} \cup OnDisk, TearArchive(a, to)
      PROVE  TreeInv'
  <2>1. cfg[a].stead # Nobody
    BY <1>24 DEF Base, TreeInv, Unborn, TearArchive
  <2>2. handle[a] \in Agents => handle[a] = a
    BY WorkspacesAssumption
       DEF Base, HandlerInv, SpawnerInv, DelivererInv, HolderInv, BootInv, AgentOf
  <2>3. \A x \in Agents : cfg[x].stead = Nobody => task'[x] = task[x]
    BY <1>24, <2>1, <2>2 DEF Base, TypeOK, TearArchive, Stop, Incarnations
  <2> QED BY <1>24, <2>1, <2>3, TreeFrame DEF TypeOK, Base, TreeInv, TearArchive, Clear
<1>25. ASSUME NEW i \in Incarnations, Watch(i)
      PROVE  TreeInv'
  BY <1>25, TreeFrame DEF TypeOK, Base, TreeInv, Unborn, Watch
<1>26. ASSUME NEW i \in Incarnations, NEW how \in {"panicked", "ended"}, TaskDies(i, how)
      PROVE  TreeInv'
  BY <1>26, TreeFrame DEF Base, TreeInv, Unborn, TaskDies
<1>27. ASSUME ProcessEnds
      PROVE  TreeInv'
  BY <1>27, TreeFrame DEF Base, TreeInv, HandlerInv, Unborn, Incarnations, ProcessEnds
<1>28. ASSUME BootDone
      PROVE  TreeInv'
  BY <1>28, TreeFrame DEF Base, TreeInv, BootDone
<1>29. ASSUME NEW a \in Agents, RestoreRefused(a)
      PROVE  TreeInv'
  <2>1. cfg[a].stead # Nobody
    BY <1>29 DEF Base, TreeInv, Unborn, RestoreRefused, Unreadable
  <2> QED BY <1>29, <2>1, TreeFrame DEF TypeOK, Base, TreeInv, RestoreRefused
<1>30. ASSUME NEW a \in Agents, RestoreOrphan(a)
      PROVE  TreeInv'
  <2>1. cfg[a].stead # Nobody
    BY <1>30 DEF Base, TreeInv, Unborn, RestoreOrphan, Pending
  <2>2. /\ UNCHANGED <<cfg, disk, pc, tear, task, target>>
        /\ entry' = [entry EXCEPT ![a] = "faulted"]
    BY <1>30 DEF RestoreOrphan, RestoreFaulted
  <2> QED BY <2>1, <2>2, TreeFrame DEF TypeOK, Base, TreeInv
<1>31. ASSUME NEW a \in Agents, RestoreOne(a)
      PROVE  TreeInv'
  <2>1. cfg[a].stead # Nobody
    BY <1>31 DEF Base, TreeInv, Unborn, RestoreOne, Restorable, Pending
  <2>2. /\ UNCHANGED <<cfg, disk, pc, tear, target>>
        /\ entry' = [entry EXCEPT ![a] = "live"] /\ task' = [task EXCEPT ![a] = "running"]
    BY <1>31 DEF RestoreOne
  <2> QED BY <2>1, <2>2, TreeFrame DEF TypeOK, Base, TreeInv, Incarnations
<1>32. ASSUME NEW a \in Agents, NEW est \in BOOLEAN, RestoreFails(a, est)
      PROVE  TreeInv'
  <2>1. cfg[a].stead # Nobody
    BY <1>32 DEF Base, TreeInv, Unborn, RestoreFails, Restorable, Pending
  <2> QED BY <1>32, <2>1, TreeFrame DEF TypeOK, Base, TreeInv, RestoreFails, RestoreFaulted
<1> QED BY <1>1, <1>2, <1>3, <1>4, <1>5, <1>6, <1>7, <1>8, <1>9, <1>10, <1>11, <1>12, <1>13,
           <1>14, <1>15, <1>16, <1>17, <1>18, <1>19, <1>20, <1>21, <1>22, <1>23, <1>24, <1>25,
           <1>26, <1>27, <1>28, <1>29, <1>30, <1>31, <1>32
     DEF Next, SpawnStep, DeliverStep, RemoveStep, RestartStep, Restart, BootAborts

\* Each step keeps what the position of a handler says of its agent.
LEMMA HandlerNext == Base /\ [Next]_vars => HandlerInv'
<1> SUFFICES ASSUME Base, [Next]_vars PROVE HandlerInv'
  OBVIOUS
<1> USE WorkspacesAssumption, LifecycleAssumption
<1>1. CASE UNCHANGED vars
  BY <1>1 DEF vars, Base, HandlerInv, SpawnerInv, DelivererInv, HolderInv, BootInv, AgentOf
<1>2. ASSUME NEW c \in Agents, NEW s \in Agents, NEW k \in Kinds, NEW r \in Roles, SpawnReserve(c, s, k, r)
      PROVE  HandlerInv'
  <2>1. SpawnerInv'
    BY <1>2
       DEF Base, HandlerInv, SpawnerInv, DelivererInv, BootInv, Advance, Incarnations,
           SpawnReserve, ValidRequest, TreeInv, Unborn, SpawnPCs
  <2>2. DelivererInv'
    BY <1>2 DEF Base, HandlerInv, DelivererInv, Advance, SpawnReserve, TreeInv, Unborn
  <2>3. HolderInv'
    BY <1>2 DEF Base, HandlerInv, HolderInv, AgentOf, SpawnReserve
  <2>4. BootInv'
    BY <1>2 DEF Base, HandlerInv, BootInv, SpawnReserve, Serving
  <2> QED BY <2>1, <2>2, <2>3, <2>4 DEF HandlerInv
<1>3. ASSUME NEW c \in Agents, SpawnMakeDir(c)
      PROVE  HandlerInv'
  <2>1. SpawnerInv'
    BY <1>3
       DEF Base, TypeOK, HandlerInv, SpawnerInv, Advance, Incarnations, SpawnMakeDir, SpawnPCs
  <2>2. DelivererInv'
    BY <1>3 DEF Base, HandlerInv, DelivererInv, Advance, SpawnMakeDir
  <2>3. HolderInv'
    BY <1>3 DEF Base, HandlerInv, HolderInv, AgentOf, SpawnMakeDir
  <2>4. BootInv'
    BY <1>3 DEF Base, HandlerInv, BootInv, Advance, SpawnMakeDir
  <2> QED BY <2>1, <2>2, <2>3, <2>4 DEF HandlerInv
<1>4. ASSUME NEW c \in Agents, NEW written \in BOOLEAN, SpawnWriteMeta(c, written)
      PROVE  HandlerInv'
  <2>1. SpawnerInv'
    BY <1>4
       DEF Base, TypeOK, HandlerInv, SpawnerInv, Advance, Incarnations, SpawnWriteMeta, SpawnPCs
  <2>2. DelivererInv'
    BY <1>4 DEF Base, TypeOK, Incarnations, HandlerInv, DelivererInv, Advance, SpawnWriteMeta
  <2>3. HolderInv'
    BY <1>4 DEF Base, HandlerInv, HolderInv, AgentOf, SpawnWriteMeta
  <2>4. BootInv'
    BY <1>4 DEF Base, Incarnations, HandlerInv, BootInv, Advance, SpawnWriteMeta
  <2> QED BY <2>1, <2>2, <2>3, <2>4 DEF HandlerInv
<1>5. ASSUME NEW c \in Agents, SpawnChain(c)
      PROVE  HandlerInv'
  <2>1. SpawnerInv'
    BY <1>5
       DEF Base, TypeOK, HandlerInv, SpawnerInv, Advance, Incarnations, SpawnChain, SpawnPCs
  <2>2. DelivererInv'
    BY <1>5 DEF Base, TypeOK, HandlerInv, DelivererInv, Advance, Incarnations, SpawnChain
  <2>3. HolderInv'
    BY <1>5 DEF Base, HandlerInv, HolderInv, AgentOf, SpawnChain
  <2>4. BootInv'
    BY <1>5 DEF Base, TypeOK, HandlerInv, BootInv, Advance, SpawnChain
  <2> QED BY <2>1, <2>2, <2>3, <2>4 DEF HandlerInv
<1>6. ASSUME NEW c \in Agents, SpawnCarve(c)
      PROVE  HandlerInv'
  <2>1. SpawnerInv'
    BY <1>6
       DEF Base, TypeOK, HandlerInv, SpawnerInv, Advance, Incarnations, SpawnCarve, SpawnPCs
  <2>2. DelivererInv'
    BY <1>6 DEF Base, TypeOK, HandlerInv, DelivererInv, Advance, Incarnations, SpawnCarve
  <2>3. HolderInv'
    BY <1>6 DEF Base, HandlerInv, HolderInv, AgentOf, SpawnCarve
  <2>4. BootInv'
    BY <1>6 DEF Base, TypeOK, HandlerInv, BootInv, Advance, SpawnCarve
  <2> QED BY <2>1, <2>2, <2>3, <2>4 DEF HandlerInv
<1>7. ASSUME NEW c \in Agents, SpawnTask(c)
      PROVE  HandlerInv'
  <2>1. SpawnerInv'
    BY <1>7 DEF Base, HandlerInv, SpawnerInv, Advance, SpawnTask, SpawnPCs
  <2>2. DelivererInv'
    BY <1>7 DEF Base, HandlerInv, DelivererInv, Advance, SpawnTask
  <2>3. HolderInv'
    BY <1>7 DEF Base, HandlerInv, HolderInv, AgentOf, SpawnTask
  <2>4. BootInv'
    BY <1>7 DEF Base, HandlerInv, BootInv, Advance, SpawnTask
  <2> QED BY <2>1, <2>2, <2>3, <2>4 DEF HandlerInv
<1>8. ASSUME NEW c \in Agents, NEW to \in {"none"} \cup OnDisk, SpawnRegister(c, to)
      PROVE  HandlerInv'
  <2>1. SpawnerInv'
    BY <1>8
       DEF Base, TypeOK, HandlerInv, SpawnerInv, Advance, Incarnations, SpawnRegister, Clear,
           SpawnPCs
  <2>2. DelivererInv'
    BY <1>8
       DEF Base, TypeOK, HandlerInv, DelivererInv, Advance, Incarnations, SpawnRegister, Stop
  <2>3. HolderInv'
    BY <1>8 DEF Base, TypeOK, HandlerInv, HolderInv, AgentOf, SpawnRegister
  <2>4. BootInv'
    BY <1>8 DEF Base, TypeOK, HandlerInv, BootInv, Advance, SpawnRegister
  <2> QED BY <2>1, <2>2, <2>3, <2>4 DEF HandlerInv
<1>9. ASSUME NEW c \in Agents, SpawnFails(c)
      PROVE  HandlerInv'
  <2>1. SpawnerInv'
    BY <1>9 DEF Base, HandlerInv, SpawnerInv, Advance, SpawnFails, SpawnPCs
  <2>2. DelivererInv'
    BY <1>9 DEF Base, HandlerInv, DelivererInv, Advance, SpawnFails
  <2>3. HolderInv'
    BY <1>9 DEF Base, HandlerInv, HolderInv, AgentOf, SpawnFails
  <2>4. BootInv'
    BY <1>9 DEF Base, HandlerInv, BootInv, Advance, SpawnFails
  <2> QED BY <2>1, <2>2, <2>3, <2>4 DEF HandlerInv
<1>10. ASSUME NEW c \in Agents, NEW to \in {"none"} \cup OnDisk, SpawnErase(c, to)
      PROVE  HandlerInv'
  <2>1. SpawnerInv'
    BY <1>10 DEF Base, TypeOK, HandlerInv, SpawnerInv, Advance, SpawnErase, Clear, SpawnPCs
  <2>2. DelivererInv'
    BY <1>10 DEF Base, HandlerInv, DelivererInv, Advance, SpawnErase
  <2>3. HolderInv'
    BY <1>10 DEF Base, HandlerInv, HolderInv, AgentOf, SpawnErase
  <2>4. BootInv'
    BY <1>10 DEF Base, HandlerInv, BootInv, Advance, SpawnErase
  <2> QED BY <2>1, <2>2, <2>3, <2>4 DEF HandlerInv
<1>11. ASSUME NEW c \in Agents, SpawnUnwind(c)
      PROVE  HandlerInv'
  <2>1. SpawnerInv'
    BY <1>11 DEF Base, HandlerInv, SpawnerInv, Advance, SpawnUnwind, SpawnPCs
  <2>2. DelivererInv'
    BY <1>11 DEF Base, HandlerInv, DelivererInv, Advance, SpawnUnwind
  <2>3. HolderInv'
    BY <1>11 DEF Base, HandlerInv, HolderInv, AgentOf, SpawnUnwind
  <2>4. BootInv'
    BY <1>11 DEF Base, HandlerInv, BootInv, Advance, SpawnUnwind
  <2> QED BY <2>1, <2>2, <2>3, <2>4 DEF HandlerInv
<1>12. ASSUME NEW c \in Agents, SpawnRefused(c)
      PROVE  HandlerInv'
  <2>1. SpawnerInv'
    BY <1>12 DEF Base, HandlerInv, SpawnerInv, Advance, SpawnRefused, SpawnPCs
  <2>2. DelivererInv'
    BY <1>12 DEF Base, HandlerInv, DelivererInv, Advance, SpawnRefused
  <2>3. HolderInv'
    BY <1>12 DEF Base, HandlerInv, HolderInv, AgentOf, SpawnRefused
  <2>4. BootInv'
    BY <1>12 DEF Base, HandlerInv, BootInv, Advance, SpawnRefused
  <2> QED BY <2>1, <2>2, <2>3, <2>4 DEF HandlerInv
<1>13. ASSUME NEW d \in Deliveries, NEW a \in Agents, Probe(d, a)
      PROVE  HandlerInv'
  <2>1. SpawnerInv'
    BY <1>13 DEF Base, HandlerInv, SpawnerInv, Advance, Probe
  <2>2. DelivererInv'
    BY <1>13
       DEF Base, TypeOK, HandlerInv, DelivererInv, Advance, Incarnations, Probe, DeliverPCs
  <2>3. HolderInv'
    BY <1>13 DEF Base, HandlerInv, DelivererInv, HolderInv, AgentOf, Probe
  <2>4. BootInv'
    BY <1>13 DEF BootInv, Probe, Serving
  <2> QED BY <2>1, <2>2, <2>3, <2>4 DEF HandlerInv
<1>14. ASSUME NEW d \in Deliveries, NEW ok \in BOOLEAN, Reserve(d, ok)
      PROVE  HandlerInv'
  <2>1. SpawnerInv'
    BY <1>14 DEF Base, HandlerInv, SpawnerInv, Advance, Reserve
  <2>2. DelivererInv'
    BY <1>14
       DEF Base, TypeOK, HandlerInv, DelivererInv, HolderInv, AgentOf, Advance, Incarnations,
           Reserve, DeliverPCs
  <2>3. HolderInv'
    BY <1>14 DEF Base, HandlerInv, HolderInv, AgentOf, Reserve
  <2>4. BootInv'
    BY <1>14 DEF Base, HandlerInv, BootInv, Advance, Reserve
  <2> QED BY <2>1, <2>2, <2>3, <2>4 DEF HandlerInv
<1>15. ASSUME NEW d \in Deliveries, NEW ok \in BOOLEAN, ReactSpawn(d, ok)
      PROVE  HandlerInv'
  <2>1. SpawnerInv'
    BY <1>15 DEF Base, HandlerInv, SpawnerInv, Advance, ReactSpawn
  <2>2. DelivererInv'
    BY <1>15 DEF Base, HandlerInv, DelivererInv, Advance, ReactSpawn, DeliverPCs
  <2>3. HolderInv'
    BY <1>15 DEF Base, HandlerInv, HolderInv, AgentOf, ReactSpawn
  <2>4. BootInv'
    BY <1>15 DEF Base, HandlerInv, BootInv, Advance, ReactSpawn
  <2> QED BY <2>1, <2>2, <2>3, <2>4 DEF HandlerInv
<1>16. ASSUME NEW d \in Deliveries, ReserveSkipped(d)
      PROVE  HandlerInv'
  <2>1. SpawnerInv'
    BY <1>16 DEF Base, HandlerInv, SpawnerInv, Advance, ReserveSkipped
  <2>2. DelivererInv'
    BY <1>16 DEF Base, HandlerInv, DelivererInv, Advance, ReserveSkipped, DeliverPCs
  <2>3. HolderInv'
    BY <1>16 DEF Base, HandlerInv, HolderInv, AgentOf, ReserveSkipped
  <2>4. BootInv'
    BY <1>16 DEF Base, HandlerInv, BootInv, Advance, ReserveSkipped
  <2> QED BY <2>1, <2>2, <2>3, <2>4 DEF HandlerInv
<1>17. ASSUME NEW d \in Deliveries, ReactChain(d)
      PROVE  HandlerInv'
  <2>1. SpawnerInv'
    BY <1>17 DEF Base, HandlerInv, SpawnerInv, Advance, ReactChain
  <2>2. DelivererInv'
    BY <1>17 DEF Base, TypeOK, HandlerInv, DelivererInv, Advance, ReactChain, DeliverPCs
  <2>3. HolderInv'
    BY <1>17 DEF Base, HandlerInv, HolderInv, AgentOf, ReactChain
  <2>4. BootInv'
    BY <1>17 DEF Base, HandlerInv, BootInv, Advance, ReactChain
  <2> QED BY <2>1, <2>2, <2>3, <2>4 DEF HandlerInv
<1>18. ASSUME NEW d \in Deliveries, ReactAcquire(d)
      PROVE  HandlerInv'
  <2>1. SpawnerInv'
    BY <1>18 DEF Base, TypeOK, HandlerInv, SpawnerInv, Advance, Incarnations, ReactAcquire
  <2>2. DelivererInv'
    BY <1>18
       DEF Base, TypeOK, HandlerInv, DelivererInv, Advance, Incarnations, ReactAcquire,
           DeliverPCs
  <2>3. HolderInv'
    BY <1>18 DEF Base, HandlerInv, HolderInv, AgentOf, ReactAcquire
  <2>4. BootInv'
    BY <1>18 DEF Base, TypeOK, HandlerInv, BootInv, Advance, ReactAcquire
  <2> QED BY <2>1, <2>2, <2>3, <2>4 DEF HandlerInv
<1>19. ASSUME NEW d \in Deliveries, ReactClose(d)
      PROVE  HandlerInv'
  <2>1. SpawnerInv'
    BY <1>19 DEF Base, HandlerInv, SpawnerInv, Advance, ReactClose
  <2>2. DelivererInv'
    BY <1>19 DEF Base, HandlerInv, DelivererInv, Advance, ReactClose, DeliverPCs
  <2>3. HolderInv'
    BY <1>19 DEF Base, HandlerInv, HolderInv, AgentOf, ReactClose
  <2>4. BootInv'
    BY <1>19 DEF Base, HandlerInv, BootInv, Advance, ReactClose
  <2> QED BY <2>1, <2>2, <2>3, <2>4 DEF HandlerInv
<1>20. ASSUME NEW d \in Deliveries, ReactUnlock(d)
      PROVE  HandlerInv'
  <2>1. SpawnerInv'
    BY <1>20 DEF Base, HandlerInv, SpawnerInv, Advance, ReactUnlock
  <2>2. DelivererInv'
    BY <1>20 DEF Base, HandlerInv, DelivererInv, Advance, ReactUnlock, DeliverPCs
  <2>3. HolderInv'
    BY <1>20 DEF Base, HandlerInv, HolderInv, AgentOf, ReactUnlock
  <2>4. BootInv'
    BY <1>20 DEF Base, HandlerInv, BootInv, Advance, ReactUnlock
  <2> QED BY <2>1, <2>2, <2>3, <2>4 DEF HandlerInv
<1>21. ASSUME NEW d \in Deliveries, NEW to \in {"none"} \cup OnDisk, ReactInstall(d, to)
      PROVE  HandlerInv'
  <2>1. SpawnerInv'
    BY <1>21 DEF Base, TypeOK, HandlerInv, SpawnerInv, Advance, ReactInstall, Clear
  <2>2. DelivererInv'
    BY <1>21
       DEF Base, TypeOK, HandlerInv, DelivererInv, Advance, Incarnations, ReactInstall, Stop,
           DeliverPCs
  <2>3. HolderInv'
    BY <1>21 DEF Base, TypeOK, HandlerInv, HolderInv, AgentOf, ReactInstall, Stop
  <2>4. BootInv'
    BY <1>21 DEF Base, HandlerInv, BootInv, Advance, ReactInstall
  <2> QED BY <2>1, <2>2, <2>3, <2>4 DEF HandlerInv
<1>22. ASSUME NEW a \in Agents, RemoveUnregister(a)
      PROVE  HandlerInv'
  <2>1. SpawnerInv'
    BY <1>22 DEF Base, TypeOK, HandlerInv, SpawnerInv, RemoveUnregister, Registered
  <2>2. DelivererInv'
    BY <1>22 DEF Base, HandlerInv, DelivererInv, RemoveUnregister
  <2>3. HolderInv'
    BY <1>22 DEF Base, HandlerInv, HolderInv, AgentOf, RemoveUnregister
  <2>4. BootInv'
    BY <1>22 DEF BootInv, RemoveUnregister, Serving
  <2> QED BY <2>1, <2>2, <2>3, <2>4 DEF HandlerInv
<1>23. ASSUME NEW a \in Agents, TearRelease(a)
      PROVE  HandlerInv'
  <2>1. SpawnerInv'
    BY <1>23 DEF Base, HandlerInv, SpawnerInv, TearRelease
  <2>2. DelivererInv'
    BY <1>23 DEF Base, HandlerInv, DelivererInv, TearRelease
  <2>3. HolderInv'
    BY <1>23 DEF Base, HandlerInv, HolderInv, AgentOf, TearRelease
  <2>4. BootInv'
    BY <1>23 DEF Base, HandlerInv, BootInv, TearRelease
  <2> QED BY <2>1, <2>2, <2>3, <2>4 DEF HandlerInv
<1>24. ASSUME NEW a \in Agents, NEW to \in {"archived"} \cup OnDisk, TearArchive(a, to)
      PROVE  HandlerInv'
  <2>1. SpawnerInv'
    BY <1>24 DEF Base, TypeOK, HandlerInv, SpawnerInv, TearArchive, Clear
  <2>2. DelivererInv'
    BY <1>24 DEF Base, HandlerInv, DelivererInv, TearArchive, Stop
  <2>3. HolderInv'
    <3>1. UNCHANGED <<entry, target>> /\ entry[a] # "live"
      BY <1>24 DEF TearArchive, Base, HandlerInv, SpawnerInv
    <3>2. \A x \in Agents :
             IF x = a THEN handle'[x] = Nobody /\ chan'[x] = Nobody
                      ELSE handle'[x] = handle[x] /\ chan'[x] = chan[x]
      BY <1>24 DEF TearArchive, Base, TypeOK
    <3> QED BY <3>1, <3>2 DEF Base, HandlerInv, HolderInv, AgentOf
  <2>4. BootInv'
    BY <1>24 DEF Base, HandlerInv, BootInv, TearArchive
  <2> QED BY <2>1, <2>2, <2>3, <2>4 DEF HandlerInv
<1>25. ASSUME NEW i \in Incarnations, Watch(i)
      PROVE  HandlerInv'
  <2>1. SpawnerInv'
    BY <1>25 DEF Base, TypeOK, HandlerInv, SpawnerInv, Watch
  <2>2. DelivererInv'
    BY <1>25 DEF Base, HandlerInv, DelivererInv, Watch
  <2>3. HolderInv'
    BY <1>25 DEF Base, TypeOK, HandlerInv, HolderInv, AgentOf, Watch
  <2>4. BootInv'
    BY <1>25 DEF Base, HandlerInv, BootInv, Watch
  <2> QED BY <2>1, <2>2, <2>3, <2>4 DEF HandlerInv
<1>26. ASSUME NEW i \in Incarnations, NEW how \in {"panicked", "ended"}, TaskDies(i, how)
      PROVE  HandlerInv'
  <2>1. SpawnerInv'
    BY <1>26 DEF Base, HandlerInv, SpawnerInv, TaskDies
  <2>2. DelivererInv'
    BY <1>26 DEF Base, HandlerInv, DelivererInv, TaskDies
  <2>3. HolderInv'
    BY <1>26 DEF Base, HandlerInv, HolderInv, AgentOf, TaskDies
  <2>4. BootInv'
    BY <1>26 DEF Base, HandlerInv, BootInv, TaskDies
  <2> QED BY <2>1, <2>2, <2>3, <2>4 DEF HandlerInv
<1>27. ASSUME ProcessEnds
      PROVE  HandlerInv'
  <2>1. SpawnerInv'
    BY <1>27 DEF SpawnerInv, Incarnations, ProcessEnds, SpawnPCs
  <2>2. DelivererInv'
    BY <1>27 DEF Base, HandlerInv, DelivererInv, Incarnations, ProcessEnds, DeliverPCs
  <2>3. HolderInv'
    BY <1>27 DEF HolderInv, ProcessEnds
  <2>4. BootInv'
    BY <1>27 DEF BootInv, ProcessEnds
  <2> QED BY <2>1, <2>2, <2>3, <2>4 DEF HandlerInv
<1>28. ASSUME BootDone
      PROVE  HandlerInv'
  <2>1. SpawnerInv'
    BY <1>28 DEF Base, HandlerInv, SpawnerInv, BootDone
  <2>2. DelivererInv'
    BY <1>28 DEF Base, HandlerInv, DelivererInv, BootDone
  <2>3. HolderInv'
    BY <1>28 DEF Base, HandlerInv, HolderInv, AgentOf, BootDone
  <2>4. BootInv'
    BY <1>28 DEF BootInv, BootDone
  <2> QED BY <2>1, <2>2, <2>3, <2>4 DEF HandlerInv
<1>29. ASSUME NEW a \in Agents, RestoreRefused(a)
      PROVE  HandlerInv'
  <2>1. SpawnerInv'
    BY <1>29 DEF Base, HandlerInv, SpawnerInv, BootInv, Incarnations, RestoreRefused
  <2>2. DelivererInv'
    BY <1>29 DEF Base, HandlerInv, DelivererInv, RestoreRefused
  <2>3. HolderInv'
    BY <1>29 DEF Base, TypeOK, HandlerInv, HolderInv, AgentOf, RestoreRefused
  <2>4. BootInv'
    BY <1>29 DEF Base, HandlerInv, BootInv, RestoreRefused
  <2> QED BY <2>1, <2>2, <2>3, <2>4 DEF HandlerInv
<1>30. ASSUME NEW a \in Agents, RestoreOrphan(a)
      PROVE  HandlerInv'
  <2>1. SpawnerInv'
    BY <1>30
       DEF Base, HandlerInv, SpawnerInv, BootInv, Incarnations, RestoreOrphan, RestoreFaulted
  <2>2. DelivererInv'
    BY <1>30 DEF Base, HandlerInv, DelivererInv, RestoreOrphan, RestoreFaulted
  <2>3. HolderInv'
    BY <1>30 DEF Base, HandlerInv, HolderInv, AgentOf, RestoreOrphan, RestoreFaulted
  <2>4. BootInv'
    BY <1>30 DEF Base, HandlerInv, BootInv, RestoreOrphan, RestoreFaulted
  <2> QED BY <2>1, <2>2, <2>3, <2>4 DEF HandlerInv
<1>31. ASSUME NEW a \in Agents, RestoreOne(a)
      PROVE  HandlerInv'
  <2>1. SpawnerInv'
    BY <1>31 DEF Base, HandlerInv, SpawnerInv, BootInv, Incarnations, RestoreOne, Restorable
  <2>2. DelivererInv'
    BY <1>31 DEF Base, HandlerInv, DelivererInv, RestoreOne
  <2>3. HolderInv'
    BY <1>31 DEF Base, TypeOK, HandlerInv, HolderInv, AgentOf, RestoreOne
  <2>4. BootInv'
    BY <1>31 DEF Base, HandlerInv, BootInv, RestoreOne
  <2> QED BY <2>1, <2>2, <2>3, <2>4 DEF HandlerInv
<1>32. ASSUME NEW a \in Agents, NEW est \in BOOLEAN, RestoreFails(a, est)
      PROVE  HandlerInv'
  <2>1. SpawnerInv'
    BY <1>32
       DEF Base, HandlerInv, SpawnerInv, BootInv, Incarnations, RestoreFails, RestoreFaulted,
           Restorable
  <2>2. DelivererInv'
    BY <1>32 DEF Base, HandlerInv, DelivererInv, RestoreFails, RestoreFaulted
  <2>3. HolderInv'
    BY <1>32 DEF Base, HandlerInv, HolderInv, AgentOf, RestoreFails, RestoreFaulted
  <2>4. BootInv'
    BY <1>32 DEF Base, HandlerInv, BootInv, RestoreFails, RestoreFaulted
  <2> QED BY <2>1, <2>2, <2>3, <2>4 DEF HandlerInv
<1> QED BY <1>1, <1>2, <1>3, <1>4, <1>5, <1>6, <1>7, <1>8, <1>9, <1>10, <1>11, <1>12, <1>13,
           <1>14, <1>15, <1>16, <1>17, <1>18, <1>19, <1>20, <1>21, <1>22, <1>23, <1>24, <1>25,
           <1>26, <1>27, <1>28, <1>29, <1>30, <1>31, <1>32
     DEF Next, SpawnStep, DeliverStep, RemoveStep, RestartStep, Restart, BootAborts

\* Only the root exists when the tagma starts.
LEMMA BaseInit == Init => Base
<1> SUFFICES ASSUME Init PROVE Base
  OBVIOUS
<1> USE WorkspacesAssumption, LifecycleAssumption
<1>1. TypeOK
  BY DEF Init, TypeOK, Config, SpawnPCs, Incarnations
<1>2. TreeInv
  BY FS_EmptySet DEF Init, TreeInv, Unborn, Incarnations
<1>3. HandlerInv
  BY
     DEF Init, HandlerInv, SpawnerInv, DelivererInv, HolderInv, BootInv, AgentOf, SpawnPCs,
         DeliverPCs,
         Incarnations
<1> QED BY <1>1, <1>2, <1>3 DEF Base

\* Types, tree and handlers support each other, step by step.
LEMMA BaseNext == Base /\ [Next]_vars => Base'
BY NextType, TreeNext, HandlerNext DEF Base

\* Registry, locks, tasks, directories and handlers stay well-typed through spawns,
\* reactivations, removals, panics and restarts.
THEOREM TypeCorrect == Spec => []TypeOK
<1>1. Spec => []Base
  BY BaseInit, BaseNext, PTL DEF Spec
<1>2. Base => TypeOK
  BY DEF Base
<1> QED BY <1>1, <1>2, PTL

(***************************************************************************)
(* Refinement of Delegation.                                               *)
(***************************************************************************)

\* What the refinement mapping yields for one agent.
LEMMA Mapping ==
    ASSUME NEW a \in Agents
    PROVE  /\ Home[a] = cfg[a].ws /\ Above[a] = cfg[a].above /\ Stead[a] = cfg[a].stead
           /\ Home'[a] = cfg'[a].ws /\ Above'[a] = cfg'[a].above /\ Stead'[a] = cfg'[a].stead
BY DEF Home, Above, Stead

\* A step that leaves the configurations alone leaves the mapping alone.
LEMMA SameTree == UNCHANGED cfg => UNCHANGED <<Home, Above, Stead>>
BY DEF Home, Above, Stead

\* Of an agent that has been created: its workspace, and its superior's.
LEMMA Placed ==
    ASSUME Base, DInv, NEW a \in Agents, cfg[a].stead # Nobody
    PROVE  /\ cfg[a].ws \in Dirs /\ cfg[a].above \subseteq Agents
           /\ cfg[a].heir =>
                 /\ cfg[a].normal /\ cfg[a].sup \in Agents /\ cfg[a].sup # a
                 /\ cfg[cfg[a].sup].ws = cfg[a].ws /\ cfg[cfg[a].sup].stead = cfg[a].stead
                 /\ cfg[a].above = cfg[cfg[a].sup].above \cup {cfg[a].sup}
<1>1. cfg[a].ws \in Dirs /\ cfg[a].above \subseteq Agents
  BY DEF Base, TypeOK, Config
<1>2. ASSUME cfg[a].heir
      PROVE  /\ cfg[a].normal /\ cfg[a].sup \in Agents
             /\ cfg[cfg[a].sup].ws = cfg[a].ws /\ cfg[cfg[a].sup].stead = cfg[a].stead
             /\ cfg[a].above = cfg[cfg[a].sup].above \cup {cfg[a].sup}
  BY <1>2 DEF Base, TreeInv
<1>3. a \notin cfg[a].above
  BY Mapping DEF DInv, D!ChainOfCommand
<1> QED BY <1>1, <1>2, <1>3

\* An heir and its superior as Delegation sees them.
LEMMA HeirMapping ==
    ASSUME Base, DInv, NEW a \in Agents, cfg[a].stead # Nobody, cfg[a].heir
    PROVE  LET x == cfg[a].sup
           IN  /\ x \in Agents /\ x # a
               /\ Stead[a] # Nobody /\ Stead[x] = Stead[a]
               /\ Home[a] = cfg[a].ws /\ Home[x] = cfg[a].ws
               /\ Above[a] = Above[x] \cup {x}
<1>1. cfg[a].sup \in Agents
  BY Placed
<1> QED BY <1>1, Placed, Mapping

\* An agent whose locks are all released gives up what it holds.
LEMMA ReleaseStep ==
    ASSUME NEW a \in Agents, UNCHANGED cfg, lock' = ReleaseAll(lock, a)
    PROVE  D!Next
<1>1. D!GiveUp({a})
  BY SameTree DEF D!GiveUp, ReleaseAll
<1> QED BY <1>1 DEF D!Next

\* Taking one's own workspace is a grant, unless it is held already or the
\* agent is a guest.
LEMMA TakeStep ==
    ASSUME Base, NEW a \in Agents, cfg[a].stead # Nobody, UNCHANGED cfg,
           NEW ch, ch \subseteq cfg[a].above, TryAcquire(lock, a, ch), lock' = Acquired(lock, a)
    PROVE  [D!Next]_(D!vars)
<1>1. CASE ~cfg[a].normal \/ lock[cfg[a].ws] = a
  <2>1. lock' = lock
    BY <1>1 DEF Acquired, Base, TypeOK, Config
  <2> QED BY <2>1, SameTree DEF D!vars
<1>2. CASE cfg[a].normal /\ lock[cfg[a].ws] # a
  <2>1. lock[cfg[a].ws] = Nobody /\ OverlapFree(lock, a, cfg[a].ws, ch)
    BY <1>2 DEF TryAcquire, Acquirable
  <2>2. lock' = [lock EXCEPT ![cfg[a].ws] = a]
    BY <1>2 DEF Acquired
  <2>3. D!Grant(a)
    BY <2>1, <2>2, SameTree, Mapping DEF D!Grant, OverlapFree
  <2> QED BY <2>3 DEF D!Next
<1> QED BY <1>1, <1>2

\* At creation an heir takes over what its superior holds; any other agent,
\* and an heir whose superior holds nothing, takes its own workspace.
LEMMA EstablishStep ==
    ASSUME Base, DInv, NEW a \in Agents, cfg[a].stead # Nobody, UNCHANGED cfg,
           TryAcquire(Forward(lock, a), a, cfg[a].above), lock' = Acquired(Forward(lock, a), a)
    PROVE  [D!Next]_(D!vars)
<1>1. CASE cfg[a].heir /\ lock[cfg[a].ws] = cfg[a].sup
  <2>1. Forward(lock, a) = [lock EXCEPT ![cfg[a].ws] = a]
    BY <1>1 DEF Forward, Transfer
  <2>2. lock' = [lock EXCEPT ![cfg[a].ws] = a]
    BY <2>1, Placed DEF Acquired, Base, TypeOK
  <2>3. D!PassOn(cfg[a].sup, a)
    <3> DEFINE x == cfg[a].sup
    <3>1. /\ x \in Agents /\ Stead[x] # Nobody /\ Stead[x] = Stead[a]
          /\ Home[x] = cfg[a].ws /\ x \in Above[a]
      BY <1>1, HeirMapping
    <3> QED BY <1>1, <2>2, <3>1, SameTree DEF D!PassOn
  <2> QED BY <1>1, <2>3, Placed DEF D!Next
<1>2. CASE ~(cfg[a].heir /\ lock[cfg[a].ws] = cfg[a].sup)
  <2>1. Forward(lock, a) = lock
    BY <1>2 DEF Forward, Transfer
  <2> QED BY <2>1, TakeStep
<1> QED BY <1>1, <1>2

\* Backing out: an heir hands its workspace back, any other agent gives it up.
LEMMA ReturnStep ==
    ASSUME Base, DInv, NEW a \in Agents, cfg[a].stead # Nobody, UNCHANGED cfg,
           lock' = ReleaseAll(Reverse(lock, a), a)
    PROVE  D!Next
<1>1. CASE cfg[a].heir /\ lock[cfg[a].ws] = a
  <2>1. Reverse(lock, a) = [lock EXCEPT ![cfg[a].ws] = cfg[a].sup]
    BY <1>1 DEF Reverse, Transfer
  <2>2. \A d \in Dirs : lock[d] = a => d = cfg[a].ws
    BY WorkspacesAssumption, Mapping DEF DInv, D!OwnsOnlyHome
  <2>3. lock' = [lock EXCEPT ![cfg[a].ws] = cfg[a].sup]
    <3>1. cfg[a].sup # a /\ lock \in [Dirs -> Agents \cup {Nobody}]
      BY <1>1, Placed DEF Base, TypeOK
    <3> QED BY <2>1, <2>2, <3>1 DEF ReleaseAll
  <2>4. D!PassOn(a, cfg[a].sup)
    BY <1>1, <2>3, HeirMapping, SameTree DEF D!PassOn
  <2> QED BY <1>1, <2>4, Placed DEF D!Next
<1>2. CASE ~(cfg[a].heir /\ lock[cfg[a].ws] = a)
  <2>1. Reverse(lock, a) = lock
    BY <1>2 DEF Reverse, Transfer
  <2> QED BY <2>1, ReleaseStep
<1> QED BY <1>1, <1>2

\* Establishing and backing out at once: an heir leaves the workspace with its
\* superior, to whom it may thereby be granted; any other agent leaves nothing.
LEMMA FailStep ==
    ASSUME Base, DInv, NEW a \in Agents, cfg[a].stead # Nobody, UNCHANGED cfg,
           TryAcquire(Forward(lock, a), a, cfg[a].above),
           lock' = ReleaseAll(Reverse(Acquired(Forward(lock, a), a), a), a)
    PROVE  [D!Next]_(D!vars)
<1> DEFINE w == cfg[a].ws
           x == cfg[a].sup
<1>0. lock \in [Dirs -> Agents \cup {Nobody}] /\ w \in Dirs
  BY Placed DEF Base, TypeOK
<1>1. CASE cfg[a].heir
  <2>1. \A d \in Dirs : lock[d] = a => d = w
    BY WorkspacesAssumption, Mapping DEF DInv, D!OwnsOnlyHome
  <2>2. Acquired(Forward(lock, a), a) = [lock EXCEPT ![w] = a]
    BY <1>0, <1>1, Placed DEF Acquired, Forward, Transfer
  <2>3. Reverse([lock EXCEPT ![w] = a], a) = [lock EXCEPT ![w] = x]
    BY <1>0, <1>1 DEF Reverse, Transfer
  <2>4. lock' = [lock EXCEPT ![w] = x]
    <3>1. x # a
      BY <1>1, Placed
    <3>2. lock' = ReleaseAll([lock EXCEPT ![w] = x], a)
      BY <2>2, <2>3
    <3> QED BY <1>0, <2>1, <3>1, <3>2 DEF ReleaseAll
  <2>5. CASE lock[w] = x
    <3>1. lock' = lock
      BY <1>0, <2>4, <2>5
    <3> QED BY <3>1, SameTree DEF D!vars
  <2>6. CASE lock[w] = a /\ lock[w] # x
    <3>1. D!PassOn(a, x)
      BY <1>1, <2>4, <2>6, HeirMapping, SameTree DEF D!PassOn
    <3> QED BY <1>1, <3>1, Placed DEF D!Next
  <2>7. CASE lock[w] # a /\ lock[w] # x
    <3>1. Forward(lock, a) = lock
      BY <2>7 DEF Forward, Transfer
    <3>2. lock[w] = Nobody /\ OverlapFree(lock, a, w, cfg[a].above)
      BY <1>1, <2>7, <3>1, Placed DEF TryAcquire, Acquirable
    <3>3. \A e \in Dirs : <<w, e>> \in Beneath => lock[e] # x
      BY <1>1, Placed, WorkspacesAssumption, Mapping DEF DInv, D!OwnsOnlyHome
    <3>4. \A e \in Dirs : <<w, e>> \in Beneath => lock[e] \in cfg[x].above \cup {Nobody}
      BY <1>1, <3>2, <3>3, Placed DEF OverlapFree
    <3>5. D!Grant(x)
      <4>1. x \in Agents /\ Stead[x] # Nobody /\ Home[x] = w /\ Above[x] = cfg[x].above
        BY <1>1, HeirMapping, Mapping
      <4> QED BY <2>4, <3>2, <3>4, <4>1, SameTree DEF D!Grant, OverlapFree
    <3> QED BY <1>1, <3>5, Placed DEF D!Next
  <2> QED BY <2>5, <2>6, <2>7
<1>2. CASE ~cfg[a].heir
  <2>1. Forward(lock, a) = lock /\ Reverse(Acquired(lock, a), a) = Acquired(lock, a)
    BY <1>2 DEF Forward, Reverse
  <2>2. cfg[a].normal => lock[w] \in {a, Nobody}
    BY <2>1 DEF TryAcquire, Acquirable
  <2>3. ReleaseAll(Acquired(lock, a), a) = ReleaseAll(lock, a)
    BY <1>0, <2>2 DEF ReleaseAll, Acquired
  <2> QED BY <2>1, <2>3, ReleaseStep
<1> QED BY <1>1, <1>2

\* Every step of the handlers is one of Delegation's or leaves it alone.
LEMMA StepRefines == Base /\ DInv /\ [Next]_vars => [D!Next]_(D!vars)
<1> SUFFICES ASSUME Base, DInv, [Next]_vars PROVE [D!Next]_(D!vars)
  OBVIOUS
<1> USE WorkspacesAssumption, LifecycleAssumption
<1>1. CASE UNCHANGED vars
  BY <1>1, SameTree DEF vars, D!vars
<1>2. ASSUME NEW c \in Agents, NEW s \in Agents, NEW k \in Kinds, NEW r \in Roles, SpawnReserve(c, s, k, r)
      PROVE  [D!Next]_(D!vars)
  <2>1. /\ cfg[c].stead = Nobody /\ entry[s] = "live"
        /\ k.heir => k.ws = cfg[s].ws
        /\ k.ws \in Dirs /\ k.heir \in BOOLEAN
    BY <1>2 DEF SpawnReserve, ValidRequest
  <2>2. cfg[s].stead # Nobody /\ s # c
    BY <2>1 DEF Base, TreeInv, Unborn
  <2>3. /\ lock' = lock /\ \A x \in Agents \ {c} : cfg'[x] = cfg[x]
        /\ cfg'[c].ws = k.ws /\ cfg'[c].above = cfg[s].above \cup {s}
        /\ cfg'[c].stead = (IF k.heir THEN cfg[s].stead ELSE c)
    BY <1>2 DEF SpawnReserve, Base, TypeOK
  <2>4. Home' = [Home EXCEPT ![c] = k.ws]
    BY <2>3 DEF Home
  <2>5. Above' = [Above EXCEPT ![c] = Above[s] \cup {s}]
    BY <2>3 DEF Above
  <2>6. Stead' = [Stead EXCEPT ![c] = IF k.heir THEN Stead[s] ELSE c]
    BY <2>3 DEF Stead
  <2>7. D!Appoint(c, s, k.ws, k.heir)
    BY <2>1, <2>2, <2>3, <2>4, <2>5, <2>6, Mapping DEF D!Appoint, D!Fresh
  <2>8. c \in D!Fresh
    BY <2>1, Mapping DEF D!Fresh
  <2> QED BY <2>1, <2>7, <2>8 DEF D!Next
<1>3. ASSUME NEW c \in Agents, SpawnMakeDir(c)
      PROVE  [D!Next]_(D!vars)
  BY <1>3, SameTree DEF SpawnMakeDir, D!vars
<1>4. ASSUME NEW c \in Agents, NEW written \in BOOLEAN, SpawnWriteMeta(c, written)
      PROVE  [D!Next]_(D!vars)
  BY <1>4, SameTree DEF SpawnWriteMeta, D!vars
<1>5. ASSUME NEW c \in Agents, SpawnChain(c)
      PROVE  [D!Next]_(D!vars)
  BY <1>5, SameTree DEF SpawnChain, D!vars
<1>6. ASSUME NEW c \in Agents, SpawnCarve(c)
      PROVE  [D!Next]_(D!vars)
  <2>1. cfg[c].stead # Nobody
    BY <1>6 DEF Base, TreeInv, Unborn, SpawnCarve
  <2>2. chain[c] = cfg[c].above /\ UNCHANGED cfg
    BY <1>6 DEF SpawnCarve, Base, HandlerInv, SpawnerInv
  <2>3. CASE TryAcquire(Forward(lock, c), c, chain[c])
    BY <1>6, <2>1, <2>2, <2>3, EstablishStep DEF SpawnCarve
  <2>4. CASE ~TryAcquire(Forward(lock, c), c, chain[c])
    <3>1. cfg[c].ws \in Dirs /\ lock \in [Dirs -> Agents \cup {Nobody}]
      BY <2>1, Placed DEF Base, TypeOK
    <3>2. cfg[c].heir => Forward(lock, c)[cfg[c].ws] # c
      BY <2>4 DEF TryAcquire, Acquirable
    <3>3. Forward(lock, c) = lock
      BY <3>1, <3>2 DEF Forward, Transfer
    <3>4. Reverse(Forward(lock, c), c) = lock
      BY <3>2, <3>3 DEF Reverse, Transfer
    <3>5. lock' = lock
      BY <1>6, <2>4, <3>4 DEF SpawnCarve
    <3> QED BY <2>2, <3>5, SameTree DEF D!vars
  <2> QED BY <2>3, <2>4
<1>7. ASSUME NEW c \in Agents, SpawnTask(c)
      PROVE  [D!Next]_(D!vars)
  BY <1>7, SameTree DEF SpawnTask, D!vars
<1>8. ASSUME NEW c \in Agents, NEW to \in {"none"} \cup OnDisk, SpawnRegister(c, to)
      PROVE  [D!Next]_(D!vars)
  BY <1>8, SameTree DEF SpawnRegister, D!vars
<1>9. ASSUME NEW c \in Agents, SpawnFails(c)
      PROVE  [D!Next]_(D!vars)
  BY <1>9, SameTree DEF SpawnFails, D!vars
<1>10. ASSUME NEW c \in Agents, NEW to \in {"none"} \cup OnDisk, SpawnErase(c, to)
      PROVE  [D!Next]_(D!vars)
  BY <1>10, SameTree DEF SpawnErase, D!vars
<1>11. ASSUME NEW c \in Agents, SpawnUnwind(c)
      PROVE  [D!Next]_(D!vars)
  <2>1. cfg[c].stead # Nobody
    BY <1>11 DEF Base, TreeInv, Unborn, SpawnUnwind
  <2> QED BY <1>11, <2>1, ReturnStep DEF SpawnUnwind
<1>12. ASSUME NEW c \in Agents, SpawnRefused(c)
      PROVE  [D!Next]_(D!vars)
  BY <1>12, SameTree DEF SpawnRefused, D!vars
<1>13. ASSUME NEW d \in Deliveries, NEW a \in Agents, Probe(d, a)
      PROVE  [D!Next]_(D!vars)
  BY <1>13, SameTree DEF Probe, D!vars
<1>14. ASSUME NEW d \in Deliveries, NEW ok \in BOOLEAN, Reserve(d, ok)
      PROVE  [D!Next]_(D!vars)
  <2>1. target[d] \in Agents
    BY <1>14 DEF Reserve, Base, HandlerInv, DelivererInv
  <2> QED BY <1>14, <2>1, ReleaseStep, SameTree DEF Reserve, D!vars
<1>15. ASSUME NEW d \in Deliveries, NEW ok \in BOOLEAN, ReactSpawn(d, ok)
      PROVE  [D!Next]_(D!vars)
  BY <1>15, SameTree DEF ReactSpawn, D!vars
<1>16. ASSUME NEW d \in Deliveries, ReserveSkipped(d)
      PROVE  [D!Next]_(D!vars)
  BY <1>16, SameTree DEF ReserveSkipped, D!vars
<1>17. ASSUME NEW d \in Deliveries, ReactChain(d)
      PROVE  [D!Next]_(D!vars)
  BY <1>17, SameTree DEF ReactChain, D!vars
<1>18. ASSUME NEW d \in Deliveries, ReactAcquire(d)
      PROVE  [D!Next]_(D!vars)
  <2>1. target[d] \in Agents /\ chain[d] \subseteq cfg[target[d]].above /\ UNCHANGED cfg
    BY <1>18 DEF ReactAcquire, Base, HandlerInv, DelivererInv
  <2>2. cfg[target[d]].stead # Nobody
    BY <2>1 DEF Base, TreeInv, Unborn
  <2>3. CASE TryAcquire(lock, target[d], chain[d])
    BY <1>18, <2>1, <2>2, <2>3, TakeStep DEF ReactAcquire
  <2>4. CASE ~TryAcquire(lock, target[d], chain[d])
    BY <1>18, <2>4, SameTree DEF ReactAcquire, D!vars
  <2> QED BY <2>3, <2>4
<1>19. ASSUME NEW d \in Deliveries, ReactClose(d)
      PROVE  [D!Next]_(D!vars)
  BY <1>19, SameTree DEF ReactClose, D!vars
<1>20. ASSUME NEW d \in Deliveries, ReactUnlock(d)
      PROVE  [D!Next]_(D!vars)
  <2>1. target[d] \in Agents
    BY <1>20 DEF ReactUnlock, Base, HandlerInv, DelivererInv
  <2> QED BY <1>20, <2>1, ReleaseStep, SameTree DEF ReactUnlock, D!vars
<1>21. ASSUME NEW d \in Deliveries, NEW to \in {"none"} \cup OnDisk, ReactInstall(d, to)
      PROVE  [D!Next]_(D!vars)
  <2>1. target[d] \in Agents
    BY <1>21 DEF ReactInstall, Base, HandlerInv, DelivererInv
  <2> QED BY <1>21, <2>1, ReleaseStep, SameTree DEF ReactInstall, D!vars
<1>22. ASSUME NEW a \in Agents, RemoveUnregister(a)
      PROVE  [D!Next]_(D!vars)
  BY <1>22, SameTree DEF RemoveUnregister, D!vars
<1>23. ASSUME NEW a \in Agents, TearRelease(a)
      PROVE  [D!Next]_(D!vars)
  <2>1. cfg[a].stead # Nobody
    BY <1>23 DEF Base, TreeInv, Unborn, TearRelease
  <2> QED BY <1>23, <2>1, ReturnStep DEF TearRelease
<1>24. ASSUME NEW a \in Agents, NEW to \in {"archived"} \cup OnDisk, TearArchive(a, to)
      PROVE  [D!Next]_(D!vars)
  BY <1>24, SameTree DEF TearArchive, D!vars
<1>25. ASSUME NEW i \in Incarnations, Watch(i)
      PROVE  [D!Next]_(D!vars)
  <2>1. AgentOf(i) \in Agents
    BY <1>25 DEF Watch, AgentOf, Base, HandlerInv, DelivererInv, Incarnations
  <2> QED BY <1>25, <2>1, ReleaseStep, SameTree DEF Watch, D!vars
<1>26. ASSUME NEW i \in Incarnations, NEW how \in {"panicked", "ended"}, TaskDies(i, how)
      PROVE  [D!Next]_(D!vars)
  BY <1>26, SameTree DEF TaskDies, D!vars
<1>27. ASSUME ProcessEnds
      PROVE  [D!Next]_(D!vars)
  <2>1. D!GiveUp(Agents)
    BY <1>27, SameTree DEF ProcessEnds, D!GiveUp, Base, TypeOK
  <2> QED BY <2>1 DEF D!Next
<1>28. ASSUME BootDone
      PROVE  [D!Next]_(D!vars)
  BY <1>28, SameTree DEF BootDone, D!vars
<1>29. ASSUME NEW a \in Agents, RestoreRefused(a)
      PROVE  [D!Next]_(D!vars)
  BY <1>29, SameTree DEF RestoreRefused, D!vars
<1>30. ASSUME NEW a \in Agents, RestoreOrphan(a)
      PROVE  [D!Next]_(D!vars)
  BY <1>30, SameTree DEF RestoreOrphan, RestoreFaulted, D!vars
<1>31. ASSUME NEW a \in Agents, RestoreOne(a)
      PROVE  [D!Next]_(D!vars)
  <2>1. cfg[a].stead # Nobody
    BY <1>31 DEF Base, TreeInv, Unborn, RestoreOne, Restorable, Pending
  <2> QED BY <1>31, <2>1, EstablishStep DEF RestoreOne, Establishes
<1>32. ASSUME NEW a \in Agents, NEW est \in BOOLEAN, RestoreFails(a, est)
      PROVE  [D!Next]_(D!vars)
  <2>1. cfg[a].stead # Nobody
    BY <1>32 DEF Base, TreeInv, Unborn, RestoreFails, Restorable, Pending
  <2>2. CASE est
    BY <1>32, <2>1, <2>2, FailStep DEF RestoreFails, RestoreFaulted, Establishes
  <2>3. CASE ~est
    BY <1>32, <2>3, SameTree DEF RestoreFails, RestoreFaulted, D!vars
  <2> QED BY <2>2, <2>3
<1> QED BY <1>1, <1>2, <1>3, <1>4, <1>5, <1>6, <1>7, <1>8, <1>9, <1>10, <1>11, <1>12, <1>13,
           <1>14, <1>15, <1>16, <1>17, <1>18, <1>19, <1>20, <1>21, <1>22, <1>23, <1>24, <1>25,
           <1>26, <1>27, <1>28, <1>29, <1>30, <1>31, <1>32
     DEF Next, SpawnStep, DeliverStep, RemoveStep, RestartStep, Restart, BootAborts

\* The tagma starts where Delegation does.
LEMMA InitRefines == Init => D!Init
BY WorkspacesAssumption DEF Init, D!Init, Home, Above, Stead

\* The inductive invariant and that of Delegation hold throughout.
LEMMA CoreInv == Spec => [](Base /\ DInv)
<1>1. Init => Base /\ DInv
  BY BaseInit, InitRefines, DInit
<1>2. Base /\ DInv /\ [Next]_vars => (Base /\ DInv)'
  BY BaseNext, StepRefines, DNext
<1> QED BY <1>1, <1>2, PTL DEF Spec

\* Every behaviour of the handlers (spawn_subagent, Materialize::run, the delivery's
\* reactivation, the removal, the restore) is one of Delegation: whatever they interleave and
\* wherever they fail, the lock table changes only by grants that respect the chain of
\* command, by transfers between a superior and its heir, and by releases.
THEOREM Refines == Spec => ImplementsDelegation
<1>1. Init => D!Init
  BY InitRefines
<1>2. Base /\ DInv /\ [Next]_vars => [D!Next]_(D!vars)
  BY StepRefines
<1> QED BY <1>1, <1>2, CoreInv, PTL DEF Spec, ImplementsDelegation, D!Spec

(***************************************************************************)
(* Directories.                                                            *)
(***************************************************************************)

\* A creation that has erased its directory has none, or could not remove it.
Erased == \A a \in Agents : pc[a] = "erased" => disk[a] \notin OnDisk \/ a \in leftover

\* Each step leaves such a directory as it is.
LEMMA ErasedNext == Base /\ Erased /\ [Next]_vars => Erased'
<1> SUFFICES ASSUME Base, Erased, [Next]_vars PROVE Erased'
  OBVIOUS
<1> USE WorkspacesAssumption, LifecycleAssumption
<1>1. ASSUME leftover \subseteq leftover',
             \A a \in Agents : pc'[a] = "erased" => pc[a] = "erased" /\ disk'[a] = disk[a]
      PROVE  Erased'
  BY <1>1 DEF Erased
<1>2. CASE UNCHANGED vars
  BY <1>1, <1>2 DEF vars
<1>3. ASSUME NEW c \in Agents, NEW to \in {"none"} \cup OnDisk, SpawnRegister(c, to) \/ SpawnErase(c, to)
      PROVE  Erased'
  <2>1. CASE UNCHANGED <<disk, leftover>> /\ pc' = [pc EXCEPT ![c] = "done"]
    BY <1>1, <2>1 DEF Base, TypeOK, Incarnations
  <2>2. CASE Clear(c, to) /\ pc' = [pc EXCEPT ![c] = "erased"]
    <3>1. \A a \in Agents : a # c => disk'[a] = disk[a] /\ pc'[a] = pc[a]
      BY <2>2 DEF Clear, Base, TypeOK, Incarnations
    <3>2. leftover \subseteq leftover' /\ (disk'[c] \notin OnDisk \/ c \in leftover')
      BY <2>2 DEF Clear, OnDisk, Base, TypeOK
    <3> QED BY <3>1, <3>2 DEF Erased
  <2> QED BY <1>3, <2>1, <2>2 DEF SpawnRegister, SpawnErase, Advance
<1>4. ASSUME NEW c \in Agents, NEW written \in BOOLEAN, SpawnMakeDir(c) \/ SpawnWriteMeta(c, written)
      PROVE  Erased'
  BY <1>1, <1>4 DEF SpawnMakeDir, SpawnWriteMeta, Advance, Base, TypeOK, Incarnations
<1>5. ASSUME NEW c \in Agents, NEW s \in Agents, NEW k \in Kinds, NEW r \in Roles,
             SpawnReserve(c, s, k, r)
      PROVE  Erased'
  BY <1>1, <1>5 DEF SpawnReserve, Advance, Base, TypeOK, Incarnations
<1>6. ASSUME NEW c \in Agents,
             \/ SpawnChain(c) \/ SpawnCarve(c) \/ SpawnTask(c) \/ SpawnFails(c)
             \/ SpawnUnwind(c) \/ SpawnRefused(c)
      PROVE  Erased'
  BY <1>1, <1>6
     DEF SpawnChain, SpawnCarve, SpawnTask, SpawnFails, SpawnUnwind, SpawnRefused, Advance, Base,
         TypeOK, Incarnations
<1>7. ASSUME NEW d \in Deliveries, DeliverStep(d) PROVE Erased'
  <2>0. \E to : pc' = [pc EXCEPT ![d] = to]
    BY <1>7
       DEF DeliverStep, Probe, Reserve, ReactSpawn, ReserveSkipped, ReactChain, ReactAcquire,
           ReactClose, ReactUnlock, ReactInstall, Advance
  <2>1. \A a \in Agents : pc'[a] = pc[a]
    BY <2>0 DEF Base, TypeOK, Incarnations
  <2>2. CASE \E to \in {"none"} \cup OnDisk : ReactInstall(d, to)
    <3>1. target[d] \in Agents /\ pc[target[d]] \in {"idle", "done"} /\ leftover \subseteq leftover'
      BY <2>2 DEF ReactInstall, Clear, Base, HandlerInv, SpawnerInv, DelivererInv
    <3>2. \A a \in Agents : a # target[d] => disk'[a] = disk[a]
      BY <2>2 DEF ReactInstall, Clear, Base, TypeOK
    <3> QED BY <1>1, <2>1, <3>1, <3>2
  <2>3. CASE UNCHANGED <<disk, leftover>>
    BY <1>1, <2>1, <2>3
  <2> QED BY <1>7, <2>2, <2>3
          DEF DeliverStep, Probe, Reserve, ReactSpawn, ReserveSkipped, ReactChain, ReactAcquire,
              ReactClose, ReactUnlock
<1>8. ASSUME NEW a \in Agents, RemoveUnregister(a) \/ TearRelease(a) PROVE Erased'
  BY <1>1, <1>8 DEF RemoveUnregister, TearRelease
<1>9. ASSUME NEW a \in Agents, NEW to \in {"archived"} \cup OnDisk, TearArchive(a, to) PROVE Erased'
  <2>1. pc[a] \in {"idle", "done"} /\ UNCHANGED pc /\ leftover \subseteq leftover'
    BY <1>9 DEF TearArchive, Clear, Base, HandlerInv, SpawnerInv
  <2>2. \A x \in Agents : x # a => disk'[x] = disk[x]
    BY <1>9 DEF TearArchive, Clear, Base, TypeOK
  <2> QED BY <1>1, <2>1, <2>2
<1>10. ASSUME NEW i \in Incarnations, Watch(i) \/ \E how \in {"panicked", "ended"} : TaskDies(i, how)
       PROVE  Erased'
  BY <1>1, <1>10 DEF Watch, TaskDies
<1>11. CASE ProcessEnds
  BY <1>11 DEF ProcessEnds, Erased, Incarnations
<1>12. CASE BootDone
  BY <1>1, <1>12 DEF BootDone
<1>13. ASSUME NEW a \in Agents, RestoreRefused(a) \/ RestoreOrphan(a) \/ RestoreOne(a)
                                \/ \E est \in BOOLEAN : RestoreFails(a, est)
       PROVE  Erased'
  BY <1>1, <1>13 DEF RestoreRefused, RestoreOrphan, RestoreOne, RestoreFails, RestoreFaulted
<1> QED BY <1>2, <1>3, <1>4, <1>5, <1>6, <1>7, <1>8, <1>9, <1>10, <1>11, <1>12, <1>13
        DEF Next, SpawnStep, RemoveStep, RestartStep, Restart, BootAborts

\* Each step leaves a directory in the live area to a registered agent, a teardown or a
\* creation under way, unless it is one whose directory operation fails.
LEMMA OrphanDirNext == Base /\ Erased /\ NoOrphanDir /\ [Next]_vars => NoOrphanDir'
<1> SUFFICES ASSUME Base, Erased, NoOrphanDir, [Next]_vars PROVE NoOrphanDir'
  OBVIOUS
<1> USE WorkspacesAssumption, LifecycleAssumption
<1>1. CASE UNCHANGED vars
  BY <1>1 DEF vars, NoOrphanDir, Serving, Registered
<1>2. ASSUME NEW c \in Agents, NEW s \in Agents, NEW k \in Kinds, NEW r \in Roles, SpawnReserve(c, s, k, r)
      PROVE  NoOrphanDir'
  BY <1>2 DEF Advance, NoOrphanDir, Registered, SpawnReserve
<1>3. ASSUME NEW c \in Agents, SpawnMakeDir(c)
      PROVE  NoOrphanDir'
  BY <1>3 DEF Advance, NoOrphanDir, Serving, Registered, SpawnMakeDir, Base, TypeOK, Incarnations
<1>4. ASSUME NEW c \in Agents, NEW written \in BOOLEAN, SpawnWriteMeta(c, written)
      PROVE  NoOrphanDir'
  BY <1>4 DEF Base, TypeOK, Advance, Incarnations, NoOrphanDir, Serving, Registered, SpawnWriteMeta
<1>5. ASSUME NEW c \in Agents, SpawnChain(c)
      PROVE  NoOrphanDir'
  BY <1>5 DEF Base, TypeOK, Advance, Incarnations, NoOrphanDir, Serving, Registered, SpawnChain
<1>6. ASSUME NEW c \in Agents, SpawnCarve(c)
      PROVE  NoOrphanDir'
  BY <1>6 DEF Base, TypeOK, Advance, Incarnations, NoOrphanDir, Serving, Registered, SpawnCarve
<1>7. ASSUME NEW c \in Agents, SpawnTask(c)
      PROVE  NoOrphanDir'
  BY <1>7 DEF Advance, NoOrphanDir, Serving, Registered, SpawnTask
<1>8. ASSUME NEW c \in Agents, NEW to \in {"none"} \cup OnDisk, SpawnRegister(c, to)
      PROVE  NoOrphanDir'
  BY <1>8
     DEF Base, TypeOK, Advance, Incarnations, NoOrphanDir, Serving, Registered, SpawnRegister,
         Clear, OnDisk
<1>9. ASSUME NEW c \in Agents, SpawnFails(c)
      PROVE  NoOrphanDir'
  BY <1>9 DEF Advance, NoOrphanDir, Serving, Registered, SpawnFails
<1>10. ASSUME NEW c \in Agents, NEW to \in {"none"} \cup OnDisk, SpawnErase(c, to)
      PROVE  NoOrphanDir'
  BY <1>10
     DEF Base, TypeOK, Advance, Incarnations, NoOrphanDir, Serving, Registered, SpawnErase, Clear,
         OnDisk
<1>11. ASSUME NEW c \in Agents, SpawnUnwind(c)
      PROVE  NoOrphanDir'
  BY <1>11 DEF Base, TypeOK, Advance, Erased, NoOrphanDir, Serving, Registered, SpawnUnwind
<1>12. ASSUME NEW c \in Agents, SpawnRefused(c)
      PROVE  NoOrphanDir'
  BY <1>12
     DEF Base, TypeOK, Incarnations, HandlerInv, SpawnerInv, Advance, NoOrphanDir, Serving,
         Registered, SpawnRefused, OnDisk
<1>13. ASSUME NEW d \in Deliveries, NEW a \in Agents, Probe(d, a)
      PROVE  NoOrphanDir'
  BY <1>13 DEF Advance, NoOrphanDir, Registered, Probe
<1>14. ASSUME NEW d \in Deliveries, NEW ok \in BOOLEAN, Reserve(d, ok)
      PROVE  NoOrphanDir'
  BY <1>14 DEF Advance, NoOrphanDir, Serving, Registered, Reserve
<1>15. ASSUME NEW d \in Deliveries, NEW ok \in BOOLEAN, ReactSpawn(d, ok)
      PROVE  NoOrphanDir'
  BY <1>15 DEF Advance, NoOrphanDir, Serving, Registered, ReactSpawn
<1>16. ASSUME NEW d \in Deliveries, ReserveSkipped(d)
      PROVE  NoOrphanDir'
  BY <1>16 DEF Advance, NoOrphanDir, Serving, Registered, ReserveSkipped
<1>17. ASSUME NEW d \in Deliveries, ReactChain(d)
      PROVE  NoOrphanDir'
  BY <1>17 DEF Advance, NoOrphanDir, Serving, Registered, ReactChain
<1>18. ASSUME NEW d \in Deliveries, ReactAcquire(d)
      PROVE  NoOrphanDir'
  BY <1>18
     DEF Base, TypeOK, Advance, Incarnations, NoOrphanDir, Serving, Registered, ReactAcquire
<1>19. ASSUME NEW d \in Deliveries, ReactClose(d)
      PROVE  NoOrphanDir'
  BY <1>19 DEF Advance, NoOrphanDir, Serving, Registered, ReactClose
<1>20. ASSUME NEW d \in Deliveries, ReactUnlock(d)
      PROVE  NoOrphanDir'
  BY <1>20 DEF Advance, NoOrphanDir, Serving, Registered, ReactUnlock
<1>21. ASSUME NEW d \in Deliveries, NEW to \in {"none"} \cup OnDisk, ReactInstall(d, to)
      PROVE  NoOrphanDir'
  BY <1>21 DEF Base, TypeOK, Advance, NoOrphanDir, Serving, Registered, ReactInstall, Clear, OnDisk
<1>22. ASSUME NEW a \in Agents, RemoveUnregister(a)
      PROVE  NoOrphanDir'
  BY <1>22 DEF Base, TypeOK, NoOrphanDir, Registered, RemoveUnregister
<1>23. ASSUME NEW a \in Agents, TearRelease(a)
      PROVE  NoOrphanDir'
  BY <1>23 DEF NoOrphanDir, Serving, Registered, TearRelease
<1>24. ASSUME NEW a \in Agents, NEW to \in {"archived"} \cup OnDisk, TearArchive(a, to)
      PROVE  NoOrphanDir'
  BY <1>24 DEF Base, TypeOK, NoOrphanDir, Serving, Registered, TearArchive, Clear, OnDisk
<1>25. ASSUME NEW i \in Incarnations, Watch(i)
      PROVE  NoOrphanDir'
  BY <1>25 DEF Base, TypeOK, NoOrphanDir, Serving, Registered, Watch
<1>26. ASSUME NEW i \in Incarnations, NEW how \in {"panicked", "ended"}, TaskDies(i, how)
      PROVE  NoOrphanDir'
  BY <1>26 DEF NoOrphanDir, Registered, TaskDies
<1>27. ASSUME ProcessEnds
      PROVE  NoOrphanDir'
  BY <1>27 DEF NoOrphanDir, Serving, ProcessEnds
<1>28. ASSUME BootDone
      PROVE  NoOrphanDir'
  BY <1>28 DEF NoOrphanDir, Registered, BootDone, Pending, Unreadable, OnDisk
<1>29. ASSUME NEW a \in Agents, RestoreRefused(a)
      PROVE  NoOrphanDir'
  BY <1>29 DEF NoOrphanDir, Serving, RestoreRefused
<1>30. ASSUME NEW a \in Agents, RestoreOrphan(a)
      PROVE  NoOrphanDir'
  BY <1>30 DEF NoOrphanDir, Serving, RestoreOrphan, RestoreFaulted
<1>31. ASSUME NEW a \in Agents, RestoreOne(a)
      PROVE  NoOrphanDir'
  BY <1>31 DEF NoOrphanDir, Serving, Registered, RestoreOne
<1>32. ASSUME NEW a \in Agents, NEW est \in BOOLEAN, RestoreFails(a, est)
      PROVE  NoOrphanDir'
  BY <1>32 DEF NoOrphanDir, Serving, Registered, RestoreFails, RestoreFaulted
<1> QED BY <1>1, <1>2, <1>3, <1>4, <1>5, <1>6, <1>7, <1>8, <1>9, <1>10, <1>11, <1>12, <1>13,
           <1>14, <1>15, <1>16, <1>17, <1>18, <1>19, <1>20, <1>21, <1>22, <1>23, <1>24, <1>25,
           <1>26, <1>27, <1>28, <1>29, <1>30, <1>31, <1>32
     DEF Next, SpawnStep, DeliverStep, RemoveStep, RestartStep, Restart, BootAborts

(***************************************************************************)
(* Slots and chains.                                                       *)
(***************************************************************************)

\* A rollback returns the slot of the agent being created, and no other.
LEMMA RetractSlots ==
    ASSUME Base, SlotInv, NEW c \in Agents, pc[c] \in Materializing,
           NEW to \in {"retracted", "erased"}, pc' = [pc EXCEPT ![c] = to],
           UNCHANGED <<entry, cfg, booting>>, subs' = Retracted(c)
    PROVE  SlotInv'
<1>1. ~booting /\ entry[c] = "none"
  BY DEF Base, HandlerInv, SpawnerInv, BootInv, Materializing, Incarnations
<1>2. \A x \in Agents : x # c => pc'[x] = pc[x]
  BY DEF Base, TypeOK, Incarnations
<1>3. pc'[c] = to
  BY DEF Base, TypeOK, Incarnations
<1>4. \A x, y \in Agents : x # c /\ x \in subs[y] => x \in subs'[y]
  BY DEF Retracted, Base, TypeOK
<1>5. \A x \in Agents : x # Root /\ cfg[x].stead # Nobody => cfg[x].sup \in Agents
  BY DEF Base, TreeInv
<1> QED BY <1>1, <1>2, <1>3, <1>4, <1>5 DEF SlotInv, Known, Registered, Materializing

\* Restoration is by levels: what is above the next agent and has a directory
\* is registered already.
LEMMA LowestFirst ==
    ASSUME Base, DInv, NEW a \in Agents, Restorable(a), NEW x \in cfg[a].above, disk[x] = "live"
    PROVE  x \in Agents /\ Registered(x)
<1>1. x \in Agents /\ a \in Agents
  BY DEF Base, TypeOK, Config
<1>2. SUFFICES ASSUME ~Registered(x) PROVE FALSE
  BY <1>1
<1>3. Cardinality(cfg[a].above) <= Cardinality(cfg[x].above)
  BY <1>1, <1>2 DEF Restorable, Pending
<1>4. cfg[x].above \subseteq cfg[a].above /\ x \notin cfg[x].above
  BY <1>1, Mapping DEF DInv, D!ChainOfCommand
<1>5. IsFiniteSet(cfg[a].above)
  BY DEF Base, TreeInv
<1>6. IsFiniteSet(cfg[a].above \ {x}) /\ Cardinality(cfg[a].above \ {x}) = Cardinality(cfg[a].above) - 1
  BY <1>5, FS_RemoveElement
<1>7. Cardinality(cfg[x].above) <= Cardinality(cfg[a].above \ {x})
  BY <1>4, <1>6, FS_Subset
<1>8. Cardinality(cfg[a].above) \in Nat /\ IsFiniteSet(cfg[x].above)
  BY <1>4, <1>5, FS_CardinalityType, FS_Subset
<1>9. Cardinality(cfg[x].above) \in Nat
  BY <1>8, FS_CardinalityType
<1> QED BY <1>3, <1>6, <1>7, <1>8, <1>9

\* So an agent whose turn it is has its superior registered.
LEMMA SuperiorFirst ==
    ASSUME Base, DInv, NEW a \in Agents, Restorable(a), a # Root
    PROVE  cfg[a].sup \in Agents /\ Registered(cfg[a].sup)
<1>1. cfg[a].stead # Nobody /\ disk[cfg[a].sup] = "live"
  BY DEF Restorable, Pending, Orphan, Base, TreeInv, Unborn
<1>2. cfg[a].sup \in cfg[a].above
  BY <1>1 DEF Base, TreeInv
<1> QED BY <1>1, <1>2, LowestFirst

\* A restored entry takes its slot, and nothing below it was registered before.
LEMMA LinkSlots ==
    ASSUME Base, DInv, SlotInv, booting, Unreadable = {}, NEW a \in Pending,
           NEW v \in {"live", "faulted"},
           UNCHANGED <<cfg, pc, disk, booting>>, subs' = Linked(a), entry' = [entry EXCEPT ![a] = v],
           a # Root /\ disk[cfg[a].sup] = "live" => Registered(cfg[a].sup)
    PROVE  SlotInv'
<1>1. a \in Agents /\ disk[a] = "live" /\ ~Registered(a)
  BY DEF Pending
<1>2. \A x \in Agents : pc[x] \notin Materializing
  BY DEF Base, HandlerInv, BootInv, Incarnations, Materializing
<1>3. \A x, y \in Agents : x \in subs[y] => x \in subs'[y]
  BY DEF Linked, Base, TypeOK
<1>4. entry'[a] = v /\ \A x \in Agents : x # a => entry'[x] = entry[x]
  BY <1>1 DEF Base, TypeOK
<1>8. Unreadable' = {} /\ \A x \in Agents : entry'[x] = "refused" => disk'[x] = "bare"
  BY <1>4 DEF SlotInv, Unreadable, Registered
<1> SUFFICES ASSUME NEW x \in Agents, x # Root, cfg[x].stead # Nobody, Known(x)'
             PROVE  /\ Registered(cfg[x].sup)' => x \in subs'[cfg[x].sup]
                    /\ disk[cfg[x].sup] = "live" => Registered(cfg[x].sup)'
  BY <1>2, <1>8 DEF SlotInv, Materializing
<1>5. cfg[x].sup \in Agents /\ cfg[x].sup # x
  <2>1. cfg[x].sup \in Agents /\ cfg[x].sup \in cfg[x].above
    BY DEF Base, TreeInv
  <2>2. x \notin cfg[x].above
    BY Mapping DEF DInv, D!ChainOfCommand
  <2> QED BY <2>1, <2>2
<1>6. CASE x = a
  BY <1>1, <1>4, <1>5, <1>6, WorkspacesAssumption DEF Linked, Registered, Base, TypeOK
<1>7. CASE x # a
  <2>1. Known(x)
    BY <1>4, <1>7 DEF Known
  <2>2. cfg[x].sup # a
    BY <1>1, <2>1 DEF SlotInv
  <2> QED BY <1>3, <1>4, <1>5, <2>1, <2>2 DEF SlotInv, Registered
<1> QED BY <1>6, <1>7

\* Each step keeps registered agents in the lists of their superiors.
LEMMA SlotNext == Base /\ DInv /\ SlotInv /\ [Next]_vars => SlotInv'
<1> SUFFICES ASSUME Base, DInv, SlotInv, [Next]_vars PROVE SlotInv'
  OBVIOUS
<1> USE WorkspacesAssumption, LifecycleAssumption
<1>1. CASE UNCHANGED vars
  BY <1>1 DEF vars, SlotInv, Unreadable, Known, Registered, Materializing
<1>2. ASSUME NEW c \in Agents, NEW s \in Agents, NEW k \in Kinds, NEW r \in Roles, SpawnReserve(c, s, k, r)
      PROVE  SlotInv'
  BY <1>2 DEF Base, TypeOK, Advance, SlotInv, Unreadable, Serving, Known, Registered, SpawnReserve
<1>3. ASSUME NEW c \in Agents, SpawnMakeDir(c)
      PROVE  SlotInv'
  BY <1>3
     DEF Base, TypeOK, HandlerInv, SpawnerInv, BootInv, Advance, Incarnations, SlotInv, Unreadable,
         Known, Registered, Materializing, SpawnMakeDir
<1>4. ASSUME NEW c \in Agents, NEW written \in BOOLEAN, SpawnWriteMeta(c, written)
      PROVE  SlotInv'
  BY <1>4
     DEF Base, TypeOK, HandlerInv, BootInv, Advance, Incarnations, SlotInv, Unreadable, Known, Registered,
         Materializing, SpawnWriteMeta
<1>5. ASSUME NEW c \in Agents, SpawnChain(c)
      PROVE  SlotInv'
  <2>1. CASE \A x \in cfg[c].above : Registered(x)
    BY <1>5, <2>1
       DEF SpawnChain, Advance, Base, TypeOK, Incarnations, SlotInv, Unreadable, Known, Registered, Materializing
  <2>2. CASE ~\A x \in cfg[c].above : Registered(x)
    BY <1>5, <2>2, RetractSlots DEF SpawnChain, Advance, Materializing
  <2> QED BY <2>1, <2>2
<1>6. ASSUME NEW c \in Agents, SpawnCarve(c)
      PROVE  SlotInv'
  <2>1. CASE TryAcquire(Forward(lock, c), c, chain[c])
    <3>1. UNCHANGED <<entry, subs, cfg, disk, booting>> /\ pc' = [pc EXCEPT ![c] = "carved"]
      BY <1>6, <2>1 DEF SpawnCarve, Advance
    <3> QED BY <1>6, <3>1
               DEF SpawnCarve, Base, TypeOK, Incarnations, SlotInv, Unreadable, Known, Registered, Materializing
  <2>2. CASE ~TryAcquire(Forward(lock, c), c, chain[c])
    BY <1>6, <2>2, RetractSlots DEF SpawnCarve, Advance, Materializing
  <2> QED BY <2>1, <2>2
<1>7. ASSUME NEW c \in Agents, SpawnTask(c)
      PROVE  SlotInv'
  BY <1>7 DEF Advance, SlotInv, Unreadable, Known, Registered, Materializing, SpawnTask
<1>8. ASSUME NEW c \in Agents, NEW to \in {"none"} \cup OnDisk, SpawnRegister(c, to)
      PROVE  SlotInv'
  <2>1. ~booting /\ \A y \in Agents : cfg[y].sup # c
    BY <1>8 DEF SpawnRegister, Base, HandlerInv, SpawnerInv, BootInv, Incarnations
  <2>2. CASE entry' = [entry EXCEPT ![c] = "live"] /\ subs' = subs /\ pc' = [pc EXCEPT ![c] = "done"]
    <3>1. UNCHANGED <<cfg, booting>> /\ pc[c] = "spawned"
      BY <1>8 DEF SpawnRegister
    <3> QED BY <2>1, <2>2, <3>1
               DEF Base, TypeOK, Incarnations, SlotInv, Unreadable, Known, Registered, Materializing
  <2>3. CASE subs' = Retracted(c) /\ pc' = [pc EXCEPT ![c] = "erased"] /\ entry' = entry
    BY <1>8, <2>3, RetractSlots DEF SpawnRegister, Materializing
  <2> QED BY <1>8, <2>2, <2>3 DEF SpawnRegister, Advance
<1>9. ASSUME NEW c \in Agents, SpawnFails(c)
      PROVE  SlotInv'
  BY <1>9, RetractSlots DEF SpawnFails, Advance, Materializing
<1>10. ASSUME NEW c \in Agents, NEW to \in {"none"} \cup OnDisk, SpawnErase(c, to)
      PROVE  SlotInv'
  BY <1>10
     DEF Base, TypeOK, HandlerInv, BootInv, Advance, Incarnations, SlotInv, Unreadable, Known, Registered,
         Materializing, SpawnErase
<1>11. ASSUME NEW c \in Agents, SpawnUnwind(c)
      PROVE  SlotInv'
  BY <1>11
     DEF Base, HandlerInv, BootInv, Advance, Incarnations, SlotInv, Unreadable, Known, Registered, Materializing,
         SpawnUnwind
<1>12. ASSUME NEW c \in Agents, SpawnRefused(c)
      PROVE  SlotInv'
  BY <1>12 DEF Advance, SlotInv, Unreadable, Known, Registered, Materializing, SpawnRefused
<1>13. ASSUME NEW d \in Deliveries, NEW a \in Agents, Probe(d, a)
      PROVE  SlotInv'
  BY <1>13 DEF Advance, SlotInv, Unreadable, Known, Registered, Probe
<1>14. ASSUME NEW d \in Deliveries, NEW ok \in BOOLEAN, Reserve(d, ok)
      PROVE  SlotInv'
  BY <1>14 DEF Advance, SlotInv, Unreadable, Known, Registered, Reserve
<1>15. ASSUME NEW d \in Deliveries, NEW ok \in BOOLEAN, ReactSpawn(d, ok)
      PROVE  SlotInv'
  BY <1>15 DEF Advance, SlotInv, Unreadable, Known, Registered, ReactSpawn
<1>16. ASSUME NEW d \in Deliveries, ReserveSkipped(d)
      PROVE  SlotInv'
  BY <1>16 DEF Advance, SlotInv, Unreadable, Known, Registered, ReserveSkipped
<1>17. ASSUME NEW d \in Deliveries, ReactChain(d)
      PROVE  SlotInv'
  BY <1>17 DEF Advance, SlotInv, Unreadable, Known, Registered, ReactChain
<1>18. ASSUME NEW d \in Deliveries, ReactAcquire(d)
      PROVE  SlotInv'
  BY <1>18
     DEF Base, TypeOK, Advance, Incarnations, SlotInv, Unreadable, Known, Registered, Materializing, ReactAcquire
<1>19. ASSUME NEW d \in Deliveries, ReactClose(d)
      PROVE  SlotInv'
  BY <1>19 DEF Advance, SlotInv, Unreadable, Known, Registered, Materializing, ReactClose
<1>20. ASSUME NEW d \in Deliveries, ReactUnlock(d)
      PROVE  SlotInv'
  BY <1>20 DEF Advance, SlotInv, Unreadable, Known, Registered, ReactUnlock
<1>21. ASSUME NEW d \in Deliveries, NEW to \in {"none"} \cup OnDisk, ReactInstall(d, to)
      PROVE  SlotInv'
  BY <1>21
     DEF Base, HandlerInv, BootInv, Advance, Incarnations, SlotInv, Unreadable, Known, Registered, ReactInstall
<1>22. ASSUME NEW a \in Agents, RemoveUnregister(a)
      PROVE  SlotInv'
  BY <1>22
     DEF Base, TypeOK, HandlerInv, SpawnerInv, SlotInv, Unreadable, Serving, Known, Registered, Materializing,
         RemoveUnregister
<1>23. ASSUME NEW a \in Agents, TearRelease(a)
      PROVE  SlotInv'
  BY <1>23 DEF SlotInv, Unreadable, Known, Registered, TearRelease
<1>24. ASSUME NEW a \in Agents, NEW to \in {"archived"} \cup OnDisk, TearArchive(a, to)
      PROVE  SlotInv'
  BY <1>24
     DEF Base, HandlerInv, BootInv, SlotInv, Unreadable, Known, Registered, TearArchive
<1>25. ASSUME NEW i \in Incarnations, Watch(i)
      PROVE  SlotInv'
  <2>1. \A x \in Agents :
           /\ entry'[x] = "none" <=> entry[x] = "none"
           /\ entry'[x] = "refused" <=> entry[x] = "refused"
           /\ Known(x)' <=> Known(x)
    BY <1>25 DEF Watch, Base, TypeOK, Known
  <2>2. UNCHANGED <<subs, cfg, disk, pc, booting>> /\ Unreadable' = Unreadable
    BY <1>25, <2>1 DEF Watch, Unreadable, Registered
  <2> QED BY <2>1, <2>2 DEF SlotInv, Registered, Base, TreeInv
<1>26. ASSUME NEW i \in Incarnations, NEW how \in {"panicked", "ended"}, TaskDies(i, how)
      PROVE  SlotInv'
  BY <1>26 DEF SlotInv, Unreadable, Known, Registered, TaskDies
<1>27. ASSUME ProcessEnds
      PROVE  SlotInv'
  BY <1>27 DEF Incarnations, SlotInv, Unreadable, Known, Registered, Materializing, ProcessEnds
<1>28. ASSUME BootDone
      PROVE  SlotInv'
  BY <1>28 DEF SlotInv, Unreadable, Known, Registered, BootDone
<1>29. ASSUME NEW a \in Agents, RestoreRefused(a)
      PROVE  SlotInv'
  <2>1. booting /\ a \in Unreadable /\ UNCHANGED <<subs, cfg, disk, pc, booting>>
        /\ entry' = [entry EXCEPT ![a] = "refused"]
    BY <1>29 DEF RestoreRefused
  <2>2. /\ \A x \in Agents : ~Known(x) /\ ~Known(x)' /\ pc[x] \notin Materializing
        /\ disk[a] = "bare"
    BY <2>1 DEF SlotInv, Known, Unreadable, Base, TypeOK, HandlerInv, BootInv, Incarnations, Materializing
  <2>3. \A x \in Agents : entry'[x] = "refused" => disk'[x] = "bare"
    BY <2>1, <2>2 DEF SlotInv, Base, TypeOK
  <2> QED BY <2>1, <2>2, <2>3 DEF SlotInv
<1>30. ASSUME NEW a \in Agents, RestoreOrphan(a)
      PROVE  SlotInv'
  <2>1. a \in Pending /\ booting /\ Unreadable = {} /\ (a # Root => disk[cfg[a].sup] # "live")
    BY <1>30 DEF RestoreOrphan, Orphan
  <2> QED BY <1>30, <2>1, LinkSlots DEF RestoreOrphan, RestoreFaulted
<1>31. ASSUME NEW a \in Agents, RestoreOne(a)
      PROVE  SlotInv'
  <2>1. Restorable(a) /\ a \in Pending /\ booting /\ Unreadable = {}
    BY <1>31 DEF RestoreOne, Restorable
  <2>2. a # Root => Registered(cfg[a].sup)
    BY <2>1, SuperiorFirst
  <2> QED BY <1>31, <2>1, <2>2, LinkSlots DEF RestoreOne
<1>32. ASSUME NEW a \in Agents, NEW est \in BOOLEAN, RestoreFails(a, est)
      PROVE  SlotInv'
  <2>1. Restorable(a) /\ a \in Pending /\ booting /\ Unreadable = {}
    BY <1>32 DEF RestoreFails, Restorable
  <2>2. a # Root => Registered(cfg[a].sup)
    BY <2>1, SuperiorFirst
  <2> QED BY <1>32, <2>1, <2>2, LinkSlots DEF RestoreFails, RestoreFaulted
<1> QED BY <1>1, <1>2, <1>3, <1>4, <1>5, <1>6, <1>7, <1>8, <1>9, <1>10, <1>11, <1>12, <1>13,
           <1>14, <1>15, <1>16, <1>17, <1>18, <1>19, <1>20, <1>21, <1>22, <1>23, <1>24, <1>25,
           <1>26, <1>27, <1>28, <1>29, <1>30, <1>31, <1>32
     DEF Next, SpawnStep, DeliverStep, RemoveStep, RestartStep, Restart, BootAborts

\* Each step keeps chains unbroken: a superior is not removed over its subagents, and a
\* restart restores superiors first.
LEMMA ChainNext == Base /\ DInv /\ SlotInv /\ ChainInv /\ [Next]_vars => ChainInv'
<1> SUFFICES ASSUME Base, DInv, SlotInv, ChainInv, [Next]_vars PROVE ChainInv'
  OBVIOUS
<1> USE WorkspacesAssumption, LifecycleAssumption
<1>1. CASE UNCHANGED vars
  BY <1>1 DEF vars, ChainInv, Known, Materializing
<1>2. ASSUME NEW c \in Agents, NEW s \in Agents, NEW k \in Kinds, NEW r \in Roles, SpawnReserve(c, s, k, r)
      PROVE  ChainInv'
  BY <1>2 DEF Base, TypeOK, Advance, ChainInv, Known, SpawnReserve, ValidRequest
<1>3. ASSUME NEW c \in Agents, SpawnMakeDir(c)
      PROVE  ChainInv'
  BY <1>3 DEF Advance, ChainInv, Known, Materializing, SpawnMakeDir
<1>4. ASSUME NEW c \in Agents, NEW written \in BOOLEAN, SpawnWriteMeta(c, written)
      PROVE  ChainInv'
  BY <1>4 DEF Base, TypeOK, Advance, Incarnations, ChainInv, Known, Materializing, SpawnWriteMeta
<1>5. ASSUME NEW c \in Agents, SpawnChain(c)
      PROVE  ChainInv'
  BY <1>5
     DEF Base, TypeOK, Advance, Incarnations, ChainInv, Known, Materializing,
         SpawnChain
<1>6. ASSUME NEW c \in Agents, SpawnCarve(c)
      PROVE  ChainInv'
  BY <1>6
     DEF Base, TypeOK, Advance, Incarnations, ChainInv, Known, Materializing,
         SpawnCarve
<1>7. ASSUME NEW c \in Agents, SpawnTask(c)
      PROVE  ChainInv'
  BY <1>7 DEF Advance, ChainInv, Known, Materializing, SpawnTask
<1>8. ASSUME NEW c \in Agents, NEW to \in {"none"} \cup OnDisk, SpawnRegister(c, to)
      PROVE  ChainInv'
  <2>1. \A x \in Agents : Known(x) => Known(x)'
    BY <1>8 DEF SpawnRegister, Known, Base, TypeOK
  <2>2. \A x \in Agents : x # c => pc'[x] = pc[x] /\ entry'[x] = entry[x]
    BY <1>8 DEF SpawnRegister, Advance, Base, TypeOK, Incarnations
  <2>3. pc[c] = "spawned" /\ UNCHANGED cfg
    BY <1>8 DEF SpawnRegister
  <2> QED BY <2>1, <2>2, <2>3 DEF ChainInv, Materializing, Base, TypeOK, Config
<1>9. ASSUME NEW c \in Agents, SpawnFails(c)
      PROVE  ChainInv'
  BY <1>9 DEF Advance, ChainInv, Known, Materializing, SpawnFails
<1>10. ASSUME NEW c \in Agents, NEW to \in {"none"} \cup OnDisk, SpawnErase(c, to)
      PROVE  ChainInv'
  BY <1>10 DEF Base, TypeOK, Advance, Incarnations, ChainInv, Known, Materializing, SpawnErase
<1>11. ASSUME NEW c \in Agents, SpawnUnwind(c)
      PROVE  ChainInv'
  BY <1>11 DEF Advance, ChainInv, Known, Materializing, SpawnUnwind
<1>12. ASSUME NEW c \in Agents, SpawnRefused(c)
      PROVE  ChainInv'
  BY <1>12 DEF Advance, ChainInv, Known, Materializing, SpawnRefused
<1>13. ASSUME NEW d \in Deliveries, NEW a \in Agents, Probe(d, a)
      PROVE  ChainInv'
  BY <1>13 DEF Advance, ChainInv, Known, Probe
<1>14. ASSUME NEW d \in Deliveries, NEW ok \in BOOLEAN, Reserve(d, ok)
      PROVE  ChainInv'
  BY <1>14 DEF Advance, ChainInv, Known, Reserve
<1>15. ASSUME NEW d \in Deliveries, NEW ok \in BOOLEAN, ReactSpawn(d, ok)
      PROVE  ChainInv'
  BY <1>15 DEF Advance, ChainInv, Known, ReactSpawn
<1>16. ASSUME NEW d \in Deliveries, ReserveSkipped(d)
      PROVE  ChainInv'
  BY <1>16 DEF Advance, ChainInv, Known, ReserveSkipped
<1>17. ASSUME NEW d \in Deliveries, ReactChain(d)
      PROVE  ChainInv'
  BY <1>17 DEF Advance, ChainInv, Known, ReactChain
<1>18. ASSUME NEW d \in Deliveries, ReactAcquire(d)
      PROVE  ChainInv'
  BY <1>18
     DEF Base, TypeOK, Advance, Incarnations, ChainInv, Known, Materializing,
         ReactAcquire
<1>19. ASSUME NEW d \in Deliveries, ReactClose(d)
      PROVE  ChainInv'
  BY <1>19 DEF Advance, ChainInv, Known, ReactClose
<1>20. ASSUME NEW d \in Deliveries, ReactUnlock(d)
      PROVE  ChainInv'
  BY <1>20 DEF Advance, ChainInv, Known, ReactUnlock
<1>21. ASSUME NEW d \in Deliveries, NEW to \in {"none"} \cup OnDisk, ReactInstall(d, to)
      PROVE  ChainInv'
  BY <1>21 DEF Advance, ChainInv, Known, ReactInstall
<1>22. ASSUME NEW a \in Agents, RemoveUnregister(a)
      PROVE  ChainInv'
  <2>1. Registered(a) /\ subs[a] = {} /\ UNCHANGED <<cfg, pc>>
    BY <1>22 DEF RemoveUnregister
  <2>2. \A x \in Agents : x # a => entry'[x] = entry[x]
    BY <1>22 DEF RemoveUnregister, Base, TypeOK
  <2>3. entry'[a] = "none" /\ pc[a] \notin Materializing
    BY <1>22, <2>1
       DEF RemoveUnregister, Base, TypeOK, HandlerInv, SpawnerInv, Registered, Materializing
  <2>4. ASSUME NEW b \in Agents, entry[b] = "live" \/ pc[b] \in Materializing
        PROVE  a \notin cfg[b].above
    <3> SUFFICES ASSUME a \in cfg[b].above PROVE FALSE
      OBVIOUS
    <3>1. PICK z \in cfg[b].above \cup {b} : cfg[z].sup = a
      BY DEF Base, TreeInv
    <3>2. z \in Agents /\ (Known(z) \/ pc[z] \in Materializing)
      BY <2>4, <3>1 DEF ChainInv, Base, TypeOK, Config, Known
    <3>3. z # Root /\ cfg[z].stead # Nobody
      BY <3>1, <3>2, WorkspacesAssumption DEF Base, TreeInv, Unborn, Known
    <3> QED BY <2>1, <3>1, <3>2, <3>3 DEF SlotInv
  <2> QED BY <2>1, <2>2, <2>3, <2>4
             DEF ChainInv, Known, Materializing, Base, TypeOK, Config
<1>23. ASSUME NEW a \in Agents, TearRelease(a)
      PROVE  ChainInv'
  BY <1>23 DEF ChainInv, Known, TearRelease
<1>24. ASSUME NEW a \in Agents, NEW to \in {"archived"} \cup OnDisk, TearArchive(a, to)
      PROVE  ChainInv'
  BY <1>24 DEF ChainInv, Known, TearArchive
<1>25. ASSUME NEW i \in Incarnations, Watch(i)
      PROVE  ChainInv'
  <2>1. \A x \in Agents : Known(x) => Known(x)'
    BY <1>25 DEF Watch, Known, Base, TypeOK
  <2>2. \A x \in Agents : entry'[x] = "live" => entry[x] = "live"
    BY <1>25 DEF Watch, Base, TypeOK
  <2>3. UNCHANGED <<cfg, pc>>
    BY <1>25 DEF Watch
  <2> QED BY <2>1, <2>2, <2>3 DEF ChainInv, Materializing, Base, TypeOK, Config
<1>26. ASSUME NEW i \in Incarnations, NEW how \in {"panicked", "ended"}, TaskDies(i, how)
      PROVE  ChainInv'
  BY <1>26 DEF ChainInv, Known, TaskDies
<1>27. ASSUME ProcessEnds
      PROVE  ChainInv'
  BY <1>27 DEF Incarnations, ChainInv, Materializing, ProcessEnds
<1>28. ASSUME BootDone
      PROVE  ChainInv'
  BY <1>28 DEF ChainInv, Known, BootDone
<1>29. ASSUME NEW a \in Agents, RestoreRefused(a)
      PROVE  ChainInv'
  <2>1. /\ \A x \in Agents : entry[x] # "live" /\ pc[x] \notin Materializing
        /\ entry' = [entry EXCEPT ![a] = "refused"] /\ UNCHANGED pc
    BY <1>29 DEF RestoreRefused, SlotInv, Known, Base, HandlerInv, BootInv, Incarnations, Materializing
  <2> QED BY <2>1 DEF ChainInv, Base, TypeOK, Materializing
<1>30. ASSUME NEW a \in Agents, RestoreOrphan(a)
      PROVE  ChainInv'
  BY <1>30 DEF ChainInv, Known, RestoreOrphan, RestoreFaulted
<1>31. ASSUME NEW a \in Agents, RestoreOne(a)
      PROVE  ChainInv'
  <2>1. Restorable(a) /\ Establishes(a) /\ UNCHANGED <<cfg, pc>> /\ entry' = [entry EXCEPT ![a] = "live"]
    BY <1>31 DEF RestoreOne
  <2>2. \A x \in cfg[a].above : x \in Agents /\ Known(x)
    <3>1. \A x \in cfg[a].above : x \in Agents /\ Registered(x) /\ disk[x] = "live"
      BY <2>1, LowestFirst DEF Establishes
    <3> QED BY <2>1, <3>1 DEF SlotInv, Restorable, Known, Registered, Base, TypeOK
  <2>3. entry'[a] = "live" /\ \A x \in Agents : x # a => entry'[x] = entry[x]
    BY <2>1 DEF Base, TypeOK
  <2> QED BY <2>1, <2>2, <2>3 DEF ChainInv, Known, Materializing, Base, TypeOK, Config
<1>32. ASSUME NEW a \in Agents, NEW est \in BOOLEAN, RestoreFails(a, est)
      PROVE  ChainInv'
  BY <1>32 DEF ChainInv, Known, RestoreFails, RestoreFaulted
<1> QED BY <1>1, <1>2, <1>3, <1>4, <1>5, <1>6, <1>7, <1>8, <1>9, <1>10, <1>11, <1>12, <1>13,
           <1>14, <1>15, <1>16, <1>17, <1>18, <1>19, <1>20, <1>21, <1>22, <1>23, <1>24, <1>25,
           <1>26, <1>27, <1>28, <1>29, <1>30, <1>31, <1>32
     DEF Next, SpawnStep, DeliverStep, RemoveStep, RestartStep, Restart, BootAborts

\* Slots and chains hold throughout.
LEMMA TreeOfEntries == Spec => [](SlotInv /\ ChainInv)
<1>1. Init => SlotInv /\ ChainInv
  BY DEF Init, SlotInv, ChainInv, Known, Materializing, Incarnations
<1>2. Base /\ DInv /\ SlotInv /\ ChainInv /\ [Next]_vars => (SlotInv /\ ChainInv)'
  BY SlotNext, ChainNext
<1> QED BY <1>1, <1>2, CoreInv, PTL DEF Spec

\* While an agent is live or about to be registered, all its superiors are registered, at
\* every point of every handler, failure and restart: the walk that a lock request relies on
\* (the ancestor chain) meets no gap.
THEOREM ChainCorrect == Spec => []ChainUnbroken
<1>1. ChainInv => ChainUnbroken
  BY DEF ChainInv, ChainUnbroken, Known, Registered
<1> QED BY <1>1, TreeOfEntries, PTL

\* While the tagma serves, a directory in the live area has an owner: a registered agent, or
\* a creation or a removal that will erase or archive it.  The others are those on which a
\* directory operation of this life has failed (create_agent_dir's write of meta.json,
\* remove_agent_dir, archive_agent), and the next boot registers whatever they left.
THEOREM OrphanDirCorrect == Spec => []NoOrphanDir
<1>1. Init => Erased /\ NoOrphanDir
  BY DEF Init, Erased, NoOrphanDir, Serving, Incarnations
<1>2. Base /\ Erased /\ NoOrphanDir /\ [Next]_vars => Erased' /\ NoOrphanDir'
  BY ErasedNext, OrphanDirNext
<1> QED BY <1>1, <1>2, CoreInv, PTL DEF Spec

\* Overlapping workspaces are held only along the chain of command: two agents outside one
\* chain never hold overlapping directories, in the real lock table.
THEOREM NestingCorrect == Spec => []D!NestedWithinDelegation
<1>1. DInv => D!NestedWithinDelegation
  BY DEF DInv
<1> QED BY <1>1, CoreInv, PTL

\* An agent holds no directory but its workspace.
THEOREM HomeCorrect == Spec => []D!OwnsOnlyHome
<1>1. DInv => D!OwnsOnlyHome
  BY DEF DInv
<1> QED BY <1>1, CoreInv, PTL

\* Superiors of superiors are superiors, nobody is its own superior, and an heir shares the
\* workspace it stands in for.
THEOREM CommandCorrect == Spec => []D!ChainOfCommand
<1>1. DInv => D!ChainOfCommand
  BY DEF DInv
<1> QED BY <1>1, CoreInv, PTL

(***************************************************************************)
(* Locks and tasks.                                                        *)
(***************************************************************************)

\* No guest is in the lock table.
NormalOnly(l) ==
    /\ l \in [Dirs -> Agents \cup {Nobody}]
    /\ \A d \in Dirs : l[d] # Nobody => cfg[l[d]].normal

\* Every operation on the table keeps it that way.
LEMMA LockGuests ==
    ASSUME Base, NEW a \in Agents, NEW l, NormalOnly(l)
    PROVE  /\ NormalOnly(Forward(l, a)) /\ NormalOnly(Reverse(l, a))
           /\ NormalOnly(Acquired(l, a)) /\ NormalOnly(ReleaseAll(l, a))
<1>1. cfg[a].ws \in Dirs /\ cfg[a].sup \in Agents \cup {Nobody}
  BY DEF Base, TypeOK, Config
<1>2. cfg[a].heir => cfg[a].normal /\ cfg[cfg[a].sup].normal
  BY DEF Base, TreeInv
<1>3. NormalOnly(Forward(l, a))
  BY <1>1, <1>2 DEF Forward, Transfer, NormalOnly
<1>4. NormalOnly(Reverse(l, a))
  BY <1>1, <1>2 DEF Reverse, Transfer, NormalOnly
<1>5. NormalOnly(Acquired(l, a))
  BY <1>1 DEF Acquired, NormalOnly
<1>6. NormalOnly(ReleaseAll(l, a))
  BY DEF ReleaseAll, NormalOnly
<1> QED BY <1>3, <1>4, <1>5, <1>6

\* What the table says of guests depends on the configurations only.
LEMMA GuestFrame == ASSUME UNCHANGED cfg, NormalOnly(lock') PROVE NormalOnly(lock)'
BY DEF NormalOnly

\* No step gives a guest a lock.
LEMMA LockNext == Base /\ DInv /\ NormalOnly(lock) /\ [Next]_vars => NormalOnly(lock)'
<1> SUFFICES ASSUME Base, DInv, NormalOnly(lock), [Next]_vars PROVE NormalOnly(lock)'
  OBVIOUS
<1> USE WorkspacesAssumption, LifecycleAssumption
<1>1. CASE UNCHANGED vars
  BY <1>1, GuestFrame DEF vars
<1>2. ASSUME NEW c \in Agents, NEW s \in Agents, NEW k \in Kinds, NEW r \in Roles, SpawnReserve(c, s, k, r)
      PROVE  NormalOnly(lock)'
  <2>1. cfg[c].stead = Nobody /\ lock' = lock /\ \A x \in Agents : x # c => cfg'[x] = cfg[x]
    BY <1>2 DEF SpawnReserve, Base, TypeOK
  <2>2. \A d \in Dirs : lock[d] # c
    BY <2>1, Mapping DEF DInv, D!ChainOfCommand
  <2> QED BY <2>1, <2>2 DEF NormalOnly
<1>3. ASSUME NEW c \in Agents, SpawnMakeDir(c)
      PROVE  NormalOnly(lock)'
  BY <1>3, GuestFrame DEF SpawnMakeDir
<1>4. ASSUME NEW c \in Agents, NEW written \in BOOLEAN, SpawnWriteMeta(c, written)
      PROVE  NormalOnly(lock)'
  BY <1>4, GuestFrame DEF SpawnWriteMeta
<1>5. ASSUME NEW c \in Agents, SpawnChain(c)
      PROVE  NormalOnly(lock)'
  BY <1>5, GuestFrame DEF SpawnChain
<1>6. ASSUME NEW c \in Agents, SpawnCarve(c)
      PROVE  NormalOnly(lock)'
  BY <1>6, LockGuests, GuestFrame DEF SpawnCarve
<1>7. ASSUME NEW c \in Agents, SpawnTask(c)
      PROVE  NormalOnly(lock)'
  BY <1>7, GuestFrame DEF SpawnTask
<1>8. ASSUME NEW c \in Agents, NEW to \in {"none"} \cup OnDisk, SpawnRegister(c, to)
      PROVE  NormalOnly(lock)'
  BY <1>8, GuestFrame DEF SpawnRegister
<1>9. ASSUME NEW c \in Agents, SpawnFails(c)
      PROVE  NormalOnly(lock)'
  BY <1>9, GuestFrame DEF SpawnFails
<1>10. ASSUME NEW c \in Agents, NEW to \in {"none"} \cup OnDisk, SpawnErase(c, to)
      PROVE  NormalOnly(lock)'
  BY <1>10, GuestFrame DEF SpawnErase
<1>11. ASSUME NEW c \in Agents, SpawnUnwind(c)
      PROVE  NormalOnly(lock)'
  BY <1>11, LockGuests, GuestFrame DEF SpawnUnwind
<1>12. ASSUME NEW c \in Agents, SpawnRefused(c)
      PROVE  NormalOnly(lock)'
  BY <1>12, GuestFrame DEF SpawnRefused
<1>13. ASSUME NEW d \in Deliveries, NEW a \in Agents, Probe(d, a)
      PROVE  NormalOnly(lock)'
  BY <1>13, GuestFrame DEF Probe
<1>14. ASSUME NEW d \in Deliveries, NEW ok \in BOOLEAN, Reserve(d, ok)
      PROVE  NormalOnly(lock)'
  <2>1. target[d] \in Agents
    BY <1>14 DEF Reserve, Base, HandlerInv, DelivererInv
  <2> QED BY <1>14, <2>1, LockGuests, GuestFrame DEF Reserve
<1>15. ASSUME NEW d \in Deliveries, NEW ok \in BOOLEAN, ReactSpawn(d, ok)
      PROVE  NormalOnly(lock)'
  BY <1>15, GuestFrame DEF ReactSpawn
<1>16. ASSUME NEW d \in Deliveries, ReserveSkipped(d)
      PROVE  NormalOnly(lock)'
  BY <1>16, GuestFrame DEF ReserveSkipped
<1>17. ASSUME NEW d \in Deliveries, ReactChain(d)
      PROVE  NormalOnly(lock)'
  BY <1>17, GuestFrame DEF ReactChain
<1>18. ASSUME NEW d \in Deliveries, ReactAcquire(d)
      PROVE  NormalOnly(lock)'
  <2>1. target[d] \in Agents
    BY <1>18 DEF ReactAcquire, Base, HandlerInv, DelivererInv
  <2> QED BY <1>18, <2>1, LockGuests, GuestFrame DEF ReactAcquire
<1>19. ASSUME NEW d \in Deliveries, ReactClose(d)
      PROVE  NormalOnly(lock)'
  BY <1>19, GuestFrame DEF ReactClose
<1>20. ASSUME NEW d \in Deliveries, ReactUnlock(d)
      PROVE  NormalOnly(lock)'
  <2>1. target[d] \in Agents
    BY <1>20 DEF ReactUnlock, Base, HandlerInv, DelivererInv
  <2> QED BY <1>20, <2>1, LockGuests, GuestFrame DEF ReactUnlock
<1>21. ASSUME NEW d \in Deliveries, NEW to \in {"none"} \cup OnDisk, ReactInstall(d, to)
      PROVE  NormalOnly(lock)'
  <2>1. target[d] \in Agents
    BY <1>21 DEF ReactInstall, Base, HandlerInv, DelivererInv
  <2> QED BY <1>21, <2>1, LockGuests, GuestFrame DEF ReactInstall
<1>22. ASSUME NEW a \in Agents, RemoveUnregister(a)
      PROVE  NormalOnly(lock)'
  BY <1>22, GuestFrame DEF RemoveUnregister
<1>23. ASSUME NEW a \in Agents, TearRelease(a)
      PROVE  NormalOnly(lock)'
  BY <1>23, LockGuests, GuestFrame DEF TearRelease
<1>24. ASSUME NEW a \in Agents, NEW to \in {"archived"} \cup OnDisk, TearArchive(a, to)
      PROVE  NormalOnly(lock)'
  BY <1>24, GuestFrame DEF TearArchive
<1>25. ASSUME NEW i \in Incarnations, Watch(i)
      PROVE  NormalOnly(lock)'
  <2>1. AgentOf(i) \in Agents
    BY <1>25 DEF Watch, AgentOf, Base, HandlerInv, DelivererInv, Incarnations
  <2> QED BY <1>25, <2>1, LockGuests, GuestFrame DEF Watch
<1>26. ASSUME NEW i \in Incarnations, NEW how \in {"panicked", "ended"}, TaskDies(i, how)
      PROVE  NormalOnly(lock)'
  BY <1>26, GuestFrame DEF TaskDies
<1>27. ASSUME ProcessEnds
      PROVE  NormalOnly(lock)'
  <2>1. UNCHANGED cfg /\ lock' = [d \in Dirs |-> Nobody]
    BY <1>27 DEF ProcessEnds
  <2> QED BY <2>1 DEF NormalOnly
<1>28. ASSUME BootDone
      PROVE  NormalOnly(lock)'
  BY <1>28, GuestFrame DEF BootDone
<1>29. ASSUME NEW a \in Agents, RestoreRefused(a)
      PROVE  NormalOnly(lock)'
  BY <1>29, GuestFrame DEF RestoreRefused
<1>30. ASSUME NEW a \in Agents, RestoreOrphan(a)
      PROVE  NormalOnly(lock)'
  BY <1>30, GuestFrame DEF RestoreOrphan, RestoreFaulted
<1>31. ASSUME NEW a \in Agents, RestoreOne(a)
      PROVE  NormalOnly(lock)'
  BY <1>31, LockGuests, GuestFrame DEF RestoreOne
<1>32. ASSUME NEW a \in Agents, NEW est \in BOOLEAN, RestoreFails(a, est)
      PROVE  NormalOnly(lock)'
  BY <1>32, LockGuests, GuestFrame DEF RestoreFails, RestoreFaulted
<1> QED BY <1>1, <1>2, <1>3, <1>4, <1>5, <1>6, <1>7, <1>8, <1>9, <1>10, <1>11, <1>12, <1>13,
           <1>14, <1>15, <1>16, <1>17, <1>18, <1>19, <1>20, <1>21, <1>22, <1>23, <1>24, <1>25,
           <1>26, <1>27, <1>28, <1>29, <1>30, <1>31, <1>32
     DEF Next, SpawnStep, DeliverStep, RemoveStep, RestartStep, Restart, BootAborts

\* What accounts for the locks an agent holds.
Accounted(a) == entry[a] = "live" \/ InFlight(a)

\* The holders that keep their locks in a step must stay accounted for, and
\* the new ones must be.
LEMMA TrackFrame ==
    ASSUME Base', LocksTrackTasksIfCarved, NoHeir' => NoHeir,
           NoHeir => \A d \in Dirs, a \in Agents :
                        lock'[d] = a /\ (lock[d] = a => Accounted(a)) => Accounted(a)'
    PROVE  LocksTrackTasksIfCarved'
<1>1. SUFFICES ASSUME NoHeir', NEW d \in Dirs, NEW a \in Agents, lock'[d] = a
               PROVE  Accounted(a)'
  <2>1. \A d \in Dirs : lock'[d] # Nobody => lock'[d] \in Agents
    BY DEF Base, TypeOK
  <2> QED BY <2>1 DEF LocksTrackTasksIfCarved, LocksTrackTasks, Accounted, InFlight
<1>2. lock[d] = a => Accounted(a)
  BY <1>1, WorkspacesAssumption
     DEF LocksTrackTasksIfCarved, LocksTrackTasks, Accounted, InFlight
<1> QED BY <1>1, <1>2

\* Each step leaves the locks to live agents and to handlers under way.
LEMMA TrackNext == Base /\ Base' /\ NormalOnly(lock) /\ LocksTrackTasksIfCarved /\ [Next]_vars
    => LocksTrackTasksIfCarved'
<1> SUFFICES ASSUME Base, Base', NormalOnly(lock), LocksTrackTasksIfCarved, [Next]_vars PROVE LocksTrackTasksIfCarved'
  OBVIOUS
<1> USE WorkspacesAssumption, LifecycleAssumption
<1>1. CASE UNCHANGED vars
  BY <1>1 DEF vars, LocksTrackTasksIfCarved, LocksTrackTasks, NoHeir, InFlight
<1>2. ASSUME NEW c \in Agents, NEW s \in Agents, NEW k \in Kinds, NEW r \in Roles, SpawnReserve(c, s, k, r)
      PROVE  LocksTrackTasksIfCarved'
  <2>1. Unborn(c) /\ lock' = lock /\ entry' = entry /\ UNCHANGED <<tear, target>>
    BY <1>2 DEF SpawnReserve, Base, TreeInv
  <2>2. \A x \in Incarnations : x # c => pc'[x] = pc[x]
    BY <1>2 DEF SpawnReserve, Advance, Base, TypeOK
  <2>3. pc[c] = "idle" /\ \A d \in Deliveries : d # c
    BY <1>2 DEF SpawnReserve
  <2>4. \A x \in Agents : InFlight(x) => InFlight(x)'
    BY <2>1, <2>2, <2>3 DEF InFlight, Incarnations
  <2>5. \A x \in Agents : x # c => cfg'[x] = cfg[x]
    BY <1>2 DEF SpawnReserve, Base, TypeOK
  <2>6. NoHeir' => NoHeir
    BY <2>1, <2>5 DEF NoHeir, Unborn
  <2>7. \A d \in Dirs : lock[d] \in Agents \cup {Nobody}
    BY DEF Base, TypeOK
  <2> QED BY <2>1, <2>4, <2>6, <2>7, TrackFrame DEF Accounted
<1>3. ASSUME NEW c \in Agents, SpawnMakeDir(c)
      PROVE  LocksTrackTasksIfCarved'
  <2>1. UNCHANGED <<lock, entry, cfg, tear, target>>
    BY <1>3 DEF SpawnMakeDir
  <2>2. pc[c] = "reserved" /\ \A x \in Incarnations : x # c => pc'[x] = pc[x]
    BY <1>3 DEF SpawnMakeDir, Advance, Base, TypeOK
  <2>3. \A x \in Agents : InFlight(x) => InFlight(x)'
    BY <2>1, <2>2, LifecycleAssumption DEF InFlight, Incarnations
  <2> QED BY <2>1, <2>3, TrackFrame DEF Accounted, NoHeir
<1>4. ASSUME NEW c \in Agents, NEW written \in BOOLEAN, SpawnWriteMeta(c, written)
      PROVE  LocksTrackTasksIfCarved'
  <2>1. UNCHANGED <<lock, entry, cfg, tear, target>>
    BY <1>4 DEF SpawnWriteMeta
  <2>2. pc[c] = "dirBare" /\ \A x \in Incarnations : x # c => pc'[x] = pc[x]
    BY <1>4 DEF SpawnWriteMeta, Advance, Base, TypeOK
  <2>3. \A x \in Agents : InFlight(x) => InFlight(x)'
    BY <2>1, <2>2, LifecycleAssumption DEF InFlight, Incarnations
  <2> QED BY <2>1, <2>3, TrackFrame DEF Accounted, NoHeir
<1>5. ASSUME NEW c \in Agents, SpawnChain(c)
      PROVE  LocksTrackTasksIfCarved'
  <2>1. UNCHANGED <<lock, entry, cfg, tear, target>>
    BY <1>5 DEF SpawnChain
  <2>2. pc[c] = "dirMade" /\ \A x \in Incarnations : x # c => pc'[x] = pc[x]
    BY <1>5 DEF SpawnChain, Advance, Base, TypeOK
  <2>3. \A x \in Agents : InFlight(x) => InFlight(x)'
    BY <2>1, <2>2, LifecycleAssumption DEF InFlight, Incarnations
  <2> QED BY <2>1, <2>3, TrackFrame DEF Accounted, NoHeir
<1>6. ASSUME NEW c \in Agents, SpawnCarve(c)
      PROVE  LocksTrackTasksIfCarved'
  <2>1. /\ UNCHANGED <<entry, cfg, tear, target>> /\ pc[c] = "chained"
        /\ pc'[c] \in {"carved", "retracted"} /\ \A x \in Incarnations : x # c => pc'[x] = pc[x]
    BY <1>6 DEF SpawnCarve, Advance, Base, TypeOK, Incarnations
  <2>2. InFlight(c)' /\ \A x \in Agents : InFlight(x) => InFlight(x)'
    BY <2>1 DEF InFlight, Incarnations
  <2>3. NoHeir => lock' = lock \/ lock' = Acquired(lock, c)
    BY <1>6 DEF SpawnCarve, Forward, Reverse, NoHeir
  <2>4. NoHeir => \A d \in Dirs : lock'[d] \in {lock[d], c}
    BY <2>3 DEF Acquired, Base, TypeOK
  <2>5. NoHeir' => NoHeir
    BY <2>1 DEF NoHeir
  <2> QED BY <2>1, <2>2, <2>4, <2>5, TrackFrame DEF Accounted
<1>7. ASSUME NEW c \in Agents, SpawnTask(c)
      PROVE  LocksTrackTasksIfCarved'
  BY <1>7 DEF Advance, LocksTrackTasksIfCarved, LocksTrackTasks, NoHeir, InFlight, SpawnTask
<1>8. ASSUME NEW c \in Agents, NEW to \in {"none"} \cup OnDisk, SpawnRegister(c, to)
      PROVE  LocksTrackTasksIfCarved'
  <2>1. /\ UNCHANGED <<lock, cfg, tear, target>> /\ pc[c] = "spawned"
        /\ \A x \in Incarnations : x # c => pc'[x] = pc[x]
    BY <1>8 DEF SpawnRegister, Advance, Base, TypeOK
  <2>2. \A x \in Agents : x # c => entry'[x] = entry[x]
    BY <1>8 DEF SpawnRegister, Base, TypeOK
  <2>3. entry'[c] = "live" \/ pc'[c] = "erased"
    BY <1>8 DEF SpawnRegister, Advance, Base, TypeOK, Incarnations
  <2>4. \A x \in Agents : x # c /\ InFlight(x) => InFlight(x)'
    BY <2>1 DEF InFlight, Incarnations
  <2>5. entry'[c] = "live" \/ InFlight(c)'
    BY <2>3 DEF InFlight
  <2>6. \A d \in Dirs : lock[d] \in Agents \cup {Nobody}
    BY DEF Base, TypeOK
  <2>7. NoHeir' => NoHeir
    BY <2>1 DEF NoHeir
  <2> QED BY <2>1, <2>2, <2>4, <2>5, <2>6, <2>7, TrackFrame DEF Accounted
<1>9. ASSUME NEW c \in Agents, SpawnFails(c)
      PROVE  LocksTrackTasksIfCarved'
  BY <1>9 DEF Advance, LocksTrackTasksIfCarved, LocksTrackTasks, NoHeir, InFlight, SpawnFails
<1>10. ASSUME NEW c \in Agents, NEW to \in {"none"} \cup OnDisk, SpawnErase(c, to)
      PROVE  LocksTrackTasksIfCarved'
  <2>1. UNCHANGED <<lock, entry, cfg, tear, target>>
    BY <1>10 DEF SpawnErase
  <2>2. pc'[c] = "erased" /\ \A x \in Incarnations : x # c => pc'[x] = pc[x]
    BY <1>10 DEF SpawnErase, Advance, Base, TypeOK, Incarnations
  <2>3. \A x \in Agents : InFlight(x) => InFlight(x)'
    BY <2>1, <2>2, LifecycleAssumption DEF InFlight, Incarnations
  <2> QED BY <2>1, <2>3, TrackFrame DEF Accounted, NoHeir
<1>11. ASSUME NEW c \in Agents, SpawnUnwind(c)
      PROVE  LocksTrackTasksIfCarved'
  BY <1>11
     DEF DelivererInv, Advance, LocksTrackTasksIfCarved, LocksTrackTasks, NoHeir, InFlight,
         SpawnUnwind, ReleaseAll, Reverse
<1>12. ASSUME NEW c \in Agents, SpawnRefused(c)
      PROVE  LocksTrackTasksIfCarved'
  BY <1>12 DEF Advance, LocksTrackTasksIfCarved, LocksTrackTasks, NoHeir, InFlight, SpawnRefused
<1>13. ASSUME NEW d \in Deliveries, NEW a \in Agents, Probe(d, a)
      PROVE  LocksTrackTasksIfCarved'
  <2>1. UNCHANGED <<entry, cfg, lock, tear>> /\ pc[d] = "idle"
    BY <1>13 DEF Probe
  <2>2. \A x \in Incarnations : x # d => pc'[x] = pc[x]
    BY <1>13 DEF Probe, Advance, Base, TypeOK
  <2>3. \A x \in Deliveries : x # d => target'[x] = target[x]
    BY <1>13 DEF Probe, Base, TypeOK
  <2>4. \A x \in Agents : InFlight(x) => InFlight(x)'
    BY <2>1, <2>2, <2>3 DEF InFlight, Incarnations
  <2>5. \A e \in Dirs : lock[e] \in Agents \cup {Nobody}
    BY DEF Base, TypeOK
  <2>6. NoHeir' => NoHeir
    BY <2>1 DEF NoHeir
  <2> QED BY <2>1, <2>4, <2>5, <2>6, TrackFrame DEF Accounted
<1>14. ASSUME NEW d \in Deliveries, NEW ok \in BOOLEAN, Reserve(d, ok)
      PROVE  LocksTrackTasksIfCarved'
  BY <1>14
     DEF Advance, LocksTrackTasksIfCarved, LocksTrackTasks, NoHeir, InFlight, Reserve,
         ReleaseAll
<1>15. ASSUME NEW d \in Deliveries, NEW ok \in BOOLEAN, ReactSpawn(d, ok)
      PROVE  LocksTrackTasksIfCarved'
  BY <1>15 DEF Advance, LocksTrackTasksIfCarved, LocksTrackTasks, NoHeir, InFlight, ReactSpawn
<1>16. ASSUME NEW d \in Deliveries, ReserveSkipped(d)
      PROVE  LocksTrackTasksIfCarved'
  BY <1>16
     DEF Advance, LocksTrackTasksIfCarved, LocksTrackTasks, NoHeir, InFlight, ReserveSkipped
<1>17. ASSUME NEW d \in Deliveries, ReactChain(d)
      PROVE  LocksTrackTasksIfCarved'
  BY <1>17
     DEF Advance, Incarnations, LocksTrackTasksIfCarved, LocksTrackTasks, NoHeir, InFlight,
         ReactChain
<1>18. ASSUME NEW d \in Deliveries, ReactAcquire(d)
      PROVE  LocksTrackTasksIfCarved'
  <2>1. /\ UNCHANGED <<entry, cfg, tear, target>> /\ pc[d] = "chained" /\ target[d] \in Agents
        /\ \A x \in Incarnations : x # d => pc'[x] = pc[x]
    BY <1>18 DEF ReactAcquire, Advance, Base, TypeOK, HandlerInv, DelivererInv
  <2>2. \A x \in Agents : InFlight(x) => InFlight(x)'
    BY <2>1 DEF InFlight, Incarnations
  <2>3. NoHeir' => NoHeir
    BY <2>1 DEF NoHeir
  <2>4. CASE TryAcquire(lock, target[d], chain[d])
    <3>1. lock' = Acquired(lock, target[d]) /\ pc'[d] = "locked"
      BY <1>18, <2>4 DEF ReactAcquire, Advance, Base, TypeOK, Incarnations
    <3>2. InFlight(target[d])'
      BY <2>1, <3>1 DEF InFlight
    <3>3. \A e \in Dirs : lock'[e] \in {lock[e], target[d]}
      BY <3>1 DEF Acquired, Base, TypeOK
    <3> QED BY <2>1, <2>2, <2>3, <3>2, <3>3, TrackFrame DEF Accounted, InFlight
  <2>5. CASE ~TryAcquire(lock, target[d], chain[d])
    BY <1>18, <2>1, <2>2, <2>3, <2>5, TrackFrame DEF ReactAcquire, Accounted
  <2> QED BY <2>4, <2>5
<1>19. ASSUME NEW d \in Deliveries, ReactClose(d)
      PROVE  LocksTrackTasksIfCarved'
  BY <1>19
     DEF Advance, Incarnations, LocksTrackTasksIfCarved, LocksTrackTasks, NoHeir, InFlight,
         ReactClose
<1>20. ASSUME NEW d \in Deliveries, ReactUnlock(d)
      PROVE  LocksTrackTasksIfCarved'
  BY <1>20
     DEF Advance, LocksTrackTasksIfCarved, LocksTrackTasks, NoHeir, InFlight, ReactUnlock,
         ReleaseAll, NormalOnly
<1>21. ASSUME NEW d \in Deliveries, NEW to \in {"none"} \cup OnDisk, ReactInstall(d, to)
      PROVE  LocksTrackTasksIfCarved'
  <2>1. /\ UNCHANGED <<entry, cfg, tear, target>> /\ pc[d] = "spawned" /\ target[d] \in Agents
        /\ \A x \in Incarnations : x # d => pc'[x] = pc[x]
    BY <1>21 DEF ReactInstall, Advance, Base, TypeOK, HandlerInv, DelivererInv
  <2>2. \A x \in Agents : x # target[d] /\ InFlight(x) => InFlight(x)'
    BY <2>1 DEF InFlight, Incarnations
  <2>3. \A e \in Dirs : lock[e] \in Agents \cup {Nobody}
    BY DEF Base, TypeOK
  <2>4. NoHeir' => NoHeir
    BY <2>1 DEF NoHeir
  <2>5. CASE entry[target[d]] = "live"
    BY <1>21, <2>1, <2>2, <2>3, <2>4, <2>5, TrackFrame DEF ReactInstall, Accounted
  <2>6. CASE entry[target[d]] # "live"
    <3>1. lock' = ReleaseAll(lock, target[d])
      BY <1>21, <2>6 DEF ReactInstall
    <3>2. \A e \in Dirs : lock'[e] \in {lock[e], Nobody} /\ lock'[e] # target[d]
      BY <2>1, <3>1 DEF ReleaseAll
    <3> QED BY <2>1, <2>2, <2>3, <2>4, <3>2, TrackFrame DEF Accounted
  <2> QED BY <2>5, <2>6
<1>22. ASSUME NEW a \in Agents, RemoveUnregister(a)
      PROVE  LocksTrackTasksIfCarved'
  BY <1>22
     DEF Base, TypeOK, LocksTrackTasksIfCarved, LocksTrackTasks, NoHeir, InFlight,
         RemoveUnregister
<1>23. ASSUME NEW a \in Agents, TearRelease(a)
      PROVE  LocksTrackTasksIfCarved'
  BY <1>23
     DEF LocksTrackTasksIfCarved, LocksTrackTasks, NoHeir, InFlight, TearRelease, ReleaseAll,
         Reverse
<1>24. ASSUME NEW a \in Agents, NEW to \in {"archived"} \cup OnDisk, TearArchive(a, to)
      PROVE  LocksTrackTasksIfCarved'
  BY <1>24 DEF LocksTrackTasksIfCarved, LocksTrackTasks, NoHeir, InFlight, TearArchive
<1>25. ASSUME NEW i \in Incarnations, Watch(i)
      PROVE  LocksTrackTasksIfCarved'
  BY <1>25
     DEF Base, TypeOK, LocksTrackTasksIfCarved, LocksTrackTasks, NoHeir, InFlight, Watch,
         ReleaseAll
<1>26. ASSUME NEW i \in Incarnations, NEW how \in {"panicked", "ended"}, TaskDies(i, how)
      PROVE  LocksTrackTasksIfCarved'
  BY <1>26 DEF LocksTrackTasksIfCarved, LocksTrackTasks, NoHeir, InFlight, TaskDies
<1>27. ASSUME ProcessEnds
      PROVE  LocksTrackTasksIfCarved'
  BY <1>27 DEF LocksTrackTasksIfCarved, LocksTrackTasks, ProcessEnds
<1>28. ASSUME BootDone
      PROVE  LocksTrackTasksIfCarved'
  BY <1>28 DEF LocksTrackTasksIfCarved, LocksTrackTasks, NoHeir, InFlight, BootDone
<1>29. ASSUME NEW a \in Agents, RestoreRefused(a)
      PROVE  LocksTrackTasksIfCarved'
  <2>1. UNCHANGED <<cfg, lock, pc, tear, target>> /\ entry' = [entry EXCEPT ![a] = "refused"] /\ entry[a] = "none"
    BY <1>29 DEF RestoreRefused, Unreadable, Registered
  <2>2. \A x \in Agents : entry[x] = "live" => entry'[x] = "live"
    BY <2>1 DEF Base, TypeOK
  <2>3. \A x \in Agents : InFlight(x) => InFlight(x)'
    BY <2>1 DEF InFlight
  <2>4. \A d \in Dirs : lock[d] \in Agents \cup {Nobody}
    BY DEF Base, TypeOK
  <2>5. NoHeir' => NoHeir
    BY <2>1 DEF NoHeir
  <2> QED BY <2>1, <2>2, <2>3, <2>4, <2>5, TrackFrame DEF Accounted
<1>30. ASSUME NEW a \in Agents, RestoreOrphan(a)
      PROVE  LocksTrackTasksIfCarved'
  <2>1. UNCHANGED <<cfg, lock, pc, tear, target>> /\ entry' = [entry EXCEPT ![a] = "faulted"] /\ entry[a] = "none"
    BY <1>30 DEF RestoreOrphan, RestoreFaulted, Pending, Registered
  <2>2. \A x \in Agents : entry[x] = "live" => entry'[x] = "live"
    BY <2>1 DEF Base, TypeOK
  <2>3. \A x \in Agents : InFlight(x) => InFlight(x)'
    BY <2>1 DEF InFlight
  <2>4. \A d \in Dirs : lock[d] \in Agents \cup {Nobody}
    BY DEF Base, TypeOK
  <2>5. NoHeir' => NoHeir
    BY <2>1 DEF NoHeir
  <2> QED BY <2>1, <2>2, <2>3, <2>4, <2>5, TrackFrame DEF Accounted
<1>31. ASSUME NEW a \in Agents, RestoreOne(a)
      PROVE  LocksTrackTasksIfCarved'
  BY <1>31
     DEF Base, TypeOK, HandlerInv, DelivererInv, Incarnations, LocksTrackTasksIfCarved,
         LocksTrackTasks, NoHeir, InFlight, RestoreOne, Forward, Acquired
<1>32. ASSUME NEW a \in Agents, NEW est \in BOOLEAN, RestoreFails(a, est)
      PROVE  LocksTrackTasksIfCarved'
  <2>1. UNCHANGED <<cfg, pc, tear, target>> /\ entry' = [entry EXCEPT ![a] = "faulted"] /\ entry[a] = "none"
    BY <1>32 DEF RestoreFails, RestoreFaulted, Restorable, Pending, Registered
  <2>2. \A x \in Agents : entry[x] = "live" => entry'[x] = "live"
    BY <2>1 DEF Base, TypeOK
  <2>3. \A x \in Agents : InFlight(x) => InFlight(x)'
    BY <2>1 DEF InFlight
  <2>4. \A d \in Dirs : lock[d] \in Agents \cup {Nobody}
    BY DEF Base, TypeOK
  <2>5. NoHeir' => NoHeir
    BY <2>1 DEF NoHeir
  <2>6. NoHeir => lock' = lock \/ lock' = ReleaseAll(Acquired(lock, a), a)
    BY <1>32 DEF RestoreFails, Forward, Reverse, NoHeir
  <2>7. cfg[a].ws \in Dirs /\ lock \in [Dirs -> Agents \cup {Nobody}]
    BY DEF Base, TypeOK, Config
  <2>8. NoHeir => \A d \in Dirs : lock'[d] \in {lock[d], Nobody}
    BY <2>6, <2>7 DEF ReleaseAll, Acquired
  <2> QED BY <2>2, <2>3, <2>4, <2>5, <2>8, TrackFrame DEF Accounted
<1> QED BY <1>1, <1>2, <1>3, <1>4, <1>5, <1>6, <1>7, <1>8, <1>9, <1>10, <1>11, <1>12, <1>13,
           <1>14, <1>15, <1>16, <1>17, <1>18, <1>19, <1>20, <1>21, <1>22, <1>23, <1>24, <1>25,
           <1>26, <1>27, <1>28, <1>29, <1>30, <1>31, <1>32
     DEF Next, SpawnStep, DeliverStep, RemoveStep, RestartStep, Restart, BootAborts

\* As long as nobody has asked for a full handoff, a lock does not outlive its task: the
\* holder is a live agent, or a handler that will install it or give the lock up is under way.
THEOREM LocksCorrect == Spec => []LocksTrackTasksIfCarved
<1>1. Init => NormalOnly(lock) /\ LocksTrackTasksIfCarved
  BY DEF Init, NormalOnly, LocksTrackTasksIfCarved, LocksTrackTasks
<1>2. Base /\ DInv /\ NormalOnly(lock) /\ LocksTrackTasksIfCarved /\ [Next]_vars
        => (NormalOnly(lock) /\ LocksTrackTasksIfCarved)'
  BY LockNext, TrackNext, BaseNext
<1> QED BY <1>1, <1>2, CoreInv, PTL DEF Spec

(***************************************************************************)
(* One task per agent, unless deliveries to it crossed.                    *)
(***************************************************************************)

\* Two deliveries to one agent that are past their reservation at once have crossed.
CrossInv ==
    \A d, e \in Deliveries :
        pc[d] \in Past /\ pc[e] \in Past /\ target[d] = target[e] =>
            d = e \/ target[d] \in crossed

\* An incarnation that has a task, or whose panic nobody has seen yet.
Busy(i) == task[i] \in {"held", "running", "panicked"}

\* An agent that was not crossed has one task at most, counting a panicked one that
\* nobody has seen yet.
OneBusy ==
    \A i, j \in Incarnations :
        Busy(i) /\ Busy(j) /\ AgentOf(i) = AgentOf(j) => i = j \/ AgentOf(i) \in crossed

\* Its Live entry holds the incarnation that was spawned or restored with it.
BusySpawn ==
    \A a \in Agents :
        Busy(a) => \/ pc[a] = "spawned" \/ handle[a] = a \/ entry[a] # "live"
                   \/ a \in crossed

\* A delivery keeps its own task from its reservation to its end.
DeliverTask ==
    \A d \in Deliveries :
        /\ Busy(d) => pc[d] \notin {"idle", "slow"}
        /\ pc[d] \in {"reserved", "chained", "locked"} => task[d] = "held"
        /\ pc[d] = "unlocking" => ~Busy(d)
        /\ \A a \in Agents : handle[a] = d => pc[d] = "done"

\* That task is reserved on the entry's channel, and installed at the end; until
\* then no other task of an agent that was not crossed is left.
DeliverAlone(d) ==
    /\ Busy(d) /\ entry[target[d]] = "live" =>
          \/ handle[target[d]] = d
          \/ pc[d] \in Past /\ (task[d] = "panicked" \/ chan[target[d]] = d)
    /\ pc[d] \in Past => ~Busy(target[d])
    /\ pc[d] \in Past /\ entry[target[d]] = "live" => ~Busy(handle[target[d]])

BusyDeliver ==
    /\ DeliverTask
    /\ \A d \in Deliveries : target[d] \in crossed \/ DeliverAlone(d)

\* Restoration starts from no task at all.
BusyBoot == booting => \A i \in Incarnations : Busy(i) => i \in Agents /\ entry[i] = "live"

\* A running task is known to its agent's entry or teardown, or about to be.
RunningHeld ==
    \A i \in Incarnations : task[i] = "running" =>
        \/ pc[i] = "spawned"
        \/ /\ handle[AgentOf(i)] = i
           /\ entry[AgentOf(i)] = "live" \/ tear[AgentOf(i)] # "no"
        \/ AgentOf(i) \in crossed

\* The invariant of tasks.
BusyInv == OneBusy /\ BusySpawn /\ BusyDeliver /\ BusyBoot /\ RunningHeld

\* Steps that start no task, register nobody and move no delivery.
LEMMA BusyFrame ==
    ASSUME Base, BusyInv, UNCHANGED <<target, handle, chan, crossed>>, booting' => booting,
           \A a \in Agents : /\ pc[a] = "spawned" => pc'[a] = "spawned"
                             /\ entry'[a] = "live" => entry[a] = "live"
                             /\ entry[a] = "live" \/ tear[a] # "no" => entry'[a] = "live" \/ tear'[a] # "no",
           booting => \A a \in Agents : entry[a] = "live" => entry'[a] = "live",
           \A d \in Deliveries : pc'[d] = pc[d],
           \A i \in Incarnations :
              task'[i] = task[i] \/ (task[i] = "running" /\ task'[i] \in {"panicked", "ended"})
    PROVE  BusyInv'
<1> USE WorkspacesAssumption, LifecycleAssumption
<1>0. /\ \A i \in Incarnations : AgentOf(i)' = AgentOf(i) /\ (Busy(i)' => Busy(i))
      /\ \A i \in Incarnations : Busy(i)' => task'[i] \in {task[i], "panicked"}
      /\ Nobody \notin Incarnations
      /\ \A a \in Agents : handle[a] \in Incarnations \cup {Nobody}
  BY DEF AgentOf, Busy, Incarnations, Base, TypeOK
<1>1. OneBusy'
  BY <1>0 DEF BusyInv, OneBusy
<1>2. BusySpawn'
  BY <1>0 DEF BusyInv, BusySpawn, Incarnations
<1>3. BusyDeliver'
  <2>1. \A d \in Deliveries :
           /\ d \in Incarnations
           /\ pc[d] # "idle" => target[d] \in Agents /\ target[d] \in Incarnations
    BY DEF Incarnations, Base, HandlerInv, DelivererInv
  <2>2. DeliverTask'
    BY <1>0, <2>1 DEF BusyInv, BusyDeliver, DeliverTask, Busy
  <2>3. ASSUME NEW d \in Deliveries, target[d] \notin crossed PROVE DeliverAlone(d)'
    <3>1. pc[d] \in Past /\ entry[target[d]] = "live" => handle[target[d]] \in Incarnations
      BY <1>0, <2>1 DEF Past, Base, HandlerInv, HolderInv
    <3>2. pc[d] \in Past => pc[d] # "idle"
      BY DEF Past
    <3>3. Busy(d) => pc[d] # "idle"
      BY DEF BusyInv, BusyDeliver, DeliverTask
    <3>4. DeliverAlone(d) /\ pc'[d] = pc[d]
      BY <2>3 DEF BusyInv, BusyDeliver
    <3> QED BY <1>0, <2>1, <3>1, <3>2, <3>3, <3>4 DEF DeliverAlone, Busy
  <2> QED BY <2>2, <2>3 DEF BusyDeliver
<1>4. BusyBoot'
  BY <1>0 DEF BusyInv, BusyBoot
<1>5. RunningHeld'
  <2>1. \A i \in Incarnations : task'[i] = "running" => AgentOf(i) \in Agents /\ task[i] = "running"
    BY DEF AgentOf, Incarnations, Base, HandlerInv, DelivererInv, TypeOK
  <2> QED BY <1>0, <2>1 DEF BusyInv, RunningHeld, Incarnations
<1> QED BY <1>1, <1>2, <1>3, <1>4, <1>5 DEF BusyInv

\* A delivery d ends its part on the entry.
LEMMA DeliverFrame ==
    ASSUME Base, BusyInv, CrossInv, NEW d \in Deliveries, NEW a \in Agents, a = target[d],
           pc[d] \in Past, UNCHANGED <<entry, target, crossed>>,
           pc'[d] \in Past \cup {"done"}, pc'[d] \notin {"reserved", "chained", "locked"},
           \A i \in Incarnations : i # d => pc'[i] = pc[i] /\ task'[i] = task[i],
           \A x \in Agents : x # a => handle'[x] = handle[x] /\ chan'[x] = chan[x],
           handle'[a] = handle[a] \/ (handle'[a] = d /\ pc'[d] = "done"),
           Busy(d)' => /\ Busy(d) /\ pc'[d] # "unlocking"
                       /\ entry[a] = "live" => handle'[a] = d
    PROVE  BusyDeliver'
<1> USE WorkspacesAssumption, LifecycleAssumption
<1>1. /\ d \in Incarnations /\ d \notin Agents /\ Agents \subseteq Incarnations
      /\ Deliveries \subseteq Incarnations /\ Nobody \notin Incarnations
      /\ pc[d] # "done"
  BY DEF Incarnations, Past
<1>2. /\ \A x \in Agents : handle[x] # d
      /\ \A e \in Deliveries, x \in Agents : handle[x] = e => pc[e] = "done"
  BY <1>1 DEF BusyInv, BusyDeliver, DeliverTask
<1>3. \A e \in Deliveries : e # d => /\ pc'[e] = pc[e] /\ task'[e] = task[e]
                                     /\ Busy(e)' <=> Busy(e)
  BY <1>1 DEF Busy
<1>4. DeliverTask'
  <2>1. \A e \in Deliveries, x \in Agents : handle'[x] = e => pc'[e] = "done"
    BY <1>1, <1>2, <1>3
  <2>2. /\ Busy(d)' => pc'[d] \notin {"idle", "slow"}
        /\ pc'[d] = "unlocking" => ~Busy(d)'
    BY DEF Past
  <2> QED BY <1>3, <2>1, <2>2 DEF BusyInv, BusyDeliver, DeliverTask, Busy
<1>5. ASSUME NEW e \in Deliveries, target[e] \notin crossed PROVE DeliverAlone(e)'
  <2>1. DeliverAlone(e)
    BY <1>5 DEF BusyInv, BusyDeliver
  <2>2. CASE e = d
    <3>1. entry[a] = "live" => handle[a] \in Incarnations /\ ~Busy(handle[a]) /\ ~Busy(a)
      BY <1>1, <2>1, <2>2 DEF DeliverAlone, Base, TypeOK, HandlerInv, HolderInv
    <3>2. pc'[d] \in Past => handle'[a] = handle[a] /\ ~Busy(a)'
      BY <1>1, <2>1, <2>2 DEF Past, Busy, DeliverAlone
    <3>3. pc'[d] \in Past /\ entry[a] = "live" => task'[handle[a]] = task[handle[a]]
      BY <1>1, <1>2, <3>1
    <3> QED BY <2>2, <3>1, <3>2, <3>3 DEF DeliverAlone, Past, Busy
  <2>3. CASE e # d /\ target[e] = a
    <3>1. pc[e] \notin Past
      BY <1>5, <2>3 DEF CrossInv
    <3>2. entry[a] = "live" => ~Busy(handle[a])
      BY <1>5, <2>3 DEF BusyInv, BusyDeliver, DeliverAlone
    <3>3. Busy(e) => entry[a] # "live"
      BY <2>1, <2>3, <3>1, <3>2 DEF DeliverAlone
    <3> QED BY <1>3, <2>3, <3>1, <3>3 DEF DeliverAlone
  <2>4. CASE e # d /\ target[e] # a
    <3>1. pc[e] # "idle" => target[e] \in Agents
      BY DEF Base, HandlerInv, DelivererInv
    <3>2. target[e] \in Agents =>
             /\ handle'[target[e]] = handle[target[e]] /\ chan'[target[e]] = chan[target[e]]
             /\ Busy(target[e])' <=> Busy(target[e])
      BY <1>1, <2>4 DEF Busy
    <3>3. target[e] \in Agents /\ entry[target[e]] = "live" => task'[handle[target[e]]] = task[handle[target[e]]]
      BY <1>1, <1>2 DEF Base, TypeOK, HandlerInv, HolderInv
    <3>4. pc[e] \in Past => pc[e] # "idle"
      BY DEF Past
    <3>5. Busy(e) => pc[e] # "idle"
      BY DEF BusyInv, BusyDeliver, DeliverTask
    <3> QED BY <1>3, <2>1, <2>4, <3>1, <3>2, <3>3, <3>4, <3>5 DEF DeliverAlone, Busy
  <2> QED BY <2>2, <2>3, <2>4
<1> QED BY <1>4, <1>5 DEF BusyDeliver

\* Only a reservation brings a delivery past its own, and it tells whether another one is.
LEMMA CrossNext == Base /\ CrossInv /\ [Next]_vars => CrossInv'
<1> SUFFICES ASSUME Base, CrossInv, [Next]_vars PROVE CrossInv'
  OBVIOUS
<1> USE WorkspacesAssumption, LifecycleAssumption
<1>1. ASSUME crossed \subseteq crossed', \A e \in Deliveries : pc'[e] \in Past => pc[e] \in Past /\ target'[e] = target[e]
      PROVE  CrossInv'
  BY <1>1 DEF CrossInv
<1>2. CASE UNCHANGED vars
  BY <1>1, <1>2 DEF vars
<1>3. ASSUME NEW d \in Deliveries, NEW resolved \in BOOLEAN, Reserve(d, resolved) PROVE CrossInv'
  <2>1. /\ UNCHANGED target /\ crossed \subseteq crossed'
        /\ \A e \in Deliveries : e # d => pc'[e] = pc[e]
    BY <1>3 DEF Reserve, Advance
  <2>2. pc'[d] \in Past => \A e \in Deliveries \ {d} :
           target[e] = target[d] /\ pc[e] \in Past => target[d] \in crossed'
    BY <1>3 DEF Reserve, Overtaken, Advance, Past, Base, TypeOK, Incarnations
  <2> QED BY <2>1, <2>2 DEF CrossInv
<1>4. ASSUME NEW c \in Agents, SpawnStep(c) \/ RemoveStep(c) PROVE CrossInv'
  <2>1. CASE \E to : SpawnRegister(c, to) \/ SpawnErase(c, to)
    <3>1. UNCHANGED <<target, crossed>> /\ \E to : pc' = [pc EXCEPT ![c] = to]
      BY <2>1 DEF SpawnRegister, SpawnErase, Advance
    <3>2. \A e \in Deliveries : pc'[e] = pc[e]
      BY <3>1 DEF Base, TypeOK, Incarnations
    <3> QED BY <1>1, <3>1, <3>2
  <2>2. CASE \E written : SpawnMakeDir(c) \/ SpawnWriteMeta(c, written)
    BY <1>1, <2>2 DEF SpawnMakeDir, SpawnWriteMeta, Advance, Base, TypeOK, Incarnations
  <2>3. CASE \/ \E s \in Agents, k \in Kinds, r \in Roles : SpawnReserve(c, s, k, r)
             \/ SpawnChain(c) \/ SpawnCarve(c) \/ SpawnTask(c)
    BY <1>1, <2>3
       DEF SpawnReserve, SpawnChain, SpawnCarve, SpawnTask, Advance, Base, TypeOK, Incarnations
  <2>4. CASE SpawnFails(c) \/ SpawnUnwind(c) \/ SpawnRefused(c)
    BY <1>1, <2>4
       DEF SpawnFails, SpawnUnwind, SpawnRefused, Advance, Base, TypeOK, Incarnations
  <2>5. CASE RemoveStep(c)
    BY <1>1, <2>5 DEF RemoveStep, RemoveUnregister, TearRelease, TearArchive
  <2> QED BY <1>4, <2>1, <2>2, <2>3, <2>4, <2>5 DEF SpawnStep
<1>5. ASSUME NEW d \in Deliveries, DeliverStep(d) PROVE CrossInv'
  <2>1. CASE \E resolved \in BOOLEAN : Reserve(d, resolved)
    BY <1>3, <2>1
  <2>2. CASE \E a \in Agents : Probe(d, a)
    BY <1>1, <2>2 DEF Probe, Advance, Past, Base, TypeOK, Incarnations
  <2>3. CASE \E ok \in BOOLEAN : ReactSpawn(d, ok)
    BY <1>1, <2>3 DEF ReactSpawn, Advance, Past, Base, TypeOK, Incarnations
  <2>4. CASE ReserveSkipped(d) \/ ReactChain(d) \/ ReactAcquire(d)
    BY <1>1, <2>4
       DEF ReserveSkipped, ReactChain, ReactAcquire, Advance, Past, Base, TypeOK, Incarnations
  <2>5. CASE ReactClose(d) \/ ReactUnlock(d)
    BY <1>1, <2>5 DEF ReactClose, ReactUnlock, Advance, Past, Base, TypeOK, Incarnations
  <2>6. CASE \E to \in {"none"} \cup OnDisk : ReactInstall(d, to)
    BY <1>1, <2>6 DEF ReactInstall, Advance, Past, Base, TypeOK, Incarnations
  <2> QED BY <1>5, <2>1, <2>2, <2>3, <2>4, <2>5, <2>6 DEF DeliverStep
<1>6. ASSUME NEW i \in Incarnations, Watch(i) \/ \E how \in {"panicked", "ended"} : TaskDies(i, how)
      PROVE  CrossInv'
  BY <1>1, <1>6 DEF Watch, TaskDies
<1>7. CASE ProcessEnds
  BY <1>7 DEF ProcessEnds, CrossInv, Past, Incarnations
<1>8. CASE BootDone
  BY <1>1, <1>8 DEF BootDone
<1>9. ASSUME NEW a \in Agents, RestoreRefused(a) \/ RestoreOrphan(a) \/ RestoreOne(a)
                               \/ \E est \in BOOLEAN : RestoreFails(a, est)
      PROVE  CrossInv'
  BY <1>1, <1>9 DEF RestoreRefused, RestoreOrphan, RestoreOne, RestoreFails, RestoreFaulted
<1> QED BY <1>2, <1>4, <1>5, <1>6, <1>7, <1>8, <1>9 DEF Next, RestartStep, Restart, BootAborts

\* Each step keeps the tasks in order.
LEMMA BusyNext == Base /\ BusyInv /\ CrossInv /\ [Next]_vars => BusyInv'
<1> SUFFICES ASSUME Base, BusyInv, CrossInv, [Next]_vars PROVE BusyInv'
  OBVIOUS
<1> USE WorkspacesAssumption, LifecycleAssumption
<1>1. CASE UNCHANGED vars
  BY <1>1, BusyFrame DEF vars
<1>2. ASSUME NEW c \in Agents, NEW s \in Agents, NEW k \in Kinds, NEW r \in Roles, SpawnReserve(c, s, k, r)
      PROVE  BusyInv'
  BY <1>2, BusyFrame DEF SpawnReserve, Serving, Advance, Base, TypeOK, Incarnations, Registered
<1>3. ASSUME NEW c \in Agents, SpawnMakeDir(c)
      PROVE  BusyInv'
  BY <1>3, BusyFrame DEF SpawnMakeDir, Advance, Base, TypeOK, Incarnations, Registered
<1>4. ASSUME NEW c \in Agents, NEW written \in BOOLEAN, SpawnWriteMeta(c, written)
      PROVE  BusyInv'
  BY <1>4, BusyFrame DEF SpawnWriteMeta, Advance, Base, TypeOK, Incarnations, Registered
<1>5. ASSUME NEW c \in Agents, SpawnChain(c)
      PROVE  BusyInv'
  BY <1>5, BusyFrame DEF SpawnChain, Advance, Base, TypeOK, Incarnations, Registered
<1>6. ASSUME NEW c \in Agents, SpawnCarve(c)
      PROVE  BusyInv'
  BY <1>6, BusyFrame DEF SpawnCarve, Advance, Base, TypeOK, Incarnations, Registered
<1>7. ASSUME NEW c \in Agents, SpawnTask(c)
      PROVE  BusyInv'
  <2>1. OneBusy'
    BY <1>7
       DEF SpawnTask, Base, Incarnations, HandlerInv, SpawnerInv, DelivererInv, HolderInv,
           BootInv, BusyInv, OneBusy, BusySpawn, BusyDeliver, DeliverTask, DeliverAlone,
           BusyBoot, RunningHeld, Busy,
           AgentOf, Past
  <2>2. BusySpawn'
    BY <1>7 DEF SpawnTask, Advance, Base, TypeOK, BusyInv, BusySpawn, Busy
  <2>3. BusyDeliver'
    BY <1>7
       DEF SpawnTask, Advance, Base, HandlerInv, SpawnerInv, DelivererInv, HolderInv, BootInv,
           BusyInv, OneBusy, BusySpawn, BusyDeliver, DeliverTask, DeliverAlone, RunningHeld,
           Busy, AgentOf, Past
  <2>4. BusyBoot'
    BY <1>7 DEF SpawnTask, Base, Incarnations, HandlerInv, BootInv, BusyBoot
  <2>5. RunningHeld'
    BY <1>7 DEF SpawnTask, Advance, Base, TypeOK, BusyInv, RunningHeld, AgentOf
  <2> QED BY <2>1, <2>2, <2>3, <2>4, <2>5 DEF BusyInv
<1>8. ASSUME NEW c \in Agents, NEW to \in {"none"} \cup OnDisk, SpawnRegister(c, to)
      PROVE  BusyInv'
  <2>1. OneBusy'
    BY <1>8 DEF SpawnRegister, Stop, Base, TypeOK, BusyInv, OneBusy, Busy, AgentOf
  <2>2. BusySpawn'
    <3>1. CASE /\ entry' = [entry EXCEPT ![c] = "live"]
               /\ handle' = [handle EXCEPT ![c] = c]
               /\ task' = task /\ crossed' = crossed
               /\ pc' = [pc EXCEPT ![c] = "done"]
      BY <1>8, <3>1 DEF Base, TypeOK, BusyInv, BusySpawn, Busy
    <3>2. CASE /\ task' = Stop(c) /\ UNCHANGED <<entry, handle>>
               /\ pc' = [pc EXCEPT ![c] = "erased"]
      BY <1>8, <3>2
         DEF SpawnRegister, Stop, Base, TypeOK, Incarnations, HandlerInv, SpawnerInv,
             BusyInv, BusySpawn, RunningHeld, Busy
    <3> QED BY <1>8, <3>1, <3>2 DEF SpawnRegister, Advance
  <2>3. BusyDeliver'
    BY <1>8
       DEF SpawnRegister, Stop, Advance, Base, TypeOK, Incarnations, HandlerInv, SpawnerInv,
           DelivererInv, HolderInv, BootInv, BusyInv, OneBusy, BusySpawn, BusyDeliver,
           DeliverTask, DeliverAlone, Busy,
           AgentOf, Past
  <2>4. BusyBoot'
    BY <1>8 DEF SpawnRegister, Base, Incarnations, HandlerInv, BootInv, BusyBoot
  <2>5. RunningHeld'
    BY <1>8
       DEF SpawnRegister, Stop, Advance, Base, TypeOK, Incarnations, HandlerInv, SpawnerInv,
           DelivererInv, BusyInv, BusySpawn, RunningHeld, AgentOf, Past
  <2> QED BY <2>1, <2>2, <2>3, <2>4, <2>5 DEF BusyInv
<1>9. ASSUME NEW c \in Agents, SpawnFails(c)
      PROVE  BusyInv'
  BY <1>9, BusyFrame DEF SpawnFails, Advance, Base, TypeOK, Incarnations, Registered
<1>10. ASSUME NEW c \in Agents, NEW to \in {"none"} \cup OnDisk, SpawnErase(c, to)
      PROVE  BusyInv'
  BY <1>10, BusyFrame DEF SpawnErase, Advance, Base, TypeOK, Incarnations, Registered
<1>11. ASSUME NEW c \in Agents, SpawnUnwind(c)
      PROVE  BusyInv'
  BY <1>11, BusyFrame DEF SpawnUnwind, Advance, Base, TypeOK, Incarnations, Registered
<1>12. ASSUME NEW c \in Agents, SpawnRefused(c)
      PROVE  BusyInv'
  BY <1>12, BusyFrame DEF SpawnRefused, Advance, Base, TypeOK, Incarnations, Registered
<1>13. ASSUME NEW d \in Deliveries, NEW a \in Agents, Probe(d, a)
      PROVE  BusyInv'
  <2>1. OneBusy'
    BY <1>13 DEF Probe, Base, HandlerInv, DelivererInv, BusyInv, OneBusy, Busy, AgentOf
  <2>2. BusySpawn'
    BY <1>13 DEF Probe, Advance, BusyInv, BusySpawn, Busy
  <2>3. BusyDeliver'
    BY <1>13 DEF Probe, Advance, BusyInv, BusyDeliver, DeliverTask, DeliverAlone, Busy, Past
  <2>4. BusyBoot'
    BY <1>13 DEF Probe, BusyInv, BusyBoot, Busy
  <2>5. RunningHeld'
    BY <1>13 DEF Probe, Advance, Base, HandlerInv, DelivererInv, BusyInv, RunningHeld, AgentOf
  <2> QED BY <2>1, <2>2, <2>3, <2>4, <2>5 DEF BusyInv
<1>14. ASSUME NEW d \in Deliveries, NEW ok \in BOOLEAN, Reserve(d, ok)
      PROVE  BusyInv'
  <2>0. /\ crossed \subseteq crossed'
        /\ \A e \in Deliveries : e # d /\ pc[e] \in Past /\ target[e] = target[d]
              => pc'[d] = "done" \/ target[d] \in crossed'
    BY <1>14 DEF Reserve, Overtaken, Advance, Base, TypeOK, Incarnations
  <2>1. OneBusy'
    BY <1>14, <2>0
       DEF Reserve, IsClosed, Advance, Base, TypeOK, Incarnations, HandlerInv, SpawnerInv,
           DelivererInv, HolderInv, BusyInv, OneBusy, BusySpawn, BusyDeliver, DeliverTask,
           DeliverAlone, RunningHeld, Busy,
           AgentOf, Past
  <2>2. BusySpawn'
    BY <1>14, <2>0 DEF Reserve, Advance, Base, TypeOK, Incarnations, BusyInv, BusySpawn, Busy
  <2>3. BusyDeliver'
    BY <1>14, <2>0
       DEF Reserve, IsClosed, Advance, Base, TypeOK, Incarnations, HandlerInv, SpawnerInv,
           DelivererInv, HolderInv, BusyInv, OneBusy, BusySpawn, BusyDeliver, DeliverTask,
           DeliverAlone, Busy, AgentOf,
           Past
  <2>4. BusyBoot'
    BY <1>14, <2>0 DEF Reserve, Base, Incarnations, HandlerInv, BootInv, BusyBoot
  <2>5. RunningHeld'
    BY <1>14, <2>0 DEF Reserve, Advance, Base, TypeOK, BusyInv, RunningHeld, AgentOf
  <2> QED BY <2>1, <2>2, <2>3, <2>4, <2>5 DEF BusyInv
<1>15. ASSUME NEW d \in Deliveries, NEW ok \in BOOLEAN, ReactSpawn(d, ok)
      PROVE  BusyInv'
  <2>1. OneBusy'
    BY <1>15 DEF ReactSpawn, BusyInv, OneBusy, BusyDeliver, DeliverTask, DeliverAlone, Busy, AgentOf
  <2>2. BusySpawn'
    BY <1>15 DEF ReactSpawn, Advance, BusyInv, BusySpawn, Busy
  <2>3. BusyDeliver'
    BY <1>15 DEF ReactSpawn, Advance, Base, TypeOK, BusyInv, BusyDeliver, DeliverTask,
                 DeliverAlone, Busy, Past
  <2>4. BusyBoot'
    BY <1>15 DEF ReactSpawn, Base, Incarnations, HandlerInv, BootInv, BusyBoot
  <2>5. RunningHeld'
    BY <1>15 DEF ReactSpawn, Advance, Base, TypeOK, BusyInv, RunningHeld, AgentOf
  <2> QED BY <2>1, <2>2, <2>3, <2>4, <2>5 DEF BusyInv
<1>16. ASSUME NEW d \in Deliveries, ReserveSkipped(d)
      PROVE  BusyInv'
  <2>1. OneBusy'
    BY <1>16 DEF ReserveSkipped, BusyInv, OneBusy, Busy, AgentOf
  <2>2. BusySpawn'
    BY <1>16 DEF ReserveSkipped, Advance, BusyInv, BusySpawn, Busy
  <2>3. BusyDeliver'
    BY <1>16 DEF ReserveSkipped, Advance, BusyInv, OneBusy, BusyDeliver, DeliverTask,
                 DeliverAlone, Busy, Past
  <2>4. BusyBoot'
    BY <1>16 DEF ReserveSkipped, Base, Incarnations, HandlerInv, BootInv, BusyBoot
  <2>5. RunningHeld'
    BY <1>16 DEF ReserveSkipped, Advance, BusyInv, RunningHeld, AgentOf
  <2> QED BY <2>1, <2>2, <2>3, <2>4, <2>5 DEF BusyInv
<1>17. ASSUME NEW d \in Deliveries, ReactChain(d)
      PROVE  BusyInv'
  <2>1. OneBusy'
    BY <1>17 DEF ReactChain, BusyInv, OneBusy, Busy, AgentOf
  <2>2. BusySpawn'
    BY <1>17 DEF ReactChain, Advance, BusyInv, BusySpawn, Busy
  <2>3. BusyDeliver'
    BY <1>17 DEF ReactChain, Advance, BusyInv, OneBusy, BusyDeliver, DeliverTask, DeliverAlone,
                 Busy, Past
  <2>4. BusyBoot'
    BY <1>17 DEF ReactChain, Base, Incarnations, HandlerInv, BootInv, BusyBoot
  <2>5. RunningHeld'
    BY <1>17 DEF ReactChain, Advance, BusyInv, RunningHeld, AgentOf
  <2> QED BY <2>1, <2>2, <2>3, <2>4, <2>5 DEF BusyInv
<1>18. ASSUME NEW d \in Deliveries, ReactAcquire(d)
      PROVE  BusyInv'
  <2>1. OneBusy'
    BY <1>18 DEF ReactAcquire, BusyInv, OneBusy, Busy, AgentOf
  <2>2. BusySpawn'
    BY <1>18 DEF ReactAcquire, Advance, Base, TypeOK, Incarnations, BusyInv, BusySpawn, Busy
  <2>3. BusyDeliver'
    <3>1. /\ UNCHANGED <<entry, task, handle, chan, target, crossed>> /\ d \in Incarnations
          /\ pc[d] = "chained" /\ pc'[d] \in {"locked", "closing"}
          /\ \A e \in Deliveries : e # d => pc'[e] = pc[e]
      BY <1>18 DEF ReactAcquire, Advance, Base, TypeOK, Incarnations
    <3>2. DeliverTask'
      BY <3>1 DEF BusyInv, BusyDeliver, DeliverTask, Busy
    <3>3. \A e \in Deliveries : DeliverAlone(e) => DeliverAlone(e)'
      BY <3>1 DEF DeliverAlone, Busy, Past
    <3> QED BY <3>1, <3>2, <3>3 DEF BusyInv, BusyDeliver
  <2>4. BusyBoot'
    BY <1>18 DEF ReactAcquire, Base, Incarnations, HandlerInv, BootInv, BusyBoot
  <2>5. RunningHeld'
    BY <1>18 DEF ReactAcquire, Advance, Base, TypeOK, BusyInv, RunningHeld, AgentOf
  <2> QED BY <2>1, <2>2, <2>3, <2>4, <2>5 DEF BusyInv
<1>19. ASSUME NEW d \in Deliveries, ReactClose(d)
      PROVE  BusyInv'
  <2>1. OneBusy'
    BY <1>19 DEF ReactClose, BusyInv, OneBusy, Busy, AgentOf
  <2>2. BusySpawn'
    BY <1>19 DEF ReactClose, Advance, BusyInv, BusySpawn, Busy
  <2>3. BusyDeliver'
    <3>1. /\ target[d] \in Agents /\ pc[d] \in Past /\ UNCHANGED <<entry, target, crossed>>
          /\ pc'[d] \in {"unlocking", "done"}
          /\ \A i \in Incarnations : i # d => pc'[i] = pc[i] /\ task'[i] = task[i]
      BY <1>19
         DEF ReactClose, Advance, Base, TypeOK, Incarnations, HandlerInv, DelivererInv, Past
    <3>2. \A x \in Agents : x # target[d] => handle'[x] = handle[x] /\ chan'[x] = chan[x]
      BY <1>19 DEF ReactClose, Base, TypeOK
    <3>3. handle'[target[d]] = handle[target[d]]
      BY <1>19, <3>1 DEF ReactClose, Advance, Base, TypeOK, Incarnations
    <3>4. ~Busy(d)'
      BY <1>19, <3>1 DEF ReactClose, Busy, Base, TypeOK, Incarnations, BusyInv, BusyDeliver,
                         DeliverTask, DeliverAlone
    <3>5. pc'[d] \in Past \cup {"done"} /\ pc'[d] \notin {"reserved", "chained", "locked"}
      BY <3>1 DEF Past
    <3> QED BY <3>1, <3>2, <3>3, <3>4, <3>5, DeliverFrame
  <2>4. BusyBoot'
    BY <1>19 DEF ReactClose, Base, Incarnations, HandlerInv, BootInv, BusyBoot
  <2>5. RunningHeld'
    BY <1>19 DEF ReactClose, Advance, BusyInv, RunningHeld, AgentOf
  <2> QED BY <2>1, <2>2, <2>3, <2>4, <2>5 DEF BusyInv
<1>20. ASSUME NEW d \in Deliveries, ReactUnlock(d)
      PROVE  BusyInv'
  <2>1. OneBusy'
    BY <1>20 DEF ReactUnlock, BusyInv, OneBusy, Busy, AgentOf
  <2>2. BusySpawn'
    BY <1>20 DEF ReactUnlock, Advance, BusyInv, BusySpawn, Busy
  <2>3. BusyDeliver'
    <3>1. /\ target[d] \in Agents /\ pc[d] \in Past /\ UNCHANGED <<entry, target, crossed>>
          /\ pc'[d] \in {"unlocking", "done"}
          /\ \A i \in Incarnations : i # d => pc'[i] = pc[i] /\ task'[i] = task[i]
      BY <1>20 DEF ReactUnlock, Advance, Base, HandlerInv, DelivererInv, Past
    <3>2. \A x \in Agents : x # target[d] => handle'[x] = handle[x] /\ chan'[x] = chan[x]
      BY <1>20 DEF ReactUnlock, Base, TypeOK
    <3>3. handle'[target[d]] = handle[target[d]]
      BY <1>20, <3>1 DEF ReactUnlock, Advance, Base, TypeOK, Incarnations
    <3>4. ~Busy(d)'
      BY <1>20, <3>1 DEF ReactUnlock, Busy, Base, TypeOK, Incarnations, BusyInv, BusyDeliver,
                         DeliverTask, DeliverAlone
    <3>5. pc'[d] \in Past \cup {"done"} /\ pc'[d] \notin {"reserved", "chained", "locked"}
      BY <3>1 DEF Past
    <3> QED BY <3>1, <3>2, <3>3, <3>4, <3>5, DeliverFrame
  <2>4. BusyBoot'
    BY <1>20 DEF ReactUnlock, Base, Incarnations, HandlerInv, BootInv, BusyBoot
  <2>5. RunningHeld'
    BY <1>20 DEF ReactUnlock, Advance, BusyInv, RunningHeld, AgentOf
  <2> QED BY <2>1, <2>2, <2>3, <2>4, <2>5 DEF BusyInv
<1>21. ASSUME NEW d \in Deliveries, NEW to \in {"none"} \cup OnDisk, ReactInstall(d, to)
      PROVE  BusyInv'
  <2>1. OneBusy'
    BY <1>21 DEF ReactInstall, Stop, Base, TypeOK, BusyInv, OneBusy, Busy, AgentOf
  <2>2. BusySpawn'
    BY <1>21
       DEF ReactInstall, Stop, Advance, Base, TypeOK, Incarnations, BusyInv, BusySpawn,
           BusyDeliver, DeliverTask, DeliverAlone, Busy, Past
  <2>3. BusyDeliver'
    <3>1. /\ target[d] \in Agents /\ pc[d] \in Past /\ UNCHANGED <<entry, target, crossed>>
          /\ pc'[d] = "done"
          /\ \A i \in Incarnations : i # d => pc'[i] = pc[i] /\ task'[i] = task[i]
      BY <1>21
         DEF ReactInstall, Stop, Advance, Base, TypeOK, Incarnations, HandlerInv, DelivererInv,
             Past
    <3>2. \A x \in Agents : x # target[d] => handle'[x] = handle[x] /\ chan'[x] = chan[x]
      BY <1>21 DEF ReactInstall, Base, TypeOK
    <3>3. handle'[target[d]] = handle[target[d]] \/ (handle'[target[d]] = d /\ pc'[d] = "done")
      BY <1>21, <3>1 DEF ReactInstall, Advance, Base, TypeOK, Incarnations
    <3>4. Busy(d)' => Busy(d) /\ (entry[target[d]] = "live" => handle'[target[d]] = d)
      BY <1>21, <3>1 DEF ReactInstall, Stop, Busy, Base, TypeOK
    <3> QED BY <3>1, <3>2, <3>3, <3>4, DeliverFrame DEF Past
  <2>4. BusyBoot'
    BY <1>21 DEF ReactInstall, Base, Incarnations, HandlerInv, BootInv, BusyBoot
  <2>5. RunningHeld'
    BY <1>21
       DEF ReactInstall, Stop, Advance, Base, TypeOK, Incarnations, HandlerInv, DelivererInv,
           BusyInv, BusyDeliver, DeliverTask, DeliverAlone, RunningHeld, Busy, AgentOf, Past
  <2> QED BY <2>1, <2>2, <2>3, <2>4, <2>5 DEF BusyInv
<1>22. ASSUME NEW a \in Agents, RemoveUnregister(a)
      PROVE  BusyInv'
  BY <1>22, BusyFrame
     DEF RemoveUnregister, Serving, Advance, Base, TypeOK, Incarnations, Registered
<1>23. ASSUME NEW a \in Agents, TearRelease(a)
      PROVE  BusyInv'
  BY <1>23, BusyFrame DEF TearRelease, Advance, Base, TypeOK, Incarnations, Registered
<1>24. ASSUME NEW a \in Agents, NEW to \in {"archived"} \cup OnDisk, TearArchive(a, to)
      PROVE  BusyInv'
  <2>1. OneBusy'
    BY <1>24 DEF TearArchive, Stop, BusyInv, OneBusy, Busy, AgentOf
  <2>2. BusySpawn'
    BY <1>24 DEF TearArchive, Stop, Base, HandlerInv, SpawnerInv, BusyInv, BusySpawn, Busy
  <2>3. BusyDeliver'
    BY <1>24
       DEF TearArchive, Stop, Base, HandlerInv, SpawnerInv, BusyInv, BusyDeliver, DeliverTask,
           DeliverAlone, Busy, AgentOf
  <2>4. BusyBoot'
    BY <1>24 DEF TearArchive, Base, HandlerInv, BootInv, BusyBoot
  <2>5. RunningHeld'
    BY <1>24 DEF TearArchive, Stop, Base, TypeOK, Incarnations, BusyInv, RunningHeld, AgentOf
  <2> QED BY <2>1, <2>2, <2>3, <2>4, <2>5 DEF BusyInv
<1>25. ASSUME NEW i \in Incarnations, Watch(i)
      PROVE  BusyInv'
  <2>1. OneBusy'
    BY <1>25 DEF Watch, BusyInv, OneBusy, Busy, AgentOf
  <2>2. BusySpawn'
    BY <1>25 DEF Watch, Base, TypeOK, BusyInv, BusySpawn, Busy
  <2>3. BusyDeliver'
    <3>1. /\ UNCHANGED <<pc, target, crossed>> /\ Nobody \notin Incarnations
          /\ \A j \in Incarnations : task'[j] = task[j] \/ (task[j] = "panicked" /\ task'[j] = "ended")
          /\ \A x \in Agents :
                \/ entry'[x] = entry[x] /\ handle'[x] = handle[x] /\ chan'[x] = chan[x]
                \/ entry'[x] = "faulted" /\ handle'[x] = Nobody
      <4>1. UNCHANGED <<pc, target, crossed>> /\ Nobody \notin Incarnations
        BY <1>25 DEF Watch, Incarnations
      <4>2. \A j \in Incarnations : task'[j] = task[j] \/ (task[j] = "panicked" /\ task'[j] = "ended")
        BY <1>25 DEF Watch, Base, TypeOK
      <4>3. \A x \in Agents :
               \/ entry'[x] = entry[x] /\ handle'[x] = handle[x] /\ chan'[x] = chan[x]
               \/ entry'[x] = "faulted" /\ handle'[x] = Nobody
        <5>1. CASE entry[AgentOf(i)] = "live"
          BY <1>25, <5>1 DEF Watch, Base, TypeOK
        <5>2. CASE entry[AgentOf(i)] # "live"
          BY <1>25, <5>2 DEF Watch
        <5> QED BY <5>1, <5>2
      <4> QED BY <4>1, <4>2, <4>3
    <3>2. \A j \in Incarnations : Busy(j)' => Busy(j) /\ task'[j] = task[j]
      BY <3>1 DEF Busy
    <3>3. /\ Deliveries \subseteq Incarnations /\ Agents \subseteq Incarnations
          /\ \A e \in Deliveries : pc[e] # "idle" => target[e] \in Agents
      BY DEF Incarnations, Base, HandlerInv, DelivererInv
    <3>4. DeliverTask'
      BY <3>1, <3>2, <3>3 DEF BusyInv, BusyDeliver, DeliverTask
    <3>5. ASSUME NEW e \in Deliveries, target[e] \notin crossed PROVE DeliverAlone(e)'
      <4>1. DeliverAlone(e) /\ (Busy(e) => pc[e] # "idle") /\ (pc[e] \in Past => pc[e] # "idle")
        BY <3>5 DEF BusyInv, BusyDeliver, DeliverTask, Past
      <4>2. \A x \in Agents : entry'[x] = "live" => entry[x] = "live" /\ handle[x] \in Incarnations
        BY <3>1 DEF Base, TypeOK, HandlerInv, HolderInv
      <4>3. Busy(e)' /\ entry'[target[e]] = "live" =>
                \/ handle'[target[e]] = e
                \/ pc[e] \in Past /\ (task'[e] = "panicked" \/ chan'[target[e]] = e)
        BY <3>1, <3>2, <3>3, <4>1, <4>2 DEF DeliverAlone
      <4>4. pc[e] \in Past => ~Busy(target[e])'
        <5>1. pc[e] \in Past => target[e] \in Incarnations /\ ~Busy(target[e])
          BY <3>3, <4>1 DEF DeliverAlone
        <5> QED BY <3>1, <3>2, <5>1 DEF Busy
      <4>5. pc[e] \in Past /\ entry'[target[e]] = "live" => ~Busy(handle[target[e]])'
        <5>1. ASSUME pc[e] \in Past, entry'[target[e]] = "live" PROVE ~Busy(handle[target[e]])'
          <6>1. target[e] \in Agents /\ entry[target[e]] = "live"
            BY <3>1, <3>3, <4>1, <4>2, <5>1
          <6>2. handle'[target[e]] = handle[target[e]] /\ handle[target[e]] \in Incarnations
            BY <3>1, <4>2, <5>1, <6>1
          <6>3. ~Busy(handle[target[e]])
            BY <4>1, <5>1, <6>1 DEF DeliverAlone
          <6> QED BY <3>1, <3>2, <6>2, <6>3 DEF Busy
        <5> QED BY <5>1
      <4> QED BY <3>1, <4>3, <4>4, <4>5 DEF DeliverAlone, Busy
    <3> QED BY <3>1, <3>4, <3>5 DEF BusyDeliver
  <2>4. BusyBoot'
    <3> SUFFICES ASSUME booting', NEW j \in Incarnations, Busy(j)'
                 PROVE  j \in Agents /\ entry'[j] = "live"
      BY DEF BusyBoot
    <3>1. booting /\ i \in Agents /\ AgentOf(i) = i
      BY <1>25 DEF Watch, BusyInv, BusyBoot, Busy, AgentOf
    <3>2. j # i /\ Busy(j)
      BY <1>25 DEF Watch, Busy, Base, TypeOK
    <3>3. j \in Agents /\ entry[j] = "live"
      BY <3>1, <3>2 DEF BusyInv, BusyBoot
    <3>4. \A x \in Agents : x # i => entry'[x] = entry[x]
      BY <1>25, <3>1 DEF Watch, Base, TypeOK
    <3> QED BY <3>2, <3>3, <3>4
  <2>5. RunningHeld'
    BY <1>25
       DEF Watch, Base, TypeOK, Incarnations, HandlerInv, DelivererInv, BusyInv, OneBusy,
           RunningHeld, Busy, AgentOf
  <2> QED BY <2>1, <2>2, <2>3, <2>4, <2>5 DEF BusyInv
<1>26. ASSUME NEW i \in Incarnations, NEW how \in {"panicked", "ended"}, TaskDies(i, how)
      PROVE  BusyInv'
  BY <1>26, BusyFrame DEF TaskDies, Advance, Base, TypeOK, Incarnations, Registered
<1>27. ASSUME ProcessEnds
      PROVE  BusyInv'
  <2>1. OneBusy'
    BY <1>27 DEF ProcessEnds, OneBusy, Busy
  <2>2. BusySpawn'
    BY <1>27 DEF ProcessEnds, BusySpawn
  <2>3. BusyDeliver'
    BY <1>27 DEF ProcessEnds, Incarnations, BusyDeliver, DeliverTask, DeliverAlone, Busy, Past
  <2>4. BusyBoot'
    BY <1>27 DEF ProcessEnds, BusyBoot, Busy
  <2>5. RunningHeld'
    BY <1>27 DEF ProcessEnds, RunningHeld
  <2> QED BY <2>1, <2>2, <2>3, <2>4, <2>5 DEF BusyInv
<1>28. ASSUME BootDone
      PROVE  BusyInv'
  BY <1>28, BusyFrame DEF BootDone, Advance, Base, TypeOK, Incarnations, Registered
<1>29. ASSUME NEW a \in Agents, RestoreRefused(a)
      PROVE  BusyInv'
  BY <1>29, BusyFrame DEF RestoreRefused, Unreadable, Registered, Base, TypeOK
<1>30. ASSUME NEW a \in Agents, RestoreOrphan(a)
      PROVE  BusyInv'
  BY <1>30, BusyFrame DEF RestoreOrphan, RestoreFaulted, Pending, Registered
<1>31. ASSUME NEW a \in Agents, RestoreOne(a)
      PROVE  BusyInv'
  <2>1. OneBusy'
    BY <1>31 DEF RestoreOne, Restorable, BusyInv, OneBusy, BusyBoot, Busy, AgentOf
  <2>2. BusySpawn'
    BY <1>31 DEF RestoreOne, Base, TypeOK, BusyInv, BusySpawn, Busy
  <2>3. BusyDeliver'
    BY <1>31
       DEF RestoreOne, Restorable, Base, Incarnations, HandlerInv, BootInv, BusyInv,
           BusyDeliver, DeliverTask, DeliverAlone, BusyBoot, Busy, Past
  <2>4. BusyBoot'
    BY <1>31 DEF RestoreOne, Base, TypeOK, BusyInv, BusyBoot, Busy
  <2>5. RunningHeld'
    BY <1>31
       DEF RestoreOne, Restorable, Base, TypeOK, BusyInv, BusyBoot, RunningHeld, Busy, AgentOf
  <2> QED BY <2>1, <2>2, <2>3, <2>4, <2>5 DEF BusyInv
<1>32. ASSUME NEW a \in Agents, NEW est \in BOOLEAN, RestoreFails(a, est)
      PROVE  BusyInv'
  BY <1>32, BusyFrame DEF RestoreFails, RestoreFaulted, Restorable, Pending, Registered
<1> QED BY <1>1, <1>2, <1>3, <1>4, <1>5, <1>6, <1>7, <1>8, <1>9, <1>10, <1>11, <1>12, <1>13,
           <1>14, <1>15, <1>16, <1>17, <1>18, <1>19, <1>20, <1>21, <1>22, <1>23, <1>24, <1>25,
           <1>26, <1>27, <1>28, <1>29, <1>30, <1>31, <1>32
     DEF Next, SpawnStep, DeliverStep, RemoveStep, RestartStep, Restart, BootAborts

(***************************************************************************)
(* Workspaces, as long as nobody has asked for a full handoff.             *)
(***************************************************************************)

\* Who has, or is about to have, a running task and so holds its workspace.
Working(a) ==
    \/ pc[a] \in {"carved", "spawned"}
    \/ /\ entry[a] = "live"
       /\ \/ task[handle[a]] = "running"
          \/ \E d \in Deliveries :
                target[d] = a /\ (pc[d] = "locked" \/ (pc[d] = "spawned" /\ task[d] = "running"))

\* Until a full handoff, who works and was not crossed has its workspace.
WorkInv ==
    NoHeir => \A a \in Agents :
                 cfg[a].normal /\ Working(a) => lock[cfg[a].ws] = a \/ a \in crossed

\* An agent may lose its locks when it is no longer working.
LEMMA WorkFrame ==
    ASSUME WorkInv, UNCHANGED cfg, crossed \subseteq crossed', NEW a \in Agents, cfg[a].ws \in Dirs,
           \A x \in Agents : cfg[x].ws \in Dirs,
           NoHeir => lock' = ReleaseAll(lock, a), ~Working(a)' \/ a \in crossed',
           \A x \in Agents : x # a /\ Working(x)' => Working(x)
    PROVE  WorkInv'
<1>1. SUFFICES ASSUME NoHeir', NEW x \in Agents, cfg'[x].normal, Working(x)'
               PROVE  lock'[cfg'[x].ws] = x \/ x \in crossed'
  BY DEF WorkInv
<1>2. (x # a \/ x \in crossed') /\ NoHeir
  BY <1>1 DEF NoHeir
<1> QED BY <1>1, <1>2 DEF WorkInv, ReleaseAll

\* Each step keeps the workspaces with those who work in them.
LEMMA WorkNext == Base /\ BusyInv /\ CrossInv /\ WorkInv /\ [Next]_vars => WorkInv'
<1> SUFFICES ASSUME Base, BusyInv, CrossInv, WorkInv, [Next]_vars PROVE WorkInv'
  OBVIOUS
<1> USE WorkspacesAssumption, LifecycleAssumption
<1>1. CASE UNCHANGED vars
  BY <1>1 DEF vars, WorkInv, Working, NoHeir
<1>2. ASSUME NEW c \in Agents, NEW s \in Agents, NEW k \in Kinds, NEW r \in Roles, SpawnReserve(c, s, k, r)
      PROVE  WorkInv'
  BY <1>2 DEF SpawnReserve, Unborn, TreeInv, Advance, Base, WorkInv, Working, NoHeir
<1>3. ASSUME NEW c \in Agents, SpawnMakeDir(c)
      PROVE  WorkInv'
  BY <1>3 DEF SpawnMakeDir, Advance, WorkInv, Working, NoHeir
<1>4. ASSUME NEW c \in Agents, NEW written \in BOOLEAN, SpawnWriteMeta(c, written)
      PROVE  WorkInv'
  BY <1>4 DEF SpawnWriteMeta, Advance, Base, TypeOK, Incarnations, WorkInv, Working, NoHeir
<1>5. ASSUME NEW c \in Agents, SpawnChain(c)
      PROVE  WorkInv'
  BY <1>5 DEF SpawnChain, Advance, Base, TypeOK, Config, Incarnations, WorkInv, Working, NoHeir
<1>6. ASSUME NEW c \in Agents, SpawnCarve(c)
      PROVE  WorkInv'
  BY <1>6
     DEF SpawnCarve, Forward, Reverse, TryAcquire, Acquirable, Acquired, Advance, Base, TypeOK,
         Config, Incarnations, WorkInv, Working, NoHeir
<1>7. ASSUME NEW c \in Agents, SpawnTask(c)
      PROVE  WorkInv'
  BY <1>7 DEF SpawnTask, Advance, Base, HandlerInv, HolderInv, AgentOf, WorkInv, Working, NoHeir
<1>8. ASSUME NEW c \in Agents, NEW to \in {"none"} \cup OnDisk, SpawnRegister(c, to)
      PROVE  WorkInv'
  BY <1>8
     DEF SpawnRegister, Stop, Advance, Base, TypeOK, Incarnations, HandlerInv, HolderInv,
         WorkInv, Working, NoHeir
<1>9. ASSUME NEW c \in Agents, SpawnFails(c)
      PROVE  WorkInv'
  BY <1>9 DEF SpawnFails, Advance, WorkInv, Working, NoHeir
<1>10. ASSUME NEW c \in Agents, NEW to \in {"none"} \cup OnDisk, SpawnErase(c, to)
      PROVE  WorkInv'
  BY <1>10 DEF SpawnErase, Advance, WorkInv, Working, NoHeir
<1>11. ASSUME NEW c \in Agents, SpawnUnwind(c)
      PROVE  WorkInv'
  <2>1. \A x \in Agents : cfg[x].ws \in Dirs
    BY DEF Base, TypeOK, Config
  <2>2. UNCHANGED <<cfg, crossed>> /\ (NoHeir => lock' = ReleaseAll(lock, c))
    BY <1>11 DEF SpawnUnwind, Reverse, NoHeir
  <2>3. ~Working(c)' /\ \A x \in Agents : Working(x)' => Working(x)
    BY <1>11 DEF SpawnUnwind, Advance, Working, Base, HandlerInv, SpawnerInv
  <2> QED BY <2>1, <2>2, <2>3, WorkFrame
<1>12. ASSUME NEW c \in Agents, SpawnRefused(c)
      PROVE  WorkInv'
  BY <1>12 DEF SpawnRefused, Advance, WorkInv, Working, NoHeir
<1>13. ASSUME NEW d \in Deliveries, NEW a \in Agents, Probe(d, a)
      PROVE  WorkInv'
  BY <1>13 DEF Probe, Advance, WorkInv, Working, NoHeir
<1>14. ASSUME NEW d \in Deliveries, NEW ok \in BOOLEAN, Reserve(d, ok)
      PROVE  WorkInv'
  <2>1. \A x \in Agents : cfg[x].ws \in Dirs
    BY DEF Base, TypeOK, Config
  <2>2. /\ target[d] \in Agents /\ UNCHANGED <<cfg, entry, handle, target>> /\ entry[target[d]] = "live"
        /\ IsClosed(target[d]) /\ handle[target[d]] # Nobody /\ pc[target[d]] \in {"idle", "done"}
        /\ pc[d] = "slow" /\ d \in Incarnations
    BY <1>14 DEF Reserve, Base, HandlerInv, SpawnerInv, DelivererInv, HolderInv, Incarnations
  <2>3. \A x \in Agents : handle[x] # d
    BY <2>2 DEF BusyInv, BusyDeliver, DeliverTask
  <2>4. /\ \A i \in Incarnations : i # d => pc'[i] = pc[i] /\ (task'[i] = task[i] \/ task'[i] = "ended")
        /\ task'[handle[target[d]]] = "ended" /\ pc'[d] \in {"reserved", "done"}
    BY <1>14, <2>2, <2>3 DEF Reserve, Advance, Base, TypeOK
  <2>5. target[d] \in crossed \/
        \A e \in Deliveries :
           target[e] = target[d] => pc[e] # "locked" /\ ~(pc[e] = "spawned" /\ task[e] = "running")
    BY <2>2 DEF BusyInv, BusyDeliver, DeliverTask, DeliverAlone, Busy, IsClosed
  <2>6. crossed \subseteq crossed'
    BY <1>14 DEF Reserve
  <2>7. ~Working(target[d])' \/ target[d] \in crossed
    BY <2>2, <2>4, <2>5 DEF Working, Incarnations
  <2>8. \A x \in Agents : Working(x)' => Working(x)
    BY <2>2, <2>3, <2>4 DEF Working, Incarnations, Base, TypeOK, HandlerInv, HolderInv
  <2> QED BY <1>14, <2>1, <2>2, <2>6, <2>7, <2>8, WorkFrame DEF Reserve
<1>15. ASSUME NEW d \in Deliveries, NEW ok \in BOOLEAN, ReactSpawn(d, ok)
      PROVE  WorkInv'
  BY <1>15 DEF ReactSpawn, Advance, BusyInv, BusyDeliver, DeliverTask, WorkInv, Working, NoHeir
<1>16. ASSUME NEW d \in Deliveries, ReserveSkipped(d)
      PROVE  WorkInv'
  BY <1>16 DEF ReserveSkipped, Advance, WorkInv, Working, NoHeir
<1>17. ASSUME NEW d \in Deliveries, ReactChain(d)
      PROVE  WorkInv'
  BY <1>17 DEF ReactChain, Advance, WorkInv, Working, NoHeir
<1>18. ASSUME NEW d \in Deliveries, ReactAcquire(d)
      PROVE  WorkInv'
  BY <1>18
     DEF ReactAcquire, Acquired, TryAcquire, Acquirable, Advance, Base, TypeOK, Config,
         Incarnations, WorkInv, Working, NoHeir
<1>19. ASSUME NEW d \in Deliveries, ReactClose(d)
      PROVE  WorkInv'
  BY <1>19 DEF ReactClose, Advance, WorkInv, Working, NoHeir
<1>20. ASSUME NEW d \in Deliveries, ReactUnlock(d)
      PROVE  WorkInv'
  <2>1. \A x \in Agents : cfg[x].ws \in Dirs
    BY DEF Base, TypeOK, Config
  <2>2. /\ target[d] \in Agents /\ UNCHANGED <<cfg, entry, handle, target, task, crossed>> /\ pc[d] = "unlocking"
        /\ pc[target[d]] \in {"idle", "done"} /\ d \notin Agents
        /\ pc'[d] = "done" /\ \A i \in Incarnations : i # d => pc'[i] = pc[i]
    BY <1>20
       DEF ReactUnlock, Advance, Base, TypeOK, HandlerInv, SpawnerInv, DelivererInv,
           Incarnations
  <2>3. \A x \in Agents : Working(x)' => Working(x)
    BY <2>2 DEF Working, Incarnations
  <2>4. target[d] \in crossed \/ (entry[target[d]] = "live" => task[handle[target[d]]] # "running")
    BY <2>2 DEF BusyInv, BusyDeliver, DeliverAlone, Busy, Past
  <2>5. target[d] \in crossed \/
        \A e \in Deliveries : target[e] = target[d] => pc'[e] \notin {"locked", "spawned"}
    BY <2>2 DEF CrossInv, Past, Incarnations
  <2>6. ~Working(target[d])' \/ target[d] \in crossed
    BY <2>2, <2>4, <2>5 DEF Working, Incarnations
  <2>7. CASE cfg[target[d]].normal
    BY <1>20, <2>1, <2>2, <2>3, <2>6, <2>7, WorkFrame DEF ReactUnlock
  <2>8. CASE ~cfg[target[d]].normal
    BY <1>20, <2>2, <2>3, <2>8 DEF ReactUnlock, WorkInv, NoHeir
  <2> QED BY <2>7, <2>8
<1>21. ASSUME NEW d \in Deliveries, NEW to \in {"none"} \cup OnDisk, ReactInstall(d, to)
      PROVE  WorkInv'
  <2>1. \A x \in Agents : cfg[x].ws \in Dirs
    BY DEF Base, TypeOK, Config
  <2>2. /\ target[d] \in Agents /\ UNCHANGED <<cfg, entry, target, crossed>> /\ pc[d] = "spawned"
        /\ pc[target[d]] \in {"idle", "done"} /\ d \notin Agents
        /\ pc'[d] = "done" /\ \A i \in Incarnations : i # d => pc'[i] = pc[i]
    BY <1>21
       DEF ReactInstall, Advance, Base, TypeOK, HandlerInv, SpawnerInv, DelivererInv,
           Incarnations
  <2>3. CASE entry[target[d]] = "live"
    <3>1. UNCHANGED <<task, lock>> /\ handle' = [handle EXCEPT ![target[d]] = d]
      BY <1>21, <2>3 DEF ReactInstall
    <3>2. \A x \in Agents : x # target[d] => handle'[x] = handle[x]
      BY <3>1 DEF Base, TypeOK
    <3>3. handle'[target[d]] = d
      BY <2>2, <3>1 DEF Base, TypeOK
    <3>4. \A x \in Agents : x # target[d] /\ Working(x)' => Working(x)
      BY <2>2, <3>1, <3>2 DEF Working, Incarnations
    <3>5. Working(target[d])' => Working(target[d])
      BY <2>2, <2>3, <3>1, <3>3 DEF Working, Incarnations
    <3> QED BY <2>2, <3>1, <3>4, <3>5 DEF WorkInv, NoHeir
  <2>4. CASE entry[target[d]] # "live"
    <3>1. UNCHANGED handle /\ task' = Stop(d) /\ lock' = ReleaseAll(lock, target[d])
      BY <1>21, <2>4 DEF ReactInstall
    <3>2. \A i \in Incarnations : task'[i] = "running" => task[i] = "running"
      BY <3>1 DEF Stop
    <3>3. \A x \in Agents : entry[x] = "live" => handle[x] \in Incarnations
      BY DEF Base, TypeOK, HandlerInv, HolderInv
    <3>4. \A x \in Agents : Working(x)' => Working(x)
      BY <2>2, <3>1, <3>2, <3>3 DEF Working, Incarnations
    <3>5. ~Working(target[d])'
      BY <2>2, <2>4 DEF Working, Incarnations
    <3> QED BY <2>1, <2>2, <3>1, <3>4, <3>5, WorkFrame
  <2> QED BY <2>3, <2>4
<1>22. ASSUME NEW a \in Agents, RemoveUnregister(a)
      PROVE  WorkInv'
  BY <1>22 DEF RemoveUnregister, WorkInv, Working, NoHeir
<1>23. ASSUME NEW a \in Agents, TearRelease(a)
      PROVE  WorkInv'
  <2>1. \A x \in Agents : cfg[x].ws \in Dirs
    BY DEF Base, TypeOK, Config
  <2>2. UNCHANGED <<cfg, crossed>> /\ (NoHeir => lock' = ReleaseAll(lock, a))
    BY <1>23 DEF TearRelease, Reverse, NoHeir
  <2>3. ~Working(a)' /\ \A x \in Agents : Working(x)' => Working(x)
    BY <1>23 DEF TearRelease, Working, Base, HandlerInv, SpawnerInv
  <2> QED BY <2>1, <2>2, <2>3, WorkFrame
<1>24. ASSUME NEW a \in Agents, NEW to \in {"archived"} \cup OnDisk, TearArchive(a, to)
      PROVE  WorkInv'
  BY <1>24
     DEF TearArchive, Stop, Base, HandlerInv, SpawnerInv, HolderInv, BusyInv, BusySpawn,
         WorkInv, Working, NoHeir
<1>25. ASSUME NEW i \in Incarnations, Watch(i)
      PROVE  WorkInv'
  <2>1. \A x \in Agents : cfg[x].ws \in Dirs
    BY DEF Base, TypeOK, Config
  <2>2. AgentOf(i) \in Agents /\ UNCHANGED <<cfg, pc, target, crossed>>
    BY <1>25 DEF Watch, AgentOf, Base, HandlerInv, DelivererInv, Incarnations
  <2>3. \A j \in Incarnations : task'[j] = "running" => task[j] = "running"
    BY <1>25 DEF Watch, Base, TypeOK
  <2>4. \A x \in Agents : entry'[x] = "live" => entry[x] = "live" /\ handle'[x] = handle[x] /\ handle[x] \in Incarnations
    BY <1>25 DEF Watch, Base, TypeOK, HandlerInv, HolderInv
  <2>5. \A x \in Agents : Working(x)' => Working(x)
    BY <2>2, <2>3, <2>4 DEF Working, Incarnations
  <2>6. CASE entry[AgentOf(i)] = "live"
    <3>1. PICK a \in Agents : a = AgentOf(i)
      BY <2>2
    <3>2. lock' = ReleaseAll(lock, a) /\ entry'[a] = "faulted" /\ pc[a] \in {"idle", "done"}
      BY <1>25, <2>6, <3>1 DEF Watch, Base, TypeOK, HandlerInv, SpawnerInv
    <3>3. ~Working(a)'
      BY <2>2, <3>2 DEF Working
    <3> QED BY <2>1, <2>2, <2>5, <3>2, <3>3, WorkFrame
  <2>7. CASE entry[AgentOf(i)] # "live"
    <3>1. lock' = lock
      BY <1>25, <2>7 DEF Watch
    <3> QED BY <2>2, <2>5, <3>1 DEF WorkInv, NoHeir
  <2> QED BY <2>6, <2>7
<1>26. ASSUME NEW i \in Incarnations, NEW how \in {"panicked", "ended"}, TaskDies(i, how)
      PROVE  WorkInv'
  BY <1>26 DEF TaskDies, WorkInv, Working, NoHeir
<1>27. ASSUME ProcessEnds
      PROVE  WorkInv'
  BY <1>27 DEF ProcessEnds, Incarnations, WorkInv, Working
<1>28. ASSUME BootDone
      PROVE  WorkInv'
  BY <1>28 DEF BootDone, WorkInv, Working, NoHeir
<1>29. ASSUME NEW a \in Agents, RestoreRefused(a)
      PROVE  WorkInv'
  BY <1>29 DEF RestoreRefused, Base, TypeOK, WorkInv, Working, NoHeir
<1>30. ASSUME NEW a \in Agents, RestoreOrphan(a)
      PROVE  WorkInv'
  BY <1>30 DEF RestoreOrphan, RestoreFaulted, WorkInv, Working, NoHeir
<1>31. ASSUME NEW a \in Agents, RestoreOne(a)
      PROVE  WorkInv'
  BY <1>31
     DEF RestoreOne, Establishes, Forward, Acquired, TryAcquire, Acquirable, Base, TypeOK,
         Config, HandlerInv, HolderInv, AgentOf, WorkInv, Working, NoHeir
<1>32. ASSUME NEW a \in Agents, NEW est \in BOOLEAN, RestoreFails(a, est)
      PROVE  WorkInv'
  <2>1. UNCHANGED <<cfg, pc, target, task, handle, crossed>> /\ entry' = [entry EXCEPT ![a] = "faulted"]
    BY <1>32 DEF RestoreFails, RestoreFaulted
  <2>2. pc[a] \in {"idle", "done"}
    BY <1>32 DEF RestoreFails, Restorable, Base, HandlerInv, BootInv, Incarnations
  <2>3. ~Working(a)' /\ \A x \in Agents : x # a /\ Working(x)' => Working(x)
    BY <2>1, <2>2 DEF Working, Base, TypeOK
  <2>4. cfg[a].ws \in Dirs /\ lock \in [Dirs -> Agents \cup {Nobody}]
    BY DEF Base, TypeOK, Config
  <2>5. NoHeir /\ est /\ cfg[a].normal => lock[cfg[a].ws] \in {a, Nobody}
    BY <1>32 DEF RestoreFails, Establishes, TryAcquire, Acquirable, Forward, NoHeir
  <2>6. NoHeir => lock' = lock \/ (est /\ lock' = ReleaseAll(Acquired(lock, a), a))
    BY <1>32 DEF RestoreFails, Forward, Reverse, NoHeir
  <2>7. NoHeir => \A d \in Dirs, x \in Agents : x # a /\ lock[d] = x => lock'[d] = x
    BY <2>4, <2>5, <2>6 DEF ReleaseAll, Acquired
  <2>8. \A x \in Agents : cfg[x].ws \in Dirs
    BY DEF Base, TypeOK, Config
  <2> QED BY <2>1, <2>3, <2>7, <2>8 DEF WorkInv, NoHeir
<1> QED BY <1>1, <1>2, <1>3, <1>4, <1>5, <1>6, <1>7, <1>8, <1>9, <1>10, <1>11, <1>12, <1>13,
           <1>14, <1>15, <1>16, <1>17, <1>18, <1>19, <1>20, <1>21, <1>22, <1>23, <1>24, <1>25,
           <1>26, <1>27, <1>28, <1>29, <1>30, <1>31, <1>32
     DEF Next, SpawnStep, DeliverStep, RemoveStep, RestartStep, Restart, BootAborts

\* Tasks and workspaces are in order, except those of agents that deliveries crossed at.
LEMMA TasksInv == Spec => [](CrossInv /\ BusyInv /\ WorkInv)
<1>1. Init => CrossInv /\ BusyInv /\ WorkInv
  BY WorkspacesAssumption, LifecycleAssumption
     DEF Init, CrossInv, BusyInv, OneBusy, BusySpawn, BusyDeliver, DeliverTask, DeliverAlone,
         BusyBoot, RunningHeld, Busy, Past, WorkInv, Working, Incarnations
<1>2. Base /\ CrossInv /\ BusyInv /\ WorkInv /\ [Next]_vars => (CrossInv /\ BusyInv /\ WorkInv)'
  BY CrossNext, BusyNext, WorkNext
<1> QED BY <1>1, <1>2, CoreInv, PTL DEF Spec

\* No task runs behind a faulted or removed entry: it belongs to a live one, or to a handler
\* that will install or stop it, or two deliveries to the agent crossed (the watcher of one
\* task can then fault the entry of the next).
THEOREM NoZombieCorrect == Spec => []NoZombieTask
<1>1. BusyInv => NoZombieTask
  BY DEF BusyInv, RunningHeld, NoZombieTask
<1> QED BY <1>1, TasksInv, PTL

\* As long as nobody has asked for a full handoff, a running agent holds its workspace,
\* unless two deliveries to it crossed (one that backs out then releases the locks the
\* other has just taken).
THEOREM WorkspaceCorrect == Spec => []WorkspaceHeldIfCarved
<1>1. WorkInv => WorkspaceHeldIfCarved
  BY DEF WorkInv, Working, WorkspaceHeldIfCarved, WorkspaceHeld
<1> QED BY <1>1, TasksInv, PTL

(***************************************************************************)
(* Deliveries that cross.                                                  *)
(***************************************************************************)

\* An incarnation with a task.
Active(i) == task[i] \in {"held", "running"}

\* Another delivery to d's agent has been past its recheck of the channel.
Lost(d) ==
    \E e \in Deliveries \ {d} : target[e] = target[d] /\ pc[e] \notin {"idle", "slow"}

\* An agent has one task at most that has not panicked, until a third delivery.
OneActive ==
    \A i, j \in Incarnations :
        Active(i) /\ Active(j) /\ AgentOf(i) = AgentOf(j) => i = j \/ Thrice(AgentOf(i))

\* A Live entry holds the active task that was spawned or restored with it.
ActiveSpawn ==
    \A a \in Agents : Active(a) => pc[a] = "spawned" \/ handle[a] = a \/ entry[a] # "live"

\* As BusyDeliver, but a delivery may lose its channel, or leave a task behind, to
\* another that has reserved the agent too: who starts another task is a third.
ActiveDeliver ==
    \A d \in Deliveries :
        /\ Active(d) => pc[d] \notin {"idle", "slow"}
        /\ Active(d) /\ entry[target[d]] = "live" =>
              \/ handle[target[d]] = d \/ chan[target[d]] = d
              \/ Lost(d)
        /\ pc[d] \in {"reserved", "chained", "locked"} => task[d] = "held"
        /\ pc[d] \in Past => ~Active(target[d])
        /\ \A a \in Agents : handle[a] = d => pc[d] = "done"

\* Restoration starts from no task at all, and nothing panics before it is over.
ActiveBoot ==
    booting => \A i \in Incarnations :
        task[i] # "panicked" /\ (Active(i) => i \in Agents /\ entry[i] = "live")

\* The invariant of tasks when deliveries cross.
ActiveInv == OneActive /\ ActiveSpawn /\ ActiveDeliver /\ ActiveBoot

\* Steps that start no task, register nobody and move no delivery.
LEMMA ActiveFrame ==
    ASSUME Base, ActiveInv, UNCHANGED target, booting' => booting,
           \A a \in Agents : /\ pc[a] = "spawned" => pc'[a] = "spawned"
                             /\ entry'[a] = "live" => /\ entry[a] = "live"
                                                       /\ handle'[a] = handle[a] /\ chan'[a] = chan[a]
                             /\ handle'[a] \in {handle[a], Nobody},
           booting => \A a \in Agents : entry[a] = "live" => entry'[a] = "live",
           \A d \in Deliveries : pc'[d] = pc[d],
           \A i \in Incarnations :
              \/ task'[i] = task[i]
              \/ task[i] \in {"running", "panicked"} /\ task'[i] \in {"panicked", "ended"} /\ ~booting
    PROVE  ActiveInv'
<1> USE WorkspacesAssumption, LifecycleAssumption
<1>0. /\ \A i \in Incarnations : AgentOf(i)' = AgentOf(i) /\ (Active(i)' => Active(i))
      /\ Nobody \notin Incarnations /\ Agents \subseteq Incarnations /\ Deliveries \subseteq Incarnations
      /\ \A d \in Deliveries : pc[d] # "idle" => target[d] \in Agents
  BY DEF AgentOf, Active, Incarnations, Base, HandlerInv, DelivererInv
<1>1. OneActive'
  BY <1>0 DEF ActiveInv, OneActive, Thrice
<1>2. ActiveSpawn'
  BY <1>0 DEF ActiveInv, ActiveSpawn
<1>3. ActiveDeliver'
  <2> SUFFICES ASSUME NEW d \in Deliveries
               PROVE  /\ Active(d)' => pc[d] \notin {"idle", "slow"}
                      /\ Active(d)' /\ entry'[target[d]] = "live" =>
                            \/ handle'[target[d]] = d \/ chan'[target[d]] = d
                            \/ Lost(d)
                      /\ pc[d] \in {"reserved", "chained", "locked"} => task'[d] = "held"
                      /\ pc[d] \in Past => ~Active(target[d])'
                      /\ \A a \in Agents : handle'[a] = d => pc[d] = "done"
    BY DEF ActiveDeliver, Active, Past, Lost
  <2> QED BY <1>0 DEF ActiveInv, ActiveDeliver, Past
<1>4. ActiveBoot'
  BY <1>0 DEF ActiveInv, ActiveBoot
<1> QED BY <1>1, <1>2, <1>3, <1>4 DEF ActiveInv

\* Each step keeps the tasks in order: whoever closes the channel another has reserved,
\* or overwrites it, is the second delivery, and a task beside that one takes a third.
LEMMA ActiveNext == Base /\ ActiveInv /\ [Next]_vars => ActiveInv'
<1> SUFFICES ASSUME Base, ActiveInv, [Next]_vars PROVE ActiveInv'
  OBVIOUS
<1> USE WorkspacesAssumption, LifecycleAssumption
<1>1. CASE UNCHANGED vars
  BY <1>1
     DEF vars, ActiveInv, OneActive, Thrice, ActiveSpawn, ActiveDeliver, ActiveBoot, Lost,
         Active, AgentOf
<1>2. ASSUME NEW c \in Agents, NEW s \in Agents, NEW k \in Kinds, NEW r \in Roles, SpawnReserve(c, s, k, r)
      PROVE  ActiveInv'
  BY <1>2, ActiveFrame
     DEF SpawnReserve, Serving, Advance, Base, TypeOK, Incarnations, Registered
<1>3. ASSUME NEW c \in Agents, SpawnMakeDir(c)
      PROVE  ActiveInv'
  BY <1>3, ActiveFrame DEF SpawnMakeDir, Advance, Base, TypeOK, Incarnations, Registered
<1>4. ASSUME NEW c \in Agents, NEW written \in BOOLEAN, SpawnWriteMeta(c, written)
      PROVE  ActiveInv'
  BY <1>4, ActiveFrame DEF SpawnWriteMeta, Advance, Base, TypeOK, Incarnations, Registered
<1>5. ASSUME NEW c \in Agents, SpawnChain(c)
      PROVE  ActiveInv'
  BY <1>5, ActiveFrame DEF SpawnChain, Advance, Base, TypeOK, Incarnations, Registered
<1>6. ASSUME NEW c \in Agents, SpawnCarve(c)
      PROVE  ActiveInv'
  BY <1>6, ActiveFrame DEF SpawnCarve, Advance, Base, TypeOK, Incarnations, Registered
<1>7. ASSUME NEW c \in Agents, SpawnTask(c)
      PROVE  ActiveInv'
  <2>1. OneActive'
    BY <1>7
       DEF SpawnTask, Base, Incarnations, HandlerInv, SpawnerInv, DelivererInv, HolderInv,
           BootInv, ActiveInv, OneActive, Thrice, ActiveSpawn, ActiveBoot, Lost, Active, AgentOf,
           Past
  <2>2. ActiveSpawn'
    BY <1>7 DEF SpawnTask, Advance, Base, TypeOK, ActiveInv, ActiveSpawn, Active
  <2>3. ActiveDeliver'
    <3>1. /\ UNCHANGED <<entry, handle, chan, target>> /\ c \notin Deliveries /\ entry[c] = "none"
          /\ \A i \in Incarnations : i # c => task'[i] = task[i] /\ pc'[i] = pc[i]
          /\ \A d \in Deliveries : target[d] # c
      BY <1>7 DEF SpawnTask, Advance, Base, TypeOK, Incarnations, HandlerInv, SpawnerInv
    <3>2. \A d \in Deliveries : pc[d] # "idle" => target[d] \in Agents
      BY DEF Base, HandlerInv, DelivererInv
    <3>3. ActiveDeliver
      BY DEF ActiveInv
    <3> QED BY <3>1, <3>2, <3>3 DEF ActiveDeliver, Lost, Active, Past, Incarnations
  <2>4. ActiveBoot'
    BY <1>7 DEF SpawnTask, Base, HandlerInv, BootInv, Incarnations, ActiveBoot
  <2> QED BY <2>1, <2>2, <2>3, <2>4 DEF ActiveInv
<1>8. ASSUME NEW c \in Agents, NEW to \in {"none"} \cup OnDisk, SpawnRegister(c, to)
      PROVE  ActiveInv'
  <2>1. OneActive'
    BY <1>8 DEF SpawnRegister, Stop, Base, TypeOK, ActiveInv, OneActive, Thrice, Active, AgentOf
  <2>2. ActiveSpawn'
    BY <1>8
       DEF SpawnRegister, Stop, Advance, Base, TypeOK, Incarnations, ActiveInv, ActiveSpawn,
           Active, AgentOf
  <2>3. ActiveDeliver'
    <3>1. /\ UNCHANGED target /\ c \notin Deliveries /\ entry[c] = "none"
          /\ \A d \in Deliveries : task'[d] = task[d] /\ pc'[d] = pc[d] /\ target[d] # c
          /\ \A a \in Agents \ {c} : /\ entry'[a] = entry[a] /\ handle'[a] = handle[a]
                                    /\ chan'[a] = chan[a] /\ task'[a] = task[a]
          /\ handle'[c] \in {c, handle[c]}
      BY <1>8 DEF SpawnRegister, Stop, Advance, Base, TypeOK, Incarnations, HandlerInv, SpawnerInv
    <3>2. \A d \in Deliveries : pc[d] # "idle" => target[d] \in Agents
      BY DEF Base, HandlerInv, DelivererInv
    <3>3. ActiveDeliver
      BY DEF ActiveInv
    <3>4. \A d \in Deliveries : Lost(d)' <=> Lost(d)
      BY <3>1 DEF Lost
    <3> QED BY <3>1, <3>2, <3>3, <3>4 DEF ActiveDeliver, Active, Past
  <2>4. ActiveBoot'
    BY <1>8 DEF SpawnRegister, Base, Incarnations, HandlerInv, BootInv, ActiveBoot
  <2> QED BY <2>1, <2>2, <2>3, <2>4 DEF ActiveInv
<1>9. ASSUME NEW c \in Agents, SpawnFails(c)
      PROVE  ActiveInv'
  BY <1>9, ActiveFrame DEF SpawnFails, Advance, Base, TypeOK, Incarnations, Registered
<1>10. ASSUME NEW c \in Agents, NEW to \in {"none"} \cup OnDisk, SpawnErase(c, to)
      PROVE  ActiveInv'
  BY <1>10, ActiveFrame DEF SpawnErase, Advance, Base, TypeOK, Incarnations, Registered
<1>11. ASSUME NEW c \in Agents, SpawnUnwind(c)
      PROVE  ActiveInv'
  BY <1>11, ActiveFrame DEF SpawnUnwind, Advance, Base, TypeOK, Incarnations, Registered
<1>12. ASSUME NEW c \in Agents, SpawnRefused(c)
      PROVE  ActiveInv'
  BY <1>12, ActiveFrame DEF SpawnRefused, Advance, Base, TypeOK, Incarnations, Registered
<1>13. ASSUME NEW d \in Deliveries, NEW a \in Agents, Probe(d, a)
      PROVE  ActiveInv'
  <2>1. OneActive'
    <3>1. /\ pc[d] = "idle" /\ target[d] = Nobody /\ ~Active(d) /\ UNCHANGED task
          /\ target \in [Deliveries -> Agents \cup {Nobody}]
          /\ \A i \in Incarnations : Active(i) => AgentOf(i) \in Agents
      BY <1>13 DEF Probe, Base, TypeOK, HandlerInv, DelivererInv, Active, AgentOf, Incarnations
    <3>2. \A i \in Incarnations : /\ Active(i)' <=> Active(i)
                                 /\ Active(i) => AgentOf(i)' = AgentOf(i)
      BY <1>13, <3>1 DEF Probe, Active, AgentOf, Incarnations
    <3>3. \A b \in Agents : Thrice(b) => Thrice(b)'
      BY <1>13, <3>1, WorkspacesAssumption DEF Probe, Thrice
    <3>4. ASSUME NEW i \in Incarnations, NEW j \in Incarnations,
                 Active(i)', Active(j)', AgentOf(i)' = AgentOf(j)'
          PROVE  i = j \/ Thrice(AgentOf(i))'
      <4>1. /\ Active(i) /\ Active(j) /\ AgentOf(i) = AgentOf(j)
            /\ AgentOf(i)' = AgentOf(i) /\ AgentOf(i) \in Agents
        BY <3>1, <3>2, <3>4 DEF Active, AgentOf
      <4>2. i = j \/ Thrice(AgentOf(i))
        BY <4>1 DEF ActiveInv, OneActive
      <4> QED BY <3>3, <4>1, <4>2 DEF Thrice
    <3> QED BY <3>4 DEF OneActive
  <2>2. ActiveSpawn'
    BY <1>13 DEF Probe, Advance, ActiveInv, ActiveSpawn, Active
  <2>3. ActiveDeliver'
    BY <1>13 DEF Probe, Advance, ActiveInv, ActiveDeliver, Lost, Active, Past
  <2>4. ActiveBoot'
    BY <1>13 DEF Probe, ActiveInv, ActiveBoot, Active
  <2> QED BY <2>1, <2>2, <2>3, <2>4 DEF ActiveInv
<1>14. ASSUME NEW d \in Deliveries, NEW ok \in BOOLEAN, Reserve(d, ok)
      PROVE  ActiveInv'
  <2>1. OneActive'
    <3>1. /\ pc[d] = "slow" /\ target[d] \in Agents /\ entry[target[d]] = "live"
          /\ IsClosed(target[d]) /\ UNCHANGED target
          /\ d \in Incarnations /\ d \notin Agents /\ ~Active(d)
          /\ \A i \in Incarnations \ {d} : Active(i)' => Active(i) /\ i # handle[target[d]]
      BY <1>14
         DEF Reserve, Base, TypeOK, Incarnations, HandlerInv, DelivererInv, ActiveInv, ActiveDeliver,
             Active
    <3>2. \A i \in Incarnations : AgentOf(i)' = AgentOf(i) /\ (Thrice(AgentOf(i)) => Thrice(AgentOf(i))')
      BY <3>1 DEF AgentOf, Thrice
    <3>3. ASSUME NEW i \in Incarnations \ {d}, Active(i)', AgentOf(i) = target[d]
          PROVE  Thrice(target[d])
      <4>1. Active(i) /\ i # handle[target[d]] /\ i # chan[target[d]]
        BY <3>1, <3>3 DEF IsClosed, Active, Incarnations
      <4>2. i \in Deliveries /\ target[i] = target[d] /\ pc[i] \notin {"idle", "slow"}
        <5>1. CASE i \in Agents
          BY <3>1, <3>3, <4>1, <5>1
             DEF AgentOf, ActiveInv, ActiveSpawn, Base, HandlerInv, SpawnerInv
        <5> QED BY <3>3, <4>1, <5>1 DEF AgentOf, Incarnations, ActiveInv, ActiveDeliver
      <4>3. Lost(i)
        BY <3>1, <4>1, <4>2 DEF ActiveInv, ActiveDeliver
      <4> QED BY <3>1, <4>2, <4>3 DEF Lost, Thrice
    <3>4. ASSUME NEW i \in Incarnations, NEW j \in Incarnations, i # j,
                 Active(i)', Active(j)', AgentOf(i) = AgentOf(j)
          PROVE  Thrice(AgentOf(i))
      <4>1. AgentOf(d) = target[d]
        BY <3>1 DEF AgentOf
      <4>2. CASE i # d /\ j # d
        BY <3>1, <3>4, <4>2 DEF ActiveInv, OneActive
      <4> QED BY <3>3, <3>4, <4>1, <4>2
    <3> QED BY <3>2, <3>4 DEF OneActive
  <2>2. ActiveSpawn'
    BY <1>14 DEF Reserve, Advance, Base, TypeOK, Incarnations, ActiveInv, ActiveSpawn, Active
  <2>3. ActiveDeliver'
    <3>1. /\ pc[d] = "slow" /\ target[d] \in Agents /\ IsClosed(target[d])
          /\ UNCHANGED <<entry, handle, target>> /\ entry[target[d]] = "live"
          /\ pc'[d] \in {"reserved", "done"} /\ (pc'[d] = "reserved" => task'[d] = "held")
          /\ (pc'[d] = "done" => ~Active(d)')
          /\ chan'[target[d]] = d
          /\ \A a \in Agents \ {target[d]} : chan'[a] = chan[a]
          /\ \A e \in Deliveries \ {d} : pc'[e] = pc[e]
          /\ \A i \in Incarnations \ {d} :
                /\ Active(i)' => Active(i) /\ i # handle[target[d]]
                /\ i # handle[target[d]] => task'[i] = task[i]
          /\ Nobody \notin Incarnations /\ Agents \subseteq Incarnations /\ Deliveries \subseteq Incarnations
          /\ Agents \cap Deliveries = {}
      BY <1>14
         DEF Reserve, Advance, Base, TypeOK, Incarnations, HandlerInv, DelivererInv, Active
    <3>2. \A e \in Deliveries : pc[e] # "idle" => target[e] \in Agents
      BY DEF Base, HandlerInv, DelivererInv
    <3>3. ActiveDeliver /\ HolderInv
      BY DEF ActiveInv, Base, HandlerInv
    <3>4. ASSUME NEW e \in Deliveries \ {d}, Lost(e) \/ target[e] = target[d] PROVE Lost(e)'
      BY <3>1, <3>4 DEF Lost
    <3>5. ASSUME NEW e \in Deliveries, Active(e)', entry[target[e]] = "live"
          PROVE  handle[target[e]] = e \/ chan'[target[e]] = e \/ Lost(e)'
      BY <3>1, <3>2, <3>3, <3>4, <3>5 DEF ActiveDeliver
    <3>6. ASSUME NEW e \in Deliveries, pc'[e] \in Past PROVE ~Active(target[e])'
      <4>1. CASE e = d
        <5>1. target[d] # handle[target[d]] => ~Active(target[d])
          BY <3>1 DEF ActiveInv, ActiveSpawn, Base, HandlerInv, SpawnerInv
        <5> QED BY <3>1, <4>1, <5>1
      <4>2. CASE e # d
        BY <3>1, <3>2, <3>3, <3>6, <4>2 DEF ActiveDeliver, Past
      <4> QED BY <4>1, <4>2
    <3>7. ASSUME NEW e \in Deliveries, pc'[e] \in {"reserved", "chained", "locked"}
          PROVE  task'[e] = "held"
      BY <3>1, <3>3, <3>7 DEF ActiveDeliver
    <3>8. ASSUME NEW e \in Deliveries
          PROVE  /\ Active(e)' => pc'[e] \notin {"idle", "slow"}
                 /\ \A a \in Agents : handle[a] = e => pc'[e] = "done"
      BY <3>1, <3>3 DEF ActiveDeliver
    <3> QED BY <3>1, <3>5, <3>6, <3>7, <3>8 DEF ActiveDeliver, Past
  <2>4. ActiveBoot'
    BY <1>14 DEF Reserve, Base, Incarnations, HandlerInv, BootInv, ActiveBoot
  <2> QED BY <2>1, <2>2, <2>3, <2>4 DEF ActiveInv
<1>15. ASSUME NEW d \in Deliveries, NEW ok \in BOOLEAN, ReactSpawn(d, ok)
      PROVE  ActiveInv'
  <2>1. OneActive'
    BY <1>15 DEF ReactSpawn, ActiveInv, OneActive, Thrice, ActiveDeliver, Active, AgentOf
  <2>2. ActiveSpawn'
    BY <1>15 DEF ReactSpawn, Advance, ActiveInv, ActiveSpawn, Active
  <2>3. ActiveDeliver'
    BY <1>15
       DEF ReactSpawn, Advance, Base, TypeOK, Incarnations, HandlerInv, DelivererInv, ActiveInv,
           ActiveDeliver, Lost, Active, AgentOf, Past
  <2>4. ActiveBoot'
    BY <1>15 DEF ReactSpawn, Base, Incarnations, HandlerInv, BootInv, ActiveBoot
  <2> QED BY <2>1, <2>2, <2>3, <2>4 DEF ActiveInv
<1>16. ASSUME NEW d \in Deliveries, ReserveSkipped(d)
      PROVE  ActiveInv'
  <2>1. OneActive'
    BY <1>16 DEF ReserveSkipped, ActiveInv, OneActive, Thrice, Active, AgentOf
  <2>2. ActiveSpawn'
    BY <1>16 DEF ReserveSkipped, Advance, ActiveInv, ActiveSpawn, Active
  <2>3. ActiveDeliver'
    BY <1>16 DEF ReserveSkipped, Advance, ActiveInv, ActiveDeliver, Lost, Active, Past
  <2>4. ActiveBoot'
    BY <1>16 DEF ReserveSkipped, Base, Incarnations, HandlerInv, BootInv, ActiveBoot
  <2> QED BY <2>1, <2>2, <2>3, <2>4 DEF ActiveInv
<1>17. ASSUME NEW d \in Deliveries, ReactChain(d)
      PROVE  ActiveInv'
  <2>1. OneActive'
    BY <1>17 DEF ReactChain, ActiveInv, OneActive, Thrice, Active, AgentOf
  <2>2. ActiveSpawn'
    BY <1>17 DEF ReactChain, Advance, ActiveInv, ActiveSpawn, Active
  <2>3. ActiveDeliver'
    BY <1>17
       DEF ReactChain, Advance, Base, Incarnations, HandlerInv, DelivererInv, ActiveInv,
           ActiveDeliver, Lost, Active, AgentOf, Past
  <2>4. ActiveBoot'
    BY <1>17 DEF ReactChain, Base, Incarnations, HandlerInv, BootInv, ActiveBoot
  <2> QED BY <2>1, <2>2, <2>3, <2>4 DEF ActiveInv
<1>18. ASSUME NEW d \in Deliveries, ReactAcquire(d)
      PROVE  ActiveInv'
  <2>1. OneActive'
    BY <1>18 DEF ReactAcquire, ActiveInv, OneActive, Thrice, Active, AgentOf
  <2>2. ActiveSpawn'
    BY <1>18
       DEF ReactAcquire, Advance, Base, TypeOK, Incarnations, ActiveInv, ActiveSpawn, Active
  <2>3. ActiveDeliver'
    BY <1>18
       DEF ReactAcquire, Advance, Base, TypeOK, Incarnations, HandlerInv, DelivererInv,
           ActiveInv, ActiveDeliver, Lost, Active, AgentOf, Past
  <2>4. ActiveBoot'
    BY <1>18 DEF ReactAcquire, Base, Incarnations, HandlerInv, BootInv, ActiveBoot
  <2> QED BY <2>1, <2>2, <2>3, <2>4 DEF ActiveInv
<1>19. ASSUME NEW d \in Deliveries, ReactClose(d)
      PROVE  ActiveInv'
  <2>1. OneActive'
    BY <1>19 DEF ReactClose, ActiveInv, OneActive, Thrice, Active, AgentOf
  <2>2. ActiveSpawn'
    BY <1>19 DEF ReactClose, Advance, ActiveInv, ActiveSpawn, Active
  <2>3. ActiveDeliver'
    BY <1>19
       DEF ReactClose, Advance, Base, TypeOK, ActiveInv, ActiveDeliver, Lost,
           Active, Past
  <2>4. ActiveBoot'
    BY <1>19 DEF ReactClose, Base, Incarnations, HandlerInv, BootInv, ActiveBoot
  <2> QED BY <2>1, <2>2, <2>3, <2>4 DEF ActiveInv
<1>20. ASSUME NEW d \in Deliveries, ReactUnlock(d)
      PROVE  ActiveInv'
  <2>1. OneActive'
    BY <1>20 DEF ReactUnlock, ActiveInv, OneActive, Thrice, Active, AgentOf
  <2>2. ActiveSpawn'
    BY <1>20 DEF ReactUnlock, Advance, ActiveInv, ActiveSpawn, Active
  <2>3. ActiveDeliver'
    BY <1>20 DEF ReactUnlock, Advance, ActiveInv, ActiveDeliver, Lost, Active, Past
  <2>4. ActiveBoot'
    BY <1>20 DEF ReactUnlock, Base, Incarnations, HandlerInv, BootInv, ActiveBoot
  <2> QED BY <2>1, <2>2, <2>3, <2>4 DEF ActiveInv
<1>21. ASSUME NEW d \in Deliveries, NEW to \in {"none"} \cup OnDisk, ReactInstall(d, to)
      PROVE  ActiveInv'
  <2>1. OneActive'
    BY <1>21 DEF ReactInstall, Stop, Base, TypeOK, ActiveInv, OneActive, Thrice, Active, AgentOf
  <2>2. ActiveSpawn'
    BY <1>21
       DEF ReactInstall, Stop, Advance, Base, TypeOK, Incarnations, ActiveInv, ActiveSpawn,
           ActiveDeliver, Active, Past
  <2>3. ActiveDeliver'
    BY <1>21
       DEF ReactInstall, Stop, Advance, Base, TypeOK, Incarnations, HandlerInv,
           DelivererInv, ActiveInv, ActiveDeliver, Lost, Active, Past
  <2>4. ActiveBoot'
    BY <1>21 DEF ReactInstall, Base, Incarnations, HandlerInv, BootInv, ActiveBoot
  <2> QED BY <2>1, <2>2, <2>3, <2>4 DEF ActiveInv
<1>22. ASSUME NEW a \in Agents, RemoveUnregister(a)
      PROVE  ActiveInv'
  BY <1>22, ActiveFrame DEF RemoveUnregister, Serving
<1>23. ASSUME NEW a \in Agents, TearRelease(a)
      PROVE  ActiveInv'
  BY <1>23, ActiveFrame DEF TearRelease, Advance, Base, TypeOK, Incarnations, Registered
<1>24. ASSUME NEW a \in Agents, NEW to \in {"archived"} \cup OnDisk, TearArchive(a, to)
      PROVE  ActiveInv'
  <2>1. OneActive'
    BY <1>24 DEF TearArchive, Stop, ActiveInv, OneActive, Thrice, Active, AgentOf
  <2>2. ActiveSpawn'
    BY <1>24 DEF TearArchive, Stop, Base, TypeOK, ActiveInv, ActiveSpawn, Active
  <2>3. ActiveDeliver'
    BY <1>24
       DEF TearArchive, Stop, Base, HandlerInv, SpawnerInv, ActiveInv, ActiveDeliver,
           Lost, Active
  <2>4. ActiveBoot'
    BY <1>24 DEF TearArchive, Base, HandlerInv, BootInv, ActiveBoot
  <2> QED BY <2>1, <2>2, <2>3, <2>4 DEF ActiveInv
<1>25. ASSUME NEW i \in Incarnations, Watch(i)
      PROVE  ActiveInv'
  <2>1. ~booting
    BY <1>25 DEF Watch, ActiveInv, ActiveBoot
  <2>2. \A a \in Agents : /\ entry'[a] = "live" => /\ entry[a] = "live"
                                               /\ handle'[a] = handle[a] /\ chan'[a] = chan[a]
                         /\ handle'[a] \in {handle[a], Nobody}
    BY <1>25 DEF Watch, Base, TypeOK
  <2> QED BY <1>25, <2>1, <2>2, ActiveFrame DEF Watch, Base, TypeOK
<1>26. ASSUME NEW i \in Incarnations, NEW how \in {"panicked", "ended"}, TaskDies(i, how)
      PROVE  ActiveInv'
  BY <1>26, ActiveFrame DEF TaskDies, Serving, Advance, Base, TypeOK, Incarnations, Registered
<1>27. ASSUME ProcessEnds
      PROVE  ActiveInv'
  <2>1. OneActive'
    BY <1>27 DEF ProcessEnds, OneActive, Thrice, Active
  <2>2. ActiveSpawn'
    BY <1>27 DEF ProcessEnds, ActiveSpawn
  <2>3. ActiveDeliver'
    BY <1>27 DEF ProcessEnds, Incarnations, ActiveDeliver, Active, Past
  <2>4. ActiveBoot'
    BY <1>27 DEF ProcessEnds, ActiveBoot, Active
  <2> QED BY <2>1, <2>2, <2>3, <2>4 DEF ActiveInv
<1>28. ASSUME BootDone
      PROVE  ActiveInv'
  BY <1>28, ActiveFrame DEF BootDone, Advance, Base, TypeOK, Incarnations, Registered
<1>29. ASSUME NEW a \in Agents, RestoreRefused(a)
      PROVE  ActiveInv'
  BY <1>29, ActiveFrame DEF RestoreRefused, Unreadable, Registered, Base, TypeOK
<1>30. ASSUME NEW a \in Agents, RestoreOrphan(a)
      PROVE  ActiveInv'
  BY <1>30, ActiveFrame DEF RestoreOrphan, RestoreFaulted, Pending, Registered
<1>31. ASSUME NEW a \in Agents, RestoreOne(a)
      PROVE  ActiveInv'
  <2>1. OneActive'
    BY <1>31 DEF RestoreOne, Restorable, ActiveInv, OneActive, Thrice, ActiveBoot, Active, AgentOf
  <2>2. ActiveSpawn'
    BY <1>31 DEF RestoreOne, Base, TypeOK, ActiveInv, ActiveSpawn, Active
  <2>3. ActiveDeliver'
    BY <1>31
       DEF RestoreOne, Restorable, Base, Incarnations, HandlerInv, BootInv, ActiveInv,
           ActiveDeliver, ActiveBoot, Active, Past
  <2>4. ActiveBoot'
    BY <1>31 DEF RestoreOne, Base, TypeOK, ActiveInv, ActiveBoot, Active
  <2> QED BY <2>1, <2>2, <2>3, <2>4 DEF ActiveInv
<1>32. ASSUME NEW a \in Agents, NEW est \in BOOLEAN, RestoreFails(a, est)
      PROVE  ActiveInv'
  BY <1>32, ActiveFrame DEF RestoreFails, RestoreFaulted, Restorable, Pending, Registered
<1> QED BY <1>1, <1>2, <1>3, <1>4, <1>5, <1>6, <1>7, <1>8, <1>9, <1>10, <1>11, <1>12, <1>13,
           <1>14, <1>15, <1>16, <1>17, <1>18, <1>19, <1>20, <1>21, <1>22, <1>23, <1>24, <1>25,
           <1>26, <1>27, <1>28, <1>29, <1>30, <1>31, <1>32
     DEF Next, SpawnStep, DeliverStep, RemoveStep, RestartStep, Restart, BootAborts

\* Two running tasks of one agent take a delivery that reserved it while another had not
\* ended, and a third one.  All of it is needed: a delivery whose spawn fails closes the
\* channel that a later one has reserved, and a third then starts the second task.
THEOREM OneIncarnationCorrect == Spec => []OneIncarnation
<1>1. Init => ActiveInv
  BY WorkspacesAssumption, LifecycleAssumption
     DEF Init, ActiveInv, OneActive, Thrice, ActiveSpawn, ActiveDeliver, ActiveBoot, Active, Past, Incarnations
<1>2. Base /\ ActiveInv /\ [Next]_vars => ActiveInv'
  BY ActiveNext
<1>3. ActiveInv /\ BusyInv => OneIncarnation
  BY DEF ActiveInv, OneActive, Active, BusyInv, OneBusy, Busy, OneIncarnation
<1> QED BY <1>1, <1>2, <1>3, CoreInv, TasksInv, PTL DEF Spec
=============================================================================
