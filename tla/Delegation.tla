----------------------------- MODULE Delegation -----------------------------
(***************************************************************************)
(* What the directory locks of a tagma promise, whatever the handlers do:  *)
(* a workspace is granted free of overlap except under the locks of the    *)
(* agent's superiors, it moves only between an agent and the heir standing *)
(* in its stead, and it is given up.  Lifecycle implements this.           *)
(***************************************************************************)
EXTENDS Workspaces

VARIABLES
    owner,  \* holder of the write-lock of each directory
    home,   \* workspace of each agent
    above,  \* delegation ancestors of each agent
    stead   \* the agent whose workspace it stands in for: itself unless an heir

vars == <<owner, home, above, stead>>

TypeOK ==
    /\ owner \in [Dirs -> Agents \cup {Nobody}]
    /\ home \in [Agents -> Dirs]
    /\ above \in [Agents -> SUBSET Agents]
    /\ stead \in [Agents -> Agents \cup {Nobody}]

Init ==
    /\ owner = [d \in Dirs |-> Nobody]
    /\ home \in [Agents -> Dirs] /\ home[Root] = RootDir
    /\ above = [a \in Agents |-> {}]
    /\ stead = [a \in Agents |-> IF a = Root THEN Root ELSE Nobody]

\* Agents nobody has placed yet.
Fresh == {a \in Agents : stead[a] = Nobody}

\* A fresh agent is placed under a superior, as its heir or with a workspace
\* of its own.
Appoint(c, s, d, heir) ==
    /\ c \in Fresh /\ stead[s] # Nobody
    /\ heir => d = home[s]
    /\ home' = [home EXCEPT ![c] = d]
    /\ above' = [above EXCEPT ![c] = above[s] \cup {s}]
    /\ stead' = [stead EXCEPT ![c] = IF heir THEN stead[s] ELSE c]
    /\ UNCHANGED owner

\* A workspace is granted when nothing beneath it is locked and every lock
\* above it belongs to a superior.
Grant(a) ==
    /\ stead[a] # Nobody /\ owner[home[a]] = Nobody
    /\ \A e \in Dirs : <<home[a], e>> \in Beneath => owner[e] \in above[a] \cup {Nobody}
    /\ \A e \in Dirs : <<e, home[a]>> \in Beneath => owner[e] = Nobody
    /\ owner' = [owner EXCEPT ![home[a]] = a]
    /\ UNCHANGED <<home, above, stead>>

\* A workspace passes between a superior and its heir, in either direction.
PassOn(x, y) ==
    /\ stead[x] # Nobody /\ stead[x] = stead[y]
    /\ x \in above[y] \/ above[x] = above[y] \cup {y}
    /\ owner[home[x]] = x
    /\ owner' = [owner EXCEPT ![home[x]] = y]
    /\ UNCHANGED <<home, above, stead>>

\* Locks are dropped: one agent's, or all of them when the process dies.
GiveUp(gone) ==
    /\ owner' = [d \in Dirs |-> IF owner[d] \in gone THEN Nobody ELSE owner[d]]
    /\ UNCHANGED <<home, above, stead>>

Next ==
    \/ \E c \in Fresh, s \in Agents, d \in Dirs, heir \in BOOLEAN : Appoint(c, s, d, heir)
    \/ \E a \in Agents : Grant(a) \/ GiveUp({a})
    \/ \E x, y \in Agents : PassOn(x, y)
    \/ GiveUp(Agents)

Spec == Init /\ [][Next]_vars

(***************************************************************************)
(* Properties.                                                             *)
(***************************************************************************)

\* A lock lies inside another only along the delegation: the outer holder is a
\* superior of the inner one, or stands in the stead of one, so two agents
\* that are not in one chain of command never own overlapping directories.
NestedWithinDelegation ==
    \A d, e \in Dirs :
        <<d, e>> \in Beneath /\ owner[d] # Nobody /\ owner[e] # Nobody
            => stead[owner[e]] \in above[owner[d]]

\* An agent owns its workspace and nothing else, which is what keeps transfer,
\* a reassignment without an overlap check, from creating an overlap.
OwnsOnlyHome == \A d \in Dirs : owner[d] # Nobody => home[owner[d]] = d

\* The chain of command: superiors of superiors are superiors, nobody is its
\* own superior, and an heir stands in for a superior with the same workspace.
ChainOfCommand ==
    \A a \in Agents :
        /\ a \notin above[a]
        /\ \A b \in above[a] : stead[b] # Nobody /\ above[b] \subseteq above[a]
        /\ stead[a] = Nobody => above[a] = {} /\ \A d \in Dirs : owner[d] # a
        /\ stead[a] # Nobody =>
              /\ stead[a] = a \/ stead[a] \in above[a]
              /\ stead[stead[a]] = stead[a] /\ home[stead[a]] = home[a]
=============================================================================
