---------------------------- MODULE FleetProofs -----------------------------
(***************************************************************************)
(* Theorems about the fleet.  The ledger, for every set of agents and      *)
(* processes, every timing and every client of the store's operations; and *)
(* the orchestrator, which is a client of it: what holds for every client  *)
(* holds for its processes, whatever the teams, the timing and the         *)
(* failures.  The invariant RunsOK, about the agents each thread has       *)
(* created and not yet finished, shows what a run leaves behind and what   *)
(* its audit rests on.  The last section is about heartbeats in time.      *)
(***************************************************************************)
EXTENDS FleetClients, FleetTiming, TLAPS


-----------------------------------------------------------------------------
\* One row at a time.

RowOK(row) ==
    /\ row.cancel \/ row.status \in Active => row.result = "none"
    /\ row.cancel => row.status \notin {"done", "failed", "queued"}
    /\ row.status \in {"cancelled", "interrupted"} => row.cancel
    /\ row.inCall => row.status = "running"
    /\ row.status = "retried" => row.retriedBy # NoAgent
    /\ row.status \in Missing =>
          ~ row.cancel /\ row.parent = NoAgent /\ row.retriedBy = NoAgent

Created(old, new) ==
    /\ old.status = "absent"
    /\ \E o \in Owners, p, src \in Agents \cup {NoAgent}, c \in BOOLEAN :
          new = [MissingRow(IF c THEN "cancelled" ELSE "queued")
                 EXCEPT !.owner = o, !.parent = p, !.retryOf = src, !.cancel = c]

StartedRow(old, new) ==
    /\ old.status = "queued" /\ ~ old.cancel
    /\ \E b \in BOOLEAN : new = [old EXCEPT !.status = "running", !.inCall = b]

Called(old, new) ==
    /\ old.status = "running" /\ ~ old.cancel
    /\ new = [old EXCEPT !.inCall = TRUE]

Ended(old, new) ==
    /\ old.status \notin Missing
    /\ \E r \in {"none", "output", "error"} : new = Finished(old, r)

Recovered(old, new) ==
    /\ old.status \in {"interrupted", "failed", "cancelled"}
    /\ \E a \in Agents : new = Retried(old, a)

Pruned(old, new) == old.status \in Terminal /\ new = MissingRow("pruned")

\* All that a step can do to a row.
RowStep(old, new) ==
    \/ new = old
    \/ old.status \in Active /\ new = Interrupted(old)
    \/ old.status \in Active /\ new = Cancelled(old)
    \/ Created(old, new) \/ StartedRow(old, new) \/ Called(old, new)
    \/ Ended(old, new) \/ Recovered(old, new) \/ Pruned(old, new)

LEMMA RowStepTyped ==
    ASSUME NEW old \in Row, NEW new, RowStep(old, new)
    PROVE  new \in Row
<1>1. CASE Created(old, new)
  BY ZenonT(60), <1>1 DEF Created, Row, MissingRow, Active, Terminal, Missing
<1>2. CASE Pruned(old, new)
  BY <1>2 DEF Pruned, Row, MissingRow, Active, Terminal, Missing
<1>3. CASE Ended(old, new)
  <2>1. PICK r \in {"none", "output", "error"} : new = Finished(old, r)
    BY <1>3 DEF Ended
  <2>2. Discarded(old) \in Row
    BY DEF Discarded, Row, Terminal
  <2>3. Settled(old, r) \in Row
    BY ZenonT(60) DEF Settled, Row, Terminal
  <2>4. QED BY <2>1, <2>2, <2>3 DEF Finished
<1>4. CASE StartedRow(old, new) \/ Called(old, new) \/ Recovered(old, new)
  BY ZenonT(60), <1>4 DEF StartedRow, Called, Recovered, Retried, Row, Active, Terminal
<1>5. QED
  BY ZenonT(60), <1>1, <1>2, <1>3, <1>4
  DEF RowStep, Interrupted, Cancelled, Row, Active, Terminal

LEMMA RowStepKeepsRowOK ==
    ASSUME NEW old \in Row, RowOK(old), NEW new, RowStep(old, new)
    PROVE  RowOK(new)
<1>0. NoAgent \notin Agents
  BY FleetAssumption
<1>1. CASE Created(old, new)
  BY <1>1 DEF Created, RowOK, MissingRow, Active, Terminal, Missing
<1>2. CASE Pruned(old, new)
  BY <1>2 DEF Pruned, RowOK, MissingRow, Active, Terminal, Missing
<1>3. CASE Ended(old, new)
  <2>1. PICK r \in {"none", "output", "error"} : new = Finished(old, r)
    BY <1>3 DEF Ended
  <2>2. old.status \notin Missing
    BY <1>3 DEF Ended
  <2>3. CASE old.cancel \/ old.status = "cancelled"
    <3>1. RowOK(Discarded(old))
      BY <2>3 DEF RowOK, Discarded, Row, Active, Missing
    <3>2. QED BY <2>1, <2>3, <3>1 DEF Finished
  <2>4. CASE ~ (old.cancel \/ old.status = "cancelled")
    <3>1. RowOK(Settled(old, r))
      BY <2>2, <2>4 DEF RowOK, Settled, Row, Active, Missing
    <3>2. QED BY <2>1, <2>4, <3>1 DEF Finished
  <2>5. QED BY <2>3, <2>4
<1>4. CASE StartedRow(old, new) \/ Called(old, new)
  <2>1. old.status \in Active /\ ~ old.cancel
    BY <1>4 DEF StartedRow, Called, Active
  <2>2. PICK b \in BOOLEAN : new = [old EXCEPT !.status = "running", !.inCall = b]
    BY ZenonT(60), <1>4 DEF StartedRow, Called, Row
  <2>3. QED BY <2>1, <2>2 DEF RowOK, Row, Active, Missing
<1>5. CASE Recovered(old, new)
  BY <1>0, <1>5
  DEF Recovered, Retried, RowOK, Row, Active, Terminal, Missing
<1>6. CASE old.status \in Active /\ (new = Interrupted(old) \/ new = Cancelled(old))
  <2>1. RowOK(Interrupted(old))
    BY <1>6 DEF Interrupted, RowOK, Row, Active, Missing
  <2>2. CASE old.status = "queued"
    <3>1. Cancelled(old) =
             [old EXCEPT !.status = "cancelled", !.cancel = TRUE, !.inCall = FALSE]
      BY <2>2 DEF Cancelled
    <3>2. RowOK(Cancelled(old))
      BY <2>2, <3>1 DEF RowOK, Row, Active, Missing
    <3>3. QED BY <1>6, <2>1, <3>2
  <2>3. CASE old.status = "running"
    <3>1. Cancelled(old) = [old EXCEPT !.cancel = TRUE]
      BY <2>3 DEF Cancelled
    <3>2. RowOK(Cancelled(old))
      BY <2>3, <3>1 DEF RowOK, Row, Active, Missing
    <3>3. QED BY <1>6, <2>1, <3>2
  <2>4. QED BY <1>6, <2>2, <2>3 DEF Active
<1>7. QED
  BY <1>1, <1>2, <1>3, <1>4, <1>5, <1>6 DEF RowStep

\* What no step changes in a row that stays in the table.
LEMMA RowStepKeepsIdentity ==
    ASSUME NEW old \in Row, NEW new, RowStep(old, new),
           old.status # "absent", new.status # "pruned"
    PROVE  /\ new.status # "absent"
           /\ new.owner = old.owner /\ new.parent = old.parent
           /\ new.retryOf = old.retryOf
           /\ old.cancel => new.cancel
           /\ old.status \notin Active => new.status \notin Active
<1>1. CASE Pruned(old, new)
  BY <1>1 DEF Pruned, MissingRow
<1>2. CASE Ended(old, new)
  BY <1>2 DEF Ended, Finished, Discarded, Settled, Row, Active, Terminal, Missing
<1>3. CASE Recovered(old, new)
  BY <1>3 DEF Recovered, Retried, Row, Active
<1>4. QED
  BY <1>1, <1>2, <1>3
  DEF RowStep, Created, StartedRow, Called, Interrupted, Cancelled, Row, Active,
      Terminal, Missing

\* A finished row that is not marked as retried stays as it is, unless it is
\* marked or pruned.
LEMMA RowStepKeepsEnd ==
    ASSUME NEW old \in Row, RowOK(old), NEW new, RowStep(old, new),
           old.status \in Terminal \ {"retried"}
    PROVE  \/ new = old
           \/ new.status = "pruned"
           \/ old.status # "done" /\ new.status = "retried" /\ new.result = old.result
<1>1. CASE Ended(old, new)
  <2>1. PICK r \in {"none", "output", "error"} : new = Finished(old, r)
    BY <1>1 DEF Ended
  <2>2. CASE old.status = "cancelled"
    <3>1. new = Discarded(old)
      BY <2>1, <2>2 DEF Finished
    <3>2. old.result = "none" /\ old.inCall = FALSE
      BY <2>2 DEF RowOK, Row
    <3>3. Discarded(old) = old
      BY <2>2, <3>2 DEF Discarded, Row
    <3>4. QED BY <3>1, <3>3
  <2>3. CASE old.status # "cancelled"
    BY <2>1, <2>3 DEF Finished, RowOK, Terminal
  <2>4. QED BY <2>2, <2>3
<1>2. CASE Recovered(old, new)
  BY <1>2 DEF Recovered, Retried, Row
<1>3. CASE Pruned(old, new)
  BY <1>3 DEF Pruned, MissingRow
<1>4. QED
  BY <1>1, <1>2, <1>3
  DEF RowStep, Created, StartedRow, Called, Active, Terminal

\* A deleted row stays deleted.
LEMMA RowStepKeepsPruned ==
    ASSUME NEW old, NEW new, RowStep(old, new), old.status = "pruned"
    PROVE  new = old
BY DEF RowStep, Created, StartedRow, Called, Ended, Recovered, Pruned, Active,
       Terminal, Missing

-----------------------------------------------------------------------------
\* The table: every step of every operation makes row steps only.

TableStep ==
    /\ agents' = [a \in Agents |-> agents'[a]]
    /\ \A a \in Agents : RowStep(agents[a], agents'[a])

LEMMA InterruptIsTableStep ==
    ASSUME NEW O, InterruptAgentsOf(O)
    PROVE  TableStep
BY DEF InterruptAgentsOf, TableStep, RowStep, IsActive

LEMMA CreateIsTableStep ==
    ASSUME FleetTypeOK, NEW a \in Agents, NEW o \in Owners,
           NEW p \in Agents \cup {NoAgent}, NEW src \in Agents \cup {NoAgent},
           CreateAgent(a, o, p, src)
    PROVE  TableStep
<1>1. PICK c \in BOOLEAN : c = Inherits(p)
  BY DEF Inherits
<1>2. agents \in [Agents -> Row]
  BY DEF FleetTypeOK
<1> DEFINE new == [MissingRow(IF c THEN "cancelled" ELSE "queued")
                   EXCEPT !.owner = o, !.parent = p, !.retryOf = src, !.cancel = c]
<1>3. agents' = [agents EXCEPT ![a] = new]
  BY <1>1 DEF CreateAgent
<1>4. Created(agents[a], new)
  BY DEF Created, CreateAgent
<1> HIDE DEF new
<1>5. QED
  BY <1>2, <1>3, <1>4 DEF TableStep, RowStep

LEMMA FinishIsTableStep ==
    ASSUME NEW a \in Agents, NEW o, NEW r \in {"none", "output", "error"},
           FinishAgent(a, o, r)
    PROVE  TableStep
<1>1. Ended(agents[a], Finished(agents[a], r))
  BY DEF Ended, FinishAgent, OwnedBy
<1>2. ASSUME NEW b \in Agents, Recovers(a, r, b)
      PROVE  Recovered(agents[b], Retried(agents[b], a))
  BY <1>2 DEF Recovered, Recovers
<1>3. agents' = [b \in Agents |->
                     IF b = a THEN Finished(agents[a], r)
                     ELSE IF Recovers(a, r, b) THEN Retried(agents[b], a)
                     ELSE agents[b]]
  BY DEF FinishAgent
<1>4. QED
  BY <1>1, <1>2, <1>3 DEF TableStep, RowStep

LEMMA CancelIsTableStep ==
    ASSUME NEW S \in SUBSET Agents, CancelAgents(S)
    PROVE  TableStep
<1>1. \A a \in Selected(S) : agents[a].status \in Active
  BY DEF Selected, CancelAgents, IsActive
<1>2. QED
  BY <1>1 DEF CancelAgents, TableStep, RowStep

LEMMA PruneIsTableStep ==
    ASSUME Prune
    PROVE  TableStep
<1>1. PICK K \in SUBSET {a \in Agents : IsFinished(a)} :
          agents' = [a \in Agents |->
                         IF a \in K THEN MissingRow("pruned") ELSE agents[a]]
  BY DEF Prune
<1>2. \A a \in K : Pruned(agents[a], MissingRow("pruned"))
  BY DEF Pruned, IsFinished
<1>3. QED
  BY <1>1, <1>2 DEF TableStep, RowStep

LEMMA NextIsTableStep ==
    ASSUME FleetTypeOK, [ClientNext]_storeVars
    PROVE  TableStep
<1>1. agents = [a \in Agents |-> agents[a]]
  BY DEF FleetTypeOK
<1>2. CASE UNCHANGED agents
  BY <1>1, <1>2 DEF TableStep, RowStep
<1>3. CASE \E O : InterruptAgentsOf(O)
  BY <1>3, InterruptIsTableStep
<1>4. CASE \E a \in Agents, o \in Owners, p, src \in Agents \cup {NoAgent} :
              CreateAgent(a, o, p, src)
  BY <1>4, CreateIsTableStep
<1>5. ASSUME NEW a \in Agents, NEW o \in Owners, NEW b \in BOOLEAN,
             StartAgent(a, o, b)
      PROVE  TableStep
  <2>1. StartedRow(agents[a], [agents[a] EXCEPT !.status = "running", !.inCall = b])
    BY <1>5 DEF StartedRow, StartAgent, CanStart
  <2>2. agents' = [agents EXCEPT ![a] =
                      [agents[a] EXCEPT !.status = "running", !.inCall = b]]
    BY <1>5 DEF StartAgent, FleetTypeOK, Row
  <2>3. QED BY <1>1, <2>1, <2>2 DEF TableStep, RowStep
<1>6. ASSUME NEW a \in Agents, NEW o \in Owners, BeginModelCall(a, o)
      PROVE  TableStep
  <2>1. Called(agents[a], [agents[a] EXCEPT !.inCall = TRUE])
    BY <1>6 DEF Called, BeginModelCall, CanBegin
  <2>2. agents' = [agents EXCEPT ![a] = [agents[a] EXCEPT !.inCall = TRUE]]
    BY <1>6 DEF BeginModelCall
  <2>3. QED BY <1>1, <2>1, <2>2 DEF TableStep, RowStep
<1>7. CASE \E a \in Agents, o \in Owners, r \in {"none", "output", "error"} :
              FinishAgent(a, o, r)
  BY <1>7, FinishIsTableStep
<1>8. CASE \E S \in SUBSET Agents : CancelAgents(S)
  BY <1>8, CancelIsTableStep
<1>9. CASE Prune
  BY <1>9, PruneIsTableStep
<1>10. QED
  BY <1>2, <1>3, <1>4, <1>5, <1>6, <1>7, <1>8, <1>9
  DEF ClientNext, storeVars, RegisterOwner, HeartbeatOwner, CloseOwner,
      ReconcileStaleOwners, Age

-----------------------------------------------------------------------------
\* The table of owners.

LEMMA OlderTyped ==
    ASSUME NEW row \in OwnerRow
    PROVE  Older(row) \in OwnerRow
<1>1. StaleAfter \in Nat /\ Grace \in Nat
  BY FleetAssumption
<1>2. row.age \in 0..(StaleAfter + 1) /\ row.waited \in 0..Grace
  BY DEF OwnerRow
<1>3. PICK g \in 0..(StaleAfter + 1) :
          g = IF row.age <= StaleAfter THEN row.age + 1 ELSE row.age
  BY <1>1, <1>2
<1>4. PICK w \in 0..Grace :
          w = IF row.suspect /\ row.waited < Grace THEN row.waited + 1 ELSE row.waited
  BY <1>1, <1>2
<1>5. Older(row) = [row EXCEPT !.age = g, !.waited = w]
  BY <1>3, <1>4 DEF Older, OwnerRow
<1>6. QED
  BY <1>5 DEF OwnerRow

LEMMA OwnersTyped ==
    ASSUME FleetTypeOK, [ClientNext]_storeVars
    PROVE  owners' \in [Owners -> OwnerRow]
<1>1. owners \in [Owners -> OwnerRow]
  BY DEF FleetTypeOK
<1>2. FreshOwner \in OwnerRow /\ 0 \in 0..Grace /\ 0 \in 0..(StaleAfter + 1)
  BY FleetAssumption DEF FreshOwner, OwnerRow
<1>3. \A o \in Owners : Older(owners[o]) \in OwnerRow
  BY <1>1, OlderTyped
<1>4. CASE UNCHANGED owners
  BY <1>1, <1>4
<1>5. ASSUME NEW o \in Owners, RegisterOwner(o) \/ HeartbeatOwner(o)
      PROVE  owners' \in [Owners -> OwnerRow]
  BY <1>1, <1>2, <1>5 DEF RegisterOwner, HeartbeatOwner
<1>6. ASSUME NEW o \in Owners, CloseOwner(o)
      PROVE  owners' \in [Owners -> OwnerRow]
  <2>1. [owners[o] EXCEPT !.status = "closed", !.age = 0] \in OwnerRow
    BY <1>1, <1>2 DEF OwnerRow
  <2>2. owners' = [owners EXCEPT ![o] =
                      IF owners[o].status = "missing" THEN owners[o]
                      ELSE [owners[o] EXCEPT !.status = "closed", !.age = 0]]
    BY <1>6 DEF CloseOwner
  <2>3. QED BY <1>1, <2>1, <2>2
<1>7. CASE ReconcileStaleOwners
  <2>1. \A o \in Owners : [owners[o] EXCEPT !.status = "closed"] \in OwnerRow
    BY <1>1 DEF OwnerRow
  <2>2. \A o \in Owners :
            [owners[o] EXCEPT !.suspect = TRUE, !.waited = 0] \in OwnerRow
    BY <1>1, <1>2 DEF OwnerRow
  <2>3. QED BY <1>1, <1>7, <2>1, <2>2 DEF ReconcileStaleOwners
<1>8. CASE Prune
  <2>1. [FreshOwner EXCEPT !.status = "missing"] \in OwnerRow
    BY <1>2 DEF FreshOwner, OwnerRow
  <2>2. PICK K : owners' = [o \in Owners |->
                               IF /\ owners[o].status = "closed"
                                  /\ \A a \in Agents \ K : agents[a].owner # o
                               THEN [FreshOwner EXCEPT !.status = "missing"]
                               ELSE owners[o]]
    BY <1>8 DEF Prune
  <2>3. QED BY <1>1, <2>1, <2>2
<1>9. CASE Age
  BY <1>1, <1>3, <1>9 DEF Age
<1>10. QED
  BY <1>4, <1>5, <1>6, <1>7, <1>8, <1>9
  DEF ClientNext, storeVars, CreateAgent, StartAgent, BeginModelCall, FinishAgent,
      CancelAgents

-----------------------------------------------------------------------------
\* The inductive invariant.

\* Only masters have children, and they belong to the same process.
ParentOK(a) ==
    LET p == agents[a].parent
    IN  p # NoAgent =>
          /\ agents[p].status # "absent" /\ agents[p].parent = NoAgent
          /\ agents[p].status # "pruned" => agents[p].owner = agents[a].owner

Parents == \A a \in Agents : ParentOK(a)

Rows == \A a \in Agents : RowOK(agents[a])

IInv == FleetTypeOK /\ Rows /\ Parents /\ SubtreeCancelled /\ RecoveryLinked

LEMMA InitIInv == ClientInit => IInv
<1> SUFFICES ASSUME ClientInit PROVE IInv
  OBVIOUS
<1>1. agents = [a \in Agents |-> MissingRow("absent")]
  BY DEF ClientInit, StoreInit
<1>2. MissingRow("absent") \in Row /\ RowOK(MissingRow("absent"))
  BY DEF MissingRow, Row, RowOK, Missing, Active
<1>3. [FreshOwner EXCEPT !.status = "missing"] \in OwnerRow
  <2>1. 0 \in 0..Grace /\ 0 \in 0..(StaleAfter + 1)
    BY FleetAssumption
  <2>2. QED BY <2>1 DEF FreshOwner, OwnerRow
<1>4. FleetTypeOK
  BY <1>1, <1>2, <1>3 DEF ClientInit, StoreInit, FleetTypeOK
<1>5. \A a \in Agents : /\ agents[a].status = "absent" /\ agents[a].parent = NoAgent
                        /\ agents[a].retriedBy = NoAgent
  BY <1>1 DEF MissingRow
<1>6. QED
  BY <1>1, <1>2, <1>4, <1>5, FleetAssumption
  DEF IInv, Rows, Parents, ParentOK, SubtreeCancelled, RecoveryLinked, IsActive, Active

LEMMA TypeStep ==
    ASSUME IInv, [ClientNext]_storeVars
    PROVE  FleetTypeOK' /\ Rows' /\ TableStep
<1>1. FleetTypeOK /\ Rows
  BY DEF IInv
<1>2. TableStep
  BY <1>1, NextIsTableStep
<1>3. \A a \in Agents : agents[a] \in Row
  BY <1>1 DEF FleetTypeOK
<1>4. \A a \in Agents : agents'[a] \in Row
  BY <1>2, <1>3, RowStepTyped DEF TableStep
<1>5. agents' \in [Agents -> Row]
  BY <1>2, <1>4 DEF TableStep
<1>6. \A a \in Agents : RowOK(agents'[a])
  BY <1>1, <1>2, <1>3, RowStepKeepsRowOK DEF TableStep, Rows
<1>7. Rows'
  BY <1>6 DEF Rows, RowOK
<1>8. QED
  BY <1>1, <1>2, <1>5, <1>7, OwnersTyped DEF FleetTypeOK

-----------------------------------------------------------------------------
\* Where new rows, new cancel requests and new links come from.

\* What a step may have done to the agents' table.
LEMMA AgentSteps ==
    ASSUME [ClientNext]_storeVars
    PROVE  \/ UNCHANGED agents
           \/ \E O : InterruptAgentsOf(O)
           \/ \E a \in Agents, o \in Owners, p, src \in Agents \cup {NoAgent} :
                 MayParent(p, o) /\ CreateAgent(a, o, p, src)
           \/ \E a \in Agents, o \in Owners, b \in BOOLEAN : StartAgent(a, o, b)
           \/ \E a \in Agents, o \in Owners : BeginModelCall(a, o)
           \/ \E a \in Agents, o \in Owners, r \in {"none", "output", "error"} :
                 FinishAgent(a, o, r)
           \/ \E S \in SUBSET Agents : CancelAgents(S)
           \/ Prune
BY DEF ClientNext, storeVars, RegisterOwner, HeartbeatOwner, CloseOwner,
       ReconcileStaleOwners, Age

LEMMA Creation ==
    ASSUME FleetTypeOK, [ClientNext]_storeVars, NEW a \in Agents,
           agents[a].status = "absent", agents'[a] # agents[a]
    PROVE  \E o \in Owners, p, src \in Agents \cup {NoAgent} :
              MayParent(p, o) /\ CreateAgent(a, o, p, src)
<1>1. ASSUME NEW x \in Agents, NEW row, agents' = [agents EXCEPT ![x] = row]
      PROVE  x = a
  BY <1>1 DEF FleetTypeOK
<1>2. CASE UNCHANGED agents
  BY <1>2
<1>3. ASSUME NEW O, InterruptAgentsOf(O) PROVE FALSE
  BY <1>3 DEF InterruptAgentsOf, IsActive, Active
<1>4. ASSUME NEW x \in Agents, NEW o \in Owners,
             NEW p \in Agents \cup {NoAgent}, NEW src \in Agents \cup {NoAgent},
             MayParent(p, o), CreateAgent(x, o, p, src)
      PROVE  \E u \in Owners, q, s \in Agents \cup {NoAgent} :
                MayParent(q, u) /\ CreateAgent(a, u, q, s)
  BY <1>1, <1>4 DEF CreateAgent
<1>5. ASSUME NEW x \in Agents, NEW o \in Owners, NEW b \in BOOLEAN,
             StartAgent(x, o, b)
      PROVE  FALSE
  <2>1. agents' = [agents EXCEPT ![x] =
                      [agents[x] EXCEPT !.status = "running", !.inCall = b]]
    BY <1>5 DEF StartAgent, FleetTypeOK, Row
  <2>2. x = a
    BY <1>1, <2>1
  <2>3. QED BY <1>5, <2>2 DEF StartAgent, CanStart
<1>6. ASSUME NEW x \in Agents, NEW o \in Owners, BeginModelCall(x, o)
      PROVE  FALSE
  <2>1. x = a
    BY <1>1, <1>6 DEF BeginModelCall
  <2>2. QED BY <1>6, <2>1 DEF BeginModelCall, CanBegin
<1>7. ASSUME NEW x \in Agents, NEW o \in Owners,
             NEW r \in {"none", "output", "error"}, FinishAgent(x, o, r)
      PROVE  FALSE
  <2>1. x # a /\ ~ Recovers(x, r, a)
    BY <1>7 DEF FinishAgent, OwnedBy, Missing, Recovers
  <2>2. QED BY <1>7, <2>1 DEF FinishAgent
<1>8. ASSUME NEW S \in SUBSET Agents, CancelAgents(S) PROVE FALSE
  <2>1. a \notin Selected(S)
    BY <1>8 DEF CancelAgents, Selected, IsActive, Active
  <2>2. QED BY <1>8, <2>1 DEF CancelAgents
<1>9. CASE Prune
  BY <1>9 DEF Prune, IsFinished, Terminal
<1>10. QED
  BY <1>2, <1>3, <1>4, <1>5, <1>6, <1>7, <1>8, <1>9, AgentSteps

LEMMA CancelOrigin ==
    ASSUME FleetTypeOK, [ClientNext]_storeVars, NEW p \in Agents,
           agents[p].status # "absent", ~ agents[p].cancel, agents'[p].cancel
    PROVE  \/ \E O : InterruptAgentsOf(O) /\ IsActive(p) /\ agents[p].owner \in O
           \/ \E S \in SUBSET Agents : CancelAgents(S) /\ p \in Selected(S)
<1>0. agents \in [Agents -> Row]
  BY DEF FleetTypeOK
<1>1. ASSUME NEW x \in Agents, NEW row, agents' = [agents EXCEPT ![x] = row],
             row.cancel = agents[x].cancel
      PROVE  FALSE
  BY <1>0, <1>1
<1>2. CASE UNCHANGED agents
  BY <1>2
<1>3. ASSUME NEW O, InterruptAgentsOf(O)
      PROVE  IsActive(p) /\ agents[p].owner \in O
  BY <1>3 DEF InterruptAgentsOf
<1>4. ASSUME NEW a \in Agents, NEW o \in Owners, NEW q, NEW src,
             CreateAgent(a, o, q, src)
      PROVE  FALSE
  BY <1>0, <1>4 DEF CreateAgent
<1>5. ASSUME NEW x \in Agents, NEW o \in Owners, NEW b \in BOOLEAN,
             StartAgent(x, o, b)
      PROVE  FALSE
  <2>1. agents' = [agents EXCEPT ![x] =
                      [agents[x] EXCEPT !.status = "running", !.inCall = b]]
    BY <1>5 DEF StartAgent, FleetTypeOK, Row
  <2>2. QED BY <1>0, <1>1, <2>1 DEF Row
<1>6. ASSUME NEW x \in Agents, NEW o \in Owners, BeginModelCall(x, o)
      PROVE  FALSE
  BY <1>0, <1>1, <1>6 DEF BeginModelCall, Row
<1>7. ASSUME NEW x \in Agents, NEW o \in Owners,
             NEW r \in {"none", "output", "error"}, FinishAgent(x, o, r)
      PROVE  FALSE
  <2>1. \A b \in Agents : Retried(agents[b], x).cancel = agents[b].cancel
    BY <1>0 DEF Retried, Row
  <2>2. Finished(agents[x], r).cancel = agents[x].cancel
    BY <1>0 DEF Finished, Discarded, Settled, Row
  <2>3. QED BY <1>7, <2>1, <2>2 DEF FinishAgent
<1>8. ASSUME NEW S \in SUBSET Agents, CancelAgents(S) PROVE p \in Selected(S)
  BY <1>8 DEF CancelAgents
<1>9. CASE Prune
  BY <1>9 DEF Prune, MissingRow
<1>10. QED
  BY <1>2, <1>3, <1>4, <1>5, <1>6, <1>7, <1>8, <1>9, AgentSteps

LEMMA LinkOrigin ==
    ASSUME FleetTypeOK, [ClientNext]_storeVars, NEW a \in Agents,
           agents'[a].retriedBy # agents[a].retriedBy,
           agents'[a].retriedBy # NoAgent
    PROVE  \E x \in Agents, o \in Owners, r \in {"none", "output", "error"} :
              /\ FinishAgent(x, o, r) /\ x # a /\ Recovers(x, r, a)
              /\ agents'[a].retriedBy = x
<1>0. agents \in [Agents -> Row]
  BY DEF FleetTypeOK
<1>1. ASSUME NEW x \in Agents, NEW row, agents' = [agents EXCEPT ![x] = row],
             row.retriedBy = agents[x].retriedBy
      PROVE  FALSE
  BY <1>0, <1>1
<1>2. CASE UNCHANGED agents
  BY <1>2
<1>3. ASSUME NEW O, InterruptAgentsOf(O) PROVE FALSE
  BY <1>0, <1>3 DEF InterruptAgentsOf, Interrupted, Row
<1>4. ASSUME NEW x \in Agents, NEW o \in Owners, NEW q, NEW src,
             CreateAgent(x, o, q, src)
      PROVE  FALSE
  BY <1>0, <1>4 DEF CreateAgent, MissingRow
<1>5. ASSUME NEW x \in Agents, NEW o \in Owners, NEW b \in BOOLEAN,
             StartAgent(x, o, b)
      PROVE  FALSE
  <2>1. agents' = [agents EXCEPT ![x] =
                      [agents[x] EXCEPT !.status = "running", !.inCall = b]]
    BY <1>5 DEF StartAgent, FleetTypeOK, Row
  <2>2. QED BY <1>0, <1>1, <2>1 DEF Row
<1>6. ASSUME NEW x \in Agents, NEW o \in Owners, BeginModelCall(x, o)
      PROVE  FALSE
  BY <1>0, <1>1, <1>6 DEF BeginModelCall, Row
<1>7. ASSUME NEW x \in Agents, NEW o \in Owners,
             NEW r \in {"none", "output", "error"}, FinishAgent(x, o, r)
      PROVE  x # a /\ Recovers(x, r, a) /\ agents'[a].retriedBy = x
  <2>1. Retried(agents[a], x).retriedBy = x
    BY <1>0 DEF Retried, Row
  <2>2. Finished(agents[x], r).retriedBy = agents[x].retriedBy
    BY <1>0 DEF Finished, Discarded, Settled, Row
  <2>3. QED BY <1>7, <2>1, <2>2 DEF FinishAgent
<1>8. ASSUME NEW S \in SUBSET Agents, CancelAgents(S) PROVE FALSE
  BY <1>0, <1>8 DEF CancelAgents, Cancelled, Row
<1>9. CASE Prune
  BY <1>9 DEF Prune, MissingRow
<1>10. QED
  BY <1>2, <1>3, <1>4, <1>5, <1>6, <1>7, <1>8, <1>9, AgentSteps

-----------------------------------------------------------------------------
\* Every step keeps the invariant.

\* What happens to a row that is there: gone, or the same agent.
LEMMA RowKept ==
    ASSUME IInv, [ClientNext]_storeVars, NEW a \in Agents, agents[a].status # "absent"
    PROVE  \/ agents'[a] = MissingRow("pruned")
           \/ /\ agents[a].status # "pruned" /\ agents'[a].status \notin Missing
              /\ agents'[a].owner = agents[a].owner
              /\ agents'[a].parent = agents[a].parent
              /\ agents'[a].retryOf = agents[a].retryOf
              /\ agents[a].cancel => agents'[a].cancel
              /\ agents[a].status \notin Active => agents'[a].status \notin Active
           \/ agents'[a] = agents[a] /\ agents[a].status = "pruned"
<1>1. agents[a] \in Row /\ RowOK(agents[a]) /\ RowStep(agents[a], agents'[a])
  BY TypeStep DEF IInv, FleetTypeOK, Rows, TableStep
<1>2. CASE agents[a].status = "pruned"
  BY <1>1, <1>2, RowStepKeepsPruned
<1>3. CASE Pruned(agents[a], agents'[a])
  BY <1>3 DEF Pruned
<1>4. CASE agents[a].status # "pruned" /\ ~ Pruned(agents[a], agents'[a])
  <2>1. agents'[a].status # "pruned"
    <3>1. CASE Ended(agents[a], agents'[a])
      BY <1>1, <1>4, <3>1
      DEF Ended, Finished, Discarded, Settled, Row, Active, Terminal, Missing
    <3>2. CASE Recovered(agents[a], agents'[a])
      BY <1>1, <3>2 DEF Recovered, Retried, Row
    <3>3. QED
      BY <1>1, <1>4, <3>1, <3>2
      DEF RowStep, Created, StartedRow, Called, Interrupted, Cancelled, Row
  <2>2. QED BY <1>1, <1>4, <2>1, RowStepKeepsIdentity DEF Missing
<1>5. QED BY <1>2, <1>3, <1>4

\* The row a creation leaves, and the parent it had to look at.
LEMMA RowCreated ==
    ASSUME IInv, NEW a \in Agents, NEW o \in Owners,
           NEW p \in Agents \cup {NoAgent}, NEW src \in Agents \cup {NoAgent},
           MayParent(p, o), CreateAgent(a, o, p, src)
    PROVE  /\ agents'[a].owner = o /\ agents'[a].parent = p
           /\ p # NoAgent => p \in Agents /\ p # a /\ agents'[p] = agents[p]
           /\ agents'[a].cancel = Inherits(p)
           /\ agents'[a].status = IF Inherits(p) THEN "cancelled" ELSE "queued"
<1>1. agents \in [Agents -> Row]
  BY DEF IInv, FleetTypeOK
<1> DEFINE new == [MissingRow(IF Inherits(p) THEN "cancelled" ELSE "queued")
                   EXCEPT !.owner = o, !.parent = p, !.retryOf = src,
                          !.cancel = Inherits(p)]
<1>2. /\ new.owner = o /\ new.parent = p /\ new.cancel = Inherits(p)
      /\ new.status = IF Inherits(p) THEN "cancelled" ELSE "queued"
  BY DEF MissingRow
<1>3. agents' = [agents EXCEPT ![a] = new] /\ agents[a].status = "absent"
  BY DEF CreateAgent
<1> HIDE DEF new
<1>4. p # NoAgent => p \in Agents /\ p # a
  BY <1>3 DEF MayParent
<1>5. QED
  BY <1>1, <1>2, <1>3, <1>4

LEMMA ParentsStep ==
    ASSUME IInv, [ClientNext]_storeVars
    PROVE  Parents'
<1> SUFFICES ASSUME NEW a \in Agents, NEW p, p = agents'[a].parent, p # NoAgent
             PROVE  /\ agents'[p].status # "absent"
                    /\ agents'[p].parent = NoAgent
                    /\ agents'[p].status # "pruned" =>
                          agents'[p].owner = agents'[a].owner
  BY DEF Parents, ParentOK
<1>1. FleetTypeOK /\ FleetTypeOK' /\ NoAgent \notin Agents
  BY TypeStep, FleetAssumption DEF IInv
<1>2. p \in Agents
  BY <1>1 DEF FleetTypeOK, Row
<1>3. CASE agents[a].status = "absent"
  <2>1. agents[a].parent = NoAgent
    BY <1>3 DEF IInv, Rows, RowOK, Missing
  <2>2. PICK o \in Owners, q \in Agents \cup {NoAgent}, s \in Agents \cup {NoAgent} :
            MayParent(q, o) /\ CreateAgent(a, o, q, s)
    BY <1>1, <1>3, <2>1, Creation
  <2>3. q = p /\ agents'[a].owner = o /\ agents'[p] = agents[p]
    BY <2>2, RowCreated
  <2>4. /\ agents[p].status # "absent" /\ agents[p].parent = NoAgent
        /\ agents[p].status # "pruned" => agents[p].owner = o
    BY <1>1, <1>2, <2>2, <2>3 DEF MayParent
  <2>5. QED
    BY <2>3, <2>4
<1>4. CASE agents[a].status # "absent"
  <2>1. agents'[a].owner = agents[a].owner /\ p = agents[a].parent
    BY <1>4, RowKept DEF MissingRow
  <2>2. /\ agents[p].status # "absent" /\ agents[p].parent = NoAgent
        /\ agents[p].status # "pruned" => agents[p].owner = agents[a].owner
    BY <2>1 DEF IInv, Parents, ParentOK
  <2>3. CASE agents'[p] = MissingRow("pruned")
    BY <2>3 DEF MissingRow
  <2>4. CASE agents'[p] # MissingRow("pruned")
    <3>1. \/ /\ agents[p].status # "pruned" /\ agents'[p].status \notin Missing
             /\ agents'[p].owner = agents[p].owner
             /\ agents'[p].parent = agents[p].parent
          \/ agents'[p] = agents[p] /\ agents[p].status = "pruned"
      BY <1>2, <2>2, <2>4, RowKept
    <3>2. QED BY <2>1, <2>2, <3>1 DEF Missing
  <2>5. QED BY <2>3, <2>4
<1>5. QED BY <1>3, <1>4

LEMMA SubtreeStep ==
    ASSUME IInv, [ClientNext]_storeVars
    PROVE  SubtreeCancelled'
<1>1. FleetTypeOK /\ FleetTypeOK' /\ Rows /\ Rows' /\ NoAgent \notin Agents
  BY TypeStep, FleetAssumption DEF IInv
<1> SUFFICES ASSUME NEW a \in Agents, NEW p \in Agents,
                    agents'[a].parent = p, IsActive(a)', CancelRequested(p)'
             PROVE  agents'[a].cancel
  <2>1. \A x \in Agents :
            IsActive(x)' /\ agents'[x].cancel => agents'[x].status = "running"
    BY <1>1 DEF Rows, RowOK, IsActive, Active
  <2>2. QED BY <2>1 DEF SubtreeCancelled
<1>2. agents'[p].cancel
  BY <1>1 DEF CancelRequested, Rows, RowOK
<1>3. CASE agents[a].status = "absent"
  <2>1. agents'[a] # agents[a]
    BY <1>3 DEF IsActive, Active
  <2>2. PICK o \in Owners, q \in Agents \cup {NoAgent}, s \in Agents \cup {NoAgent} :
            MayParent(q, o) /\ CreateAgent(a, o, q, s)
    BY <1>1, <1>3, <2>1, Creation
  <2>3. /\ q = p /\ agents'[p] = agents[p]
        /\ agents'[a].status = IF Inherits(p) THEN "cancelled" ELSE "queued"
    BY <1>1, <2>2, RowCreated
  <2>4. Inherits(p)
    BY <1>1, <1>2, <2>3 DEF Inherits, CancelRequested
  <2>5. QED BY <2>3, <2>4 DEF IsActive, Active
<1>4. CASE agents[a].status # "absent"
  <2>1. IsActive(a) /\ agents[a].parent = p /\ (agents[a].cancel => agents'[a].cancel)
    <3>1. agents'[a] # MissingRow("pruned")
      BY DEF IsActive, Active, MissingRow
    <3>2. QED
      BY <1>4, <3>1, RowKept DEF IsActive, Active
  <2>2. ParentOK(a) /\ p # NoAgent
    BY <1>1 DEF IInv, Parents
  <2>3. agents[p].status # "absent" /\ agents[p].parent = NoAgent
        /\ (agents[p].status # "pruned" => agents[p].owner = agents[a].owner)
    BY <2>1, <2>2 DEF ParentOK
  <2>4. CASE agents[p].cancel
    BY <2>1, <2>4 DEF IInv, SubtreeCancelled, CancelRequested
  <2>5. CASE ~ agents[p].cancel
    <3>1. CASE \E O : InterruptAgentsOf(O) /\ IsActive(p) /\ agents[p].owner \in O
      <4>1. PICK O : InterruptAgentsOf(O) /\ IsActive(p) /\ agents[p].owner \in O
        BY <3>1
      <4>2. agents[a].owner \in O
        BY <2>3, <4>1 DEF IsActive, Active
      <4>3. agents'[a] = Interrupted(agents[a])
        BY <2>1, <4>1, <4>2 DEF InterruptAgentsOf
      <4>4. agents'[a].status = "interrupted"
        BY <1>1, <4>3 DEF Interrupted, FleetTypeOK, Row
      <4>5. QED BY <4>4 DEF IsActive, Active
    <3>2. CASE \E S \in SUBSET Agents : CancelAgents(S) /\ p \in Selected(S)
      <4>1. PICK S \in SUBSET Agents : CancelAgents(S) /\ p \in Selected(S)
        BY <3>2
      <4>2. p \in S
        BY <1>1, <2>3, <4>1 DEF Selected
      <4>3. a \in Selected(S)
        BY <2>1, <4>2 DEF Selected
      <4>4. agents'[a] = Cancelled(agents[a])
        BY <4>1, <4>3 DEF CancelAgents
      <4>5. QED BY <1>1, <4>4 DEF Cancelled, FleetTypeOK, Row
    <3>3. QED BY <1>1, <1>2, <2>3, <2>5, <3>1, <3>2, CancelOrigin
  <2>6. QED BY <2>4, <2>5
<1>5. QED BY <1>3, <1>4

LEMMA RecoveryStep ==
    ASSUME IInv, [ClientNext]_storeVars
    PROVE  RecoveryLinked'
<1>1. FleetTypeOK /\ FleetTypeOK' /\ Rows /\ Rows' /\ TableStep
      /\ NoAgent \notin Agents
  BY TypeStep, FleetAssumption DEF IInv
<1> SUFFICES ASSUME NEW a \in Agents, agents'[a].retriedBy # NoAgent
             PROVE  LET by == agents'[agents'[a].retriedBy]
                    IN  \/ by.status = "pruned"
                        \/ by.status = "done" /\ by.retryOf = a /\ by.parent = NoAgent
  BY <1>1 DEF RecoveryLinked, Rows, RowOK
<1>2. CASE agents'[a].retriedBy = agents[a].retriedBy
  <2>1. PICK x : x = agents[a].retriedBy
    OBVIOUS
  <2>2. x \in Agents
    BY <1>1, <1>2, <2>1 DEF FleetTypeOK, Row
  <2>3. \/ agents[x].status = "pruned"
        \/ /\ agents[x].status = "done" /\ agents[x].retryOf = a
           /\ agents[x].parent = NoAgent
    BY <1>2, <2>1 DEF IInv, RecoveryLinked
  <2>4. agents'[x] = agents[x] \/ agents'[x].status = "pruned"
    <3>1. agents[x] \in Row /\ RowOK(agents[x]) /\ RowStep(agents[x], agents'[x])
      BY <1>1, <2>2 DEF FleetTypeOK, Rows, TableStep
    <3>2. QED BY <2>3, <3>1, RowStepKeepsPruned, RowStepKeepsEnd DEF Terminal
  <2>5. QED BY <1>2, <2>1, <2>3, <2>4
<1>3. CASE agents'[a].retriedBy # agents[a].retriedBy
  <2>1. PICK x \in Agents, o \in Owners, r \in {"none", "output", "error"} :
            /\ FinishAgent(x, o, r) /\ x # a /\ Recovers(x, r, a)
            /\ agents'[a].retriedBy = x
    BY <1>1, <1>3, LinkOrigin
  <2>2. agents'[x] = Finished(agents[x], r)
    BY <2>1 DEF FinishAgent
  <2>3. /\ Finished(agents[x], r).status = "done"
        /\ agents[x].parent = NoAgent /\ agents[x].retryOf = a
    BY <2>1 DEF Recovers
  <2>4. /\ Finished(agents[x], r).parent = agents[x].parent
        /\ Finished(agents[x], r).retryOf = agents[x].retryOf
    BY <1>1 DEF Finished, Discarded, Settled, FleetTypeOK, Row
  <2>5. QED BY <2>1, <2>2, <2>3, <2>4
<1>4. QED BY <1>2, <1>3

LEMMA NextIInv == IInv /\ [ClientNext]_storeVars => IInv'
BY TypeStep, ParentsStep, SubtreeStep, RecoveryStep DEF IInv

-----------------------------------------------------------------------------
\* The theorems.

\* The tables hold rows of the schema under every client (fleet_store.py).
THEOREM FleetTypeCorrect == ClientSpec => []FleetTypeOK
<1>1. IInv => FleetTypeOK
  BY DEF IInv
<1>2. QED
  BY <1>1, InitIInv, NextIInv, PTL DEF ClientSpec

\* Once a cancel is recorded, no late result is ever shown or taken for a
\* success (finish_agent against cancel_agents and reconcile_stale_owners).
THEOREM FleetCancelWins == ClientSpec => []CancelWins
<1>1. IInv => CancelWins
  BY DEF IInv, Rows, RowOK, CancelWins
<1>2. QED
  BY <1>1, InitIInv, NextIInv, PTL DEF ClientSpec

\* No child of a cancelled or interrupted master can start a model call,
\* however late it is created (create_agent, cancel_agents, close_owner).
THEOREM FleetSubtreeCancelled == ClientSpec => []SubtreeCancelled
<1>1. IInv => SubtreeCancelled
  BY DEF IInv
<1>2. QED
  BY <1>1, InitIInv, NextIInv, PTL DEF ClientSpec

\* A master is recorded as recovered only by a done retry of it
\* (finish_agent).
THEOREM FleetRecoveryLinked == ClientSpec => []RecoveryLinked
<1>1. IInv => RecoveryLinked
  BY DEF IInv
<1>2. QED
  BY <1>1, InitIInv, NextIInv, PTL DEF ClientSpec

\* A finished agent never runs again and its result never changes
\* (start_agent, finish_agent, cancel_agents, reconcile_stale_owners).
THEOREM FleetFinishedIsFinal == ClientSpec => FinishedIsFinal
<1> DEFINE Final == \A a \in Agents :
                agents[a].status \in Terminal \ {"retried"} =>
                  \/ agents'[a] = agents[a]
                  \/ agents'[a].status = "pruned"
                  \/ /\ agents[a].status # "done" /\ agents'[a].status = "retried"
                     /\ agents'[a].result = agents[a].result
<1>1. IInv /\ [ClientNext]_storeVars => [Final]_storeVars
  <2> SUFFICES ASSUME IInv, [ClientNext]_storeVars PROVE Final
    OBVIOUS
  <2>1. \A a \in Agents : agents[a] \in Row /\ RowOK(agents[a])
                          /\ RowStep(agents[a], agents'[a])
    BY TypeStep DEF IInv, FleetTypeOK, Rows, TableStep
  <2>2. QED BY <2>1, RowStepKeepsEnd
<1>2. QED
  BY <1>1, InitIInv, NextIInv, PTL DEF ClientSpec, FinishedIsFinal


-----------------------------------------------------------------------------
\* Types of the locals.

JobsOK == jobs \in [Masters -> Job]
ProcOK == proc \in [Owners -> Process]
WorkOK == work \in [Agents \ Masters -> Futures]

LEMMA GotoTyped ==
    ASSUME JobsOK, NEW m \in Masters, NEW pc, Goto(m, pc),
           pc \in {"start", "spawn", "pool", "joined", "audit", "calling",
                   "settle", "rescue", "prune", "over", "lost"}
    PROVE  JobsOK'
BY DEF JobsOK, Goto, Job

LEMMA ConcludeTyped ==
    ASSUME JobsOK, NEW m \in Masters, NEW r \in Results, Conclude(m, r)
    PROVE  JobsOK'
<1>1. jobs' = [jobs EXCEPT ![m] = [jobs[m] EXCEPT !.pc = "settle", !.verdict = r]]
  BY DEF JobsOK, Conclude, Job
<1>2. [jobs[m] EXCEPT !.pc = "settle", !.verdict = r] \in Job
  BY ZenonT(60) DEF JobsOK, Job
<1>3. QED
  BY <1>1, <1>2 DEF JobsOK

LEMMA SyncedTyped ==
    ASSUME ProcOK, NEW o \in Owners, NEW A \in SUBSET Agents, proc' = Synced(o, A)
    PROVE  ProcOK'
<1>1. PICK mirror \in SUBSET Agents :
          mirror = {a \in proc[o].mirror \cup A :
                       a \notin A \/ agents'[a].status \in Active}
  BY DEF ProcOK, Process
<1>2. proc' = [proc EXCEPT ![o].mirror = mirror]
  BY <1>1 DEF Synced
<1>3. QED
  BY <1>2 DEF ProcOK, Process

LEMMA FutureTyped ==
    ASSUME WorkOK, NEW c \in Agents \ Masters, NEW f \in Futures, Future(c, f)
    PROVE  WorkOK'
BY DEF WorkOK, Future

LEMMA FinishMasterTyped ==
    ASSUME JobsOK, ProcOK, WorkOK, NEW o \in Owners, NEW m \in Masters, NEW r,
           FinishMaster(o, m, r)
    PROVE  JobsOK' /\ ProcOK' /\ WorkOK'
<1>1. {m} \in SUBSET Agents
  BY OrchestratorAssumption
<1>2. CASE proc' = Synced(o, {m}) /\ Goto(m, "prune")
  BY <1>1, <1>2, SyncedTyped, GotoTyped DEF FinishMaster, WorkOK
<1>3. CASE Goto(m, "over") /\ UNCHANGED proc
  BY <1>3, GotoTyped DEF FinishMaster, WorkOK, ProcOK
<1>4. QED
  BY <1>2, <1>3 DEF FinishMaster

-----------------------------------------------------------------------------
LEMMA TeamIsOfAgents ==
    ASSUME NEW m \in Masters
    PROVE  TeamOf(m) \subseteq Agents \ Masters
<1>1. Team[m] \in Seq(Agents \ Masters)
  BY OrchestratorAssumption
<1>2. QED
  BY <1>1 DEF TeamOf

LEMMA MainTyped ==
    ASSUME JobsOK, ProcOK, WorkOK, NEW o \in Owners, NEW m \in Masters, Main(o, m)
    PROVE  JobsOK' /\ ProcOK' /\ WorkOK'
<1>0. {m} \in SUBSET Agents
  BY OrchestratorAssumption
<1>1. CASE CreateMaster(o, m)
  BY <1>0, <1>1, SyncedTyped, GotoTyped DEF CreateMaster, WorkOK
<1>2. CASE StartMaster(o, m)
  <2>1. WorkOK'
    BY <1>2 DEF StartMaster, WorkOK
  <2>2. CASE proc' = Synced(o, {m})
             /\ Goto(m, IF jobs[m].kind = "inline" THEN "calling" ELSE "spawn")
    BY <1>0, <2>1, <2>2, SyncedTyped, GotoTyped
  <2>3. CASE Goto(m, "over") /\ UNCHANGED proc
    BY <2>1, <2>3, GotoTyped DEF ProcOK
  <2>4. QED BY <1>2, <2>2, <2>3 DEF StartMaster
<1>3. CASE CreateChild(o, m)
  <2>1. Team[m][jobs[m].next] \in Agents
    BY <1>3, TeamIsOfAgents DEF CreateChild, TeamOf
  <2>2. proc' = Synced(o, {Team[m][jobs[m].next]})
    BY <1>3 DEF CreateChild
  <2>3. ProcOK'
    BY <2>1, <2>2, SyncedTyped
  <2>4. JobsOK'
    BY <1>3 DEF CreateChild, JobsOK, Job
  <2>5. QED BY <1>3, <2>3, <2>4 DEF CreateChild, WorkOK
<1>4. CASE Submit(o, m)
  <2>1. JobsOK' /\ ProcOK'
    BY <1>4, GotoTyped DEF Submit, ProcOK
  <2>2. WorkOK'
    BY <1>4 DEF Submit, WorkOK, Futures
  <2>3. QED BY <2>1, <2>2
<1>5. CASE Join(o, m)
  BY <1>5, GotoTyped DEF Join, ProcOK, WorkOK
<1>6. CASE CheckOutputs(o, m)
  BY <1>6, GotoTyped, ConcludeTyped DEF CheckOutputs, ProcOK, WorkOK, Results
<1>7. CASE BeginAudit(o, m)
  <2>1. WorkOK'
    BY <1>7 DEF BeginAudit, WorkOK
  <2>2. CASE proc' = Synced(o, {m}) /\ Goto(m, "calling")
    BY <1>0, <2>1, <2>2, SyncedTyped, GotoTyped
  <2>3. CASE Conclude(m, "none") /\ UNCHANGED proc
    BY <2>1, <2>3, ConcludeTyped DEF ProcOK, Results
  <2>4. QED BY <1>7, <2>2, <2>3 DEF BeginAudit
<1>8. CASE Return(o, m) \/ Settle(o, m) \/ Rescue(o, m)
  BY <1>8, FinishMasterTyped DEF Return, Settle, Rescue
<1>9. CASE PruneStep(o, m)
  BY <1>9, GotoTyped DEF PruneStep, ProcOK, WorkOK
<1>10. QED
  BY <1>1, <1>2, <1>3, <1>4, <1>5, <1>6, <1>7, <1>8, <1>9 DEF Main

LEMMA WorkerTyped ==
    ASSUME JobsOK, ProcOK, WorkOK, NEW o \in Owners, NEW m \in Masters,
           NEW c \in TeamOf(m), Worker(o, m, c) \/ RaiseInWorker(o, m, c)
    PROVE  JobsOK' /\ ProcOK' /\ WorkOK'
<1>0. c \in Agents \ Masters /\ {c} \in SUBSET Agents
  BY TeamIsOfAgents
<1>1. \A f \in Futures : Future(c, f) => WorkOK'
  BY <1>0, FutureTyped
<1>2. proc' = Synced(o, {c}) \/ UNCHANGED proc => ProcOK'
  BY <1>0, SyncedTyped DEF ProcOK
<1>3. CASE StartWorker(o, m, c)
  BY <1>1, <1>2, <1>3 DEF StartWorker, JobsOK, Futures, WorkOK
<1>4. CASE FinishWorker(o, m, c)
  BY <1>1, <1>2, <1>4 DEF FinishWorker, JobsOK, Futures
<1>5. CASE CollectRaised(o, m, c)
  BY <1>1, <1>2, <1>5 DEF CollectRaised, JobsOK, Futures
<1>6. CASE RaiseInWorker(o, m, c)
  <2>1. [jobs[m] EXCEPT !.raises = jobs[m].raises + 1] \in Job
    <3>1. jobs[m] \in Job /\ jobs[m].raises \in 0..MaxRaises
          /\ MaxRaises \in Nat /\ jobs[m].raises < MaxRaises
      BY <1>6, OrchestratorAssumption DEF RaiseInWorker, JobsOK, Job
    <3>2. jobs[m].raises + 1 \in 0..MaxRaises
      BY <3>1
    <3>3. QED BY <3>1, <3>2 DEF Job
  <2>2. JobsOK'
    BY <1>6, <2>1 DEF RaiseInWorker, JobsOK
  <2>3. QED BY <1>1, <1>2, <1>6, <2>2 DEF RaiseInWorker, Futures
<1>7. QED
  BY <1>3, <1>4, <1>5, <1>6 DEF Worker

LEMMA ProcessTyped ==
    ASSUME JobsOK, ProcOK, WorkOK, NEW o \in Owners,
           \/ EnsureOwner(o) \/ Beat(o) \/ Close(o) \/ Die(o) \/ Snapshot(o)
           \/ \E S \in Selectors : RequestCancel(o, S)
    PROVE  JobsOK' /\ ProcOK' /\ WorkOK'
<1>1. UNCHANGED <<jobs, work>>
  BY DEF EnsureOwner, Beat, Close, Die, Snapshot, RequestCancel
<1>2. ASSUME NEW S \in Selectors, proc' = Synced(o, Selected(S)) PROVE ProcOK'
  <2>1. Selected(S) \in SUBSET Agents
    BY <1>2 DEF Selectors, Selected
  <2>2. QED BY <1>2, <2>1, SyncedTyped
<1>3. ASSUME Beat(o) PROVE ProcOK'
  <2>1. HeartbeatEvery \in 0..HeartbeatEvery
    BY OrchestratorAssumption
  <2>2. proc' = [proc EXCEPT ![o].timer = HeartbeatEvery]
    BY <1>3 DEF Beat
  <2>3. QED BY <2>1, <2>2 DEF ProcOK, Process
<1>4. ASSUME NEW mode \in {"up", "closing", "down"},
             proc' = [proc EXCEPT ![o].mode = mode]
      PROVE  ProcOK'
  BY <1>4 DEF ProcOK, Process
<1>5. UNCHANGED proc => ProcOK'
  BY DEF ProcOK
<1>6. ProcOK'
  BY <1>2, <1>3, <1>4, <1>5 DEF EnsureOwner, Close, Die, Snapshot, RequestCancel
<1>7. QED
  BY <1>1, <1>6 DEF JobsOK, WorkOK

LEMMA LaunchTyped ==
    ASSUME JobsOK, ProcOK, WorkOK, NEW o \in Owners, NEW m \in Masters,
           NEW kind \in MasterKinds, NEW repo \in BOOLEAN,
           NEW src \in Masters \cup {NoAgent}, Launch(o, m, kind, repo, src)
    PROVE  JobsOK' /\ ProcOK' /\ WorkOK'
<1>1. kind \in {"none", "inline", "delegated", "background"}
      /\ src \in Agents \cup {NoAgent} /\ MaxRaises \in Nat
  BY OrchestratorAssumption
<1>2. 0 \in 0..MaxRaises
  BY <1>1
<1>3. [IdleJob EXCEPT !.pc = "create", !.owner = o, !.kind = kind,
                      !.repo = repo, !.src = src] \in Job
  BY <1>1, <1>2 DEF IdleJob, Job, Results
<1>4. QED
  BY <1>3 DEF Launch, JobsOK, ProcOK, WorkOK

LEMMA TickTyped ==
    ASSUME JobsOK, ProcOK, WorkOK, Tick
    PROVE  JobsOK' /\ ProcOK' /\ WorkOK'
<1>1. \A o \in Owners :
          [proc[o] EXCEPT !.timer = IF proc[o].timer > 0 THEN proc[o].timer - 1 ELSE 0]
              \in Process
  <2> SUFFICES ASSUME NEW o \in Owners
               PROVE  [proc[o] EXCEPT !.timer = IF proc[o].timer > 0
                                                THEN proc[o].timer - 1 ELSE 0]
                          \in Process
    OBVIOUS
  <2>1. HeartbeatEvery \in Nat /\ proc[o] \in Process
        /\ proc[o].timer \in 0..HeartbeatEvery
    BY OrchestratorAssumption DEF ProcOK, Process
  <2>2. PICK t \in 0..HeartbeatEvery :
            t = IF proc[o].timer > 0 THEN proc[o].timer - 1 ELSE 0
    BY <2>1
  <2>3. QED BY <2>1, <2>2 DEF Process
<1>2. QED
  BY <1>1 DEF Tick, JobsOK, ProcOK, WorkOK

LEMMA RaiseTyped ==
    ASSUME JobsOK, ProcOK, WorkOK, NEW o, NEW m \in Masters, Raise(o, m)
    PROVE  JobsOK' /\ ProcOK' /\ WorkOK'
<1>1. PICK pc \in {"rescue", "lost"} :
          jobs' = [jobs EXCEPT ![m].raises = jobs[m].raises + 1, ![m].pc = pc]
  BY DEF Raise
<1>2. jobs[m] \in Job /\ jobs[m].raises \in 0..MaxRaises
      /\ MaxRaises \in Nat /\ jobs[m].raises < MaxRaises
  BY OrchestratorAssumption DEF Raise, JobsOK, Job
<1>3. jobs[m].raises + 1 \in 0..MaxRaises
  BY <1>2
<1>4. [jobs[m] EXCEPT !.raises = jobs[m].raises + 1, !.pc = pc] \in Job
  BY <1>2, <1>3 DEF Job
<1>5. jobs' = [jobs EXCEPT ![m] =
                  [jobs[m] EXCEPT !.raises = jobs[m].raises + 1, !.pc = pc]]
  BY <1>1, <1>2 DEF JobsOK, Job
<1>6. QED
  BY <1>4, <1>5 DEF Raise, JobsOK, ProcOK, WorkOK

LEMMA LocalsTyped ==
    ASSUME JobsOK, ProcOK, WorkOK, [Next]_vars
    PROVE  JobsOK' /\ ProcOK' /\ WorkOK'
<1>1. CASE UNCHANGED vars
  BY <1>1 DEF vars, JobsOK, ProcOK, WorkOK
<1>2. CASE \E o \in Owners :
              \/ EnsureOwner(o) \/ Beat(o) \/ Close(o) \/ Die(o) \/ Snapshot(o)
              \/ \E S \in Selectors : RequestCancel(o, S)
  BY <1>2, ProcessTyped
<1>3. CASE \E o \in Owners, m \in Masters, kind \in MasterKinds, repo \in BOOLEAN,
              src \in Masters \cup {NoAgent} : Launch(o, m, kind, repo, src)
  BY <1>3, LaunchTyped
<1>4. CASE \E o \in Owners, m \in Masters :
              Main(o, m) \/ Raise(o, m)
  BY <1>4, MainTyped, RaiseTyped
<1>5. CASE \E o \in Owners, m \in Masters : \E c \in TeamOf(m) :
              Worker(o, m, c) \/ RaiseInWorker(o, m, c)
  BY <1>5, WorkerTyped
<1>6. CASE Tick
  BY <1>6, TickTyped
<1>7. QED
  BY <1>1, <1>2, <1>3, <1>4, <1>5, <1>6 DEF Next

-----------------------------------------------------------------------------
\* Every step is a step of a client of the ledger.

\* A thread that creates children does so for its own master, which is there.
Spawning ==
    \A m \in Masters :
        jobs[m].pc \in {"start", "spawn"} =>
           /\ agents[m].status # "absent" /\ agents[m].parent = NoAgent
           /\ agents[m].status # "pruned" => agents[m].owner = jobs[m].owner

LEMMA MainIsClient ==
    ASSUME JobsOK, Spawning, NEW o \in Owners, NEW m \in Masters,
           jobs[m].owner = o, Main(o, m)
    PROVE  [ClientNext]_storeVars
<1>0. m \in Agents
  BY OrchestratorAssumption
<1>1. CASE CreateMaster(o, m)
  <2>1. jobs[m].src \in Agents \cup {NoAgent}
    BY DEF JobsOK, Job
  <2>2. MayParent(NoAgent, o)
    BY DEF MayParent
  <2>3. QED BY <1>0, <1>1, <2>1, <2>2 DEF CreateMaster, ClientNext
<1>2. CASE StartMaster(o, m)
  <2>1. (jobs[m].kind = "inline") \in BOOLEAN
    OBVIOUS
  <2>2. QED BY <1>0, <1>2, <2>1 DEF StartMaster, ClientNext, storeVars
<1>3. CASE CreateChild(o, m)
  <2>1. MayParent(m, o)
    BY <1>0, <1>3 DEF CreateChild, Spawning, MayParent
  <2>2. Team[m][jobs[m].next] \in Agents
    BY <1>3, TeamIsOfAgents DEF CreateChild, TeamOf
  <2>3. QED BY <1>0, <1>3, <2>1, <2>2 DEF CreateChild, ClientNext
<1>4. CASE Submit(o, m) \/ Join(o, m) \/ CheckOutputs(o, m)
  BY <1>4 DEF Submit, Join, CheckOutputs, storeVars
<1>5. CASE BeginAudit(o, m)
  BY <1>0, <1>5 DEF BeginAudit, ClientNext, storeVars
<1>6. ASSUME NEW r \in Results, FinishMaster(o, m, r)
      PROVE  [ClientNext]_storeVars
  BY <1>0, <1>6 DEF FinishMaster, ClientNext, storeVars, Results
<1>7. CASE Return(o, m) \/ Settle(o, m) \/ Rescue(o, m)
  <2>1. jobs[m].verdict \in Results /\ "error" \in Results
    BY DEF JobsOK, Job, Results
  <2>2. QED BY <1>6, <1>7, <2>1 DEF Return, Settle, Rescue
<1>8. CASE PruneStep(o, m)
  BY <1>8 DEF PruneStep, ClientNext
<1>9. QED
  BY <1>1, <1>2, <1>3, <1>4, <1>5, <1>7, <1>8 DEF Main

LEMMA WorkerIsClient ==
    ASSUME NEW o \in Owners, NEW m \in Masters, NEW c \in TeamOf(m),
           Worker(o, m, c) \/ RaiseInWorker(o, m, c)
    PROVE  [ClientNext]_storeVars
<1>0. c \in Agents
  BY TeamIsOfAgents
<1>1. CASE StartWorker(o, m, c)
  BY <1>0, <1>1 DEF StartWorker, ClientNext, storeVars
<1>2. CASE FinishWorker(o, m, c)
  BY <1>0, <1>2 DEF FinishWorker, ClientNext, storeVars, Results
<1>3. CASE CollectRaised(o, m, c)
  BY <1>0, <1>3 DEF CollectRaised, ClientNext, storeVars
<1>4. QED
  BY <1>1, <1>2, <1>3 DEF Worker, RaiseInWorker, storeVars

LEMMA StepIsClient ==
    ASSUME JobsOK, Spawning, [Next]_vars
    PROVE  [ClientNext]_storeVars
<1>1. CASE UNCHANGED vars
  BY <1>1 DEF vars, storeVars
<1>2. ASSUME NEW o \in Owners,
             EnsureOwner(o) \/ Beat(o) \/ Close(o) \/ Die(o) \/ Snapshot(o)
      PROVE  [ClientNext]_storeVars
  BY <1>2
  DEF EnsureOwner, Beat, Close, Die, Snapshot, ClientNext, storeVars
<1>3. ASSUME NEW o \in Owners, NEW S \in Selectors, RequestCancel(o, S)
      PROVE  [ClientNext]_storeVars
  <2>1. S \in SUBSET Agents
    BY DEF Selectors
  <2>2. QED BY <1>3, <2>1 DEF RequestCancel, ClientNext
<1>4. CASE Tick
  BY <1>4 DEF Tick, ClientNext
<1>5. CASE \E o, m, kind, repo, src : Launch(o, m, kind, repo, src)
  BY <1>5 DEF Launch, storeVars
<1>6. CASE \E o, m : Raise(o, m)
  BY <1>6 DEF Raise, storeVars
<1>7. QED
  BY <1>1, <1>2, <1>3, <1>4, <1>5, <1>6, MainIsClient, WorkerIsClient DEF Next

LEMMA SpawnMoves ==
    ASSUME JobsOK, [Next]_vars, NEW m \in Masters,
           jobs'[m].pc \in {"start", "spawn"}
    PROVE  /\ jobs'[m].owner = jobs[m].owner
           /\ \/ jobs[m].pc \in {"start", "spawn"}
              \/ \E o \in Owners : jobs[m].owner = o /\ CreateMaster(o, m)
<1>1. CASE UNCHANGED jobs
  BY <1>1
<1>2. ASSUME NEW n \in Masters, NEW row, jobs' = [jobs EXCEPT ![n] = row],
             n = m => row.pc \notin {"start", "spawn"}
      PROVE  /\ jobs'[m].owner = jobs[m].owner
             /\ jobs[m].pc \in {"start", "spawn"}
  BY <1>2 DEF JobsOK
<1>3. ASSUME NEW n \in Masters, NEW pc, Goto(n, pc)
      PROVE  /\ jobs'[m].owner = jobs[m].owner
             /\ jobs[m].pc \in {"start", "spawn"}
                   \/ (n = m /\ pc \in {"start", "spawn"})
  BY <1>3 DEF Goto, JobsOK, Job
<1>4. ASSUME NEW n \in Masters, NEW r, Conclude(n, r)
      PROVE  /\ jobs'[m].owner = jobs[m].owner
             /\ jobs[m].pc \in {"start", "spawn"}
  <2>1. jobs' = [jobs EXCEPT ![n] = [jobs[n] EXCEPT !.pc = "settle", !.verdict = r]]
    BY <1>4 DEF Conclude, JobsOK, Job
  <2>2. QED BY <1>2, <2>1
<1>5. ASSUME NEW o \in Owners, NEW n \in Masters, jobs[n].owner = o, Main(o, n)
      PROVE  /\ jobs'[m].owner = jobs[m].owner
             /\ jobs[m].pc \in {"start", "spawn"} \/ (n = m /\ CreateMaster(o, n))
  <2>1. CASE CreateMaster(o, n)
    BY <1>3, <2>1 DEF CreateMaster
  <2>2. CASE StartMaster(o, n)
    BY <1>3, <2>2 DEF StartMaster
  <2>3. CASE CreateChild(o, n)
    <3>1. jobs[n].pc = "spawn" /\ jobs' = [jobs EXCEPT ![n].next = jobs[n].next + 1]
      BY <2>3 DEF CreateChild
    <3>2. QED BY <3>1 DEF JobsOK, Job
  <2>4. CASE Submit(o, n) \/ Join(o, n) \/ PruneStep(o, n)
    BY <1>3, <2>4 DEF Submit, Join, PruneStep
  <2>5. CASE CheckOutputs(o, n)
    BY <1>3, <1>4, <2>5 DEF CheckOutputs
  <2>6. CASE BeginAudit(o, n)
    BY <1>3, <1>4, <2>6 DEF BeginAudit
  <2>7. CASE Return(o, n) \/ Settle(o, n) \/ Rescue(o, n)
    BY <1>3, <2>7 DEF Return, Settle, Rescue, FinishMaster
  <2>8. QED
    BY <1>5, <2>1, <2>2, <2>3, <2>4, <2>5, <2>6, <2>7 DEF Main
<1>6. ASSUME NEW o \in Owners, NEW n \in Masters, Raise(o, n)
      PROVE  /\ jobs'[m].owner = jobs[m].owner
             /\ jobs[m].pc \in {"start", "spawn"}
  <2>1. PICK pc \in {"rescue", "lost"} :
            jobs' = [jobs EXCEPT ![n].raises = jobs[n].raises + 1, ![n].pc = pc]
    BY <1>6 DEF Raise
  <2>2. QED BY <2>1 DEF JobsOK, Job
<1>7. ASSUME NEW o \in Owners, NEW n \in Masters, NEW c,
             Worker(o, n, c) \/ RaiseInWorker(o, n, c)
      PROVE  /\ jobs'[m].owner = jobs[m].owner
             /\ jobs[m].pc \in {"start", "spawn"}
  <2>1. CASE Worker(o, n, c)
    BY <1>1, <2>1 DEF Worker, StartWorker, FinishWorker, CollectRaised
  <2>2. CASE RaiseInWorker(o, n, c)
    <3>1. jobs' = [jobs EXCEPT ![n].raises = jobs[n].raises + 1]
      BY <2>2 DEF RaiseInWorker
    <3>2. QED BY <3>1 DEF JobsOK, Job
  <2>3. QED BY <1>7, <2>1, <2>2
<1>8. ASSUME NEW o, NEW n \in Masters, NEW kind, NEW repo, NEW src,
             Launch(o, n, kind, repo, src)
      PROVE  /\ jobs'[m].owner = jobs[m].owner
             /\ jobs[m].pc \in {"start", "spawn"}
  BY <1>8 DEF Launch, IdleJob, JobsOK, Job
<1>9. CASE \E o \in Owners :
              \/ EnsureOwner(o) \/ Beat(o) \/ Close(o) \/ Die(o) \/ Snapshot(o)
              \/ \E S \in Selectors : RequestCancel(o, S)
  BY <1>1, <1>9 DEF EnsureOwner, Beat, Close, Die, Snapshot, RequestCancel
<1>10. CASE Tick \/ UNCHANGED vars
  BY <1>1, <1>10 DEF Tick, vars
<1>11. QED
  BY <1>5, <1>6, <1>7, <1>8, <1>9, <1>10 DEF Next

OInv == IInv /\ JobsOK /\ ProcOK /\ WorkOK /\ Spawning

LEMMA SpawningStep ==
    ASSUME OInv, [Next]_vars
    PROVE  Spawning'
<1>1. [ClientNext]_storeVars
  BY StepIsClient DEF OInv
<1> SUFFICES ASSUME NEW m \in Masters, jobs'[m].pc \in {"start", "spawn"}
             PROVE  /\ agents'[m].status # "absent" /\ agents'[m].parent = NoAgent
                    /\ agents'[m].status # "pruned" =>
                          agents'[m].owner = jobs'[m].owner
  BY DEF Spawning
<1>2. m \in Agents /\ jobs'[m].owner = jobs[m].owner
  BY SpawnMoves, OrchestratorAssumption DEF OInv
<1>3. CASE jobs[m].pc \in {"start", "spawn"}
  <2>1. /\ agents[m].status # "absent" /\ agents[m].parent = NoAgent
        /\ agents[m].status # "pruned" => agents[m].owner = jobs[m].owner
    BY <1>3 DEF OInv, Spawning
  <2>2. CASE agents'[m] = MissingRow("pruned")
    BY <2>2 DEF MissingRow
  <2>3. CASE agents'[m] # MissingRow("pruned")
    BY <1>1, <1>2, <2>1, <2>3, RowKept DEF OInv, Missing
  <2>4. QED BY <2>2, <2>3
<1>4. ASSUME NEW o \in Owners, jobs[m].owner = o, CreateMaster(o, m)
      PROVE  /\ agents'[m].status # "absent" /\ agents'[m].parent = NoAgent
             /\ agents'[m].owner = jobs'[m].owner
  <2>1. CreateAgent(m, o, NoAgent, jobs[m].src) /\ MayParent(NoAgent, o)
        /\ jobs[m].src \in Agents \cup {NoAgent}
    BY <1>4 DEF CreateMaster, MayParent, OInv, JobsOK, Job
  <2>2. /\ agents'[m].owner = o /\ agents'[m].parent = NoAgent
        /\ agents'[m].status = IF Inherits(NoAgent) THEN "cancelled" ELSE "queued"
    BY <1>2, <2>1, RowCreated DEF OInv
  <2>3. QED BY <1>2, <1>4, <2>2
<1>5. QED
  BY <1>3, <1>4, SpawnMoves DEF OInv

LEMMA InitOInv == Init => OInv
<1> SUFFICES ASSUME Init PROVE OInv
  OBVIOUS
<1>1. IInv
  BY InitIInv DEF Init, ClientInit
<1>2. HeartbeatEvery \in 0..HeartbeatEvery /\ 0 \in 0..MaxRaises
  BY OrchestratorAssumption
<1>3. IdleJob \in Job
  BY <1>2 DEF IdleJob, Job, Results
<1>4. JobsOK /\ WorkOK
  BY <1>3 DEF Init, JobsOK, WorkOK, Futures
<1>5. ProcOK
  BY <1>2 DEF Init, ProcOK, Process
<1>6. Spawning
  BY DEF Init, Spawning, IdleJob
<1>7. QED BY <1>1, <1>4, <1>5, <1>6 DEF OInv

LEMMA NextOInv == OInv /\ [Next]_vars => OInv'
<1> SUFFICES ASSUME OInv, [Next]_vars PROVE OInv'
  OBVIOUS
<1>1. [ClientNext]_storeVars
  BY StepIsClient DEF OInv
<1>2. IInv'
  BY <1>1, NextIInv DEF OInv
<1>3. QED
  BY <1>2, LocalsTyped, SpawningStep DEF OInv

-----------------------------------------------------------------------------
\* The theorems.

\* The processes are clients of the ledger: they invoke its operations only,
\* and create children only for their own masters (master_orchestrator.py).
THEOREM OrchestratorIsClient == Spec => ClientSpec
<1>1. OInv /\ [Next]_vars => [ClientNext]_storeVars
  BY StepIsClient DEF OInv
<1>2. Init => ClientInit
  BY DEF Init, ClientInit
<1>3. QED
  BY <1>1, <1>2, InitOInv, NextOInv, PTL DEF Spec, ClientSpec

\* The ledger and the locals of every thread keep their domains.
THEOREM OrchestratorTypeCorrect == Spec => []OrchestratorTypeOK
<1>1. OInv => OrchestratorTypeOK
  BY DEF OInv, IInv, JobsOK, ProcOK, WorkOK, OrchestratorTypeOK
<1>2. QED
  BY <1>1, InitOInv, NextOInv, PTL DEF Spec

\* What holds of the ledger under every client holds under the processes.
THEOREM OrchestratorCancelWins == Spec => []CancelWins
BY OrchestratorIsClient, FleetCancelWins, PTL

THEOREM OrchestratorSubtreeCancelled == Spec => []SubtreeCancelled
BY OrchestratorIsClient, FleetSubtreeCancelled, PTL

THEOREM OrchestratorRecoveryLinked == Spec => []RecoveryLinked
BY OrchestratorIsClient, FleetRecoveryLinked, PTL

THEOREM OrchestratorFinishedIsFinal == Spec => FinishedIsFinal
BY OrchestratorIsClient, FleetFinishedIsFinal, PTL

-----------------------------------------------------------------------------
\* What a run may rely on about its rows, between any two of its steps.

\* Only the process that runs a master inserts its rows.
OwnRow(row, job) == row.status \notin Missing => row.owner = job.owner

\* The row of a master says where its thread can be.
MasterOK(row, job) ==
    /\ job.pc \in {"none", "create"} => row.status = "absent"
    /\ job.pc = "start" => row.status # "running"
    /\ job.pc \in {"spawn", "pool", "joined", "audit"} => row.status # "queued"
    /\ job.pc \in {"start", "spawn", "pool", "joined", "audit", "calling",
                   "settle", "rescue"} =>
          /\ row.status \notin {"done", "failed"}
          /\ row.status = "retried" => row.cancel
    /\ job.pc \in {"prune", "over"} => row.status \notin Active
    /\ job.kind = "inline" =>
          job.pc \notin {"spawn", "pool", "joined", "audit", "settle", "rescue"}

\* The row of a child says what can have become of its future f.
ChildOK(row, f, job) ==
    /\ f \in {"none", "submitted"} =>
          row.status \notin {"running", "done", "failed"}
    /\ f = "calling" =>
          /\ row.status \notin {"absent", "done", "failed"}
          /\ row.status = "retried" => row.cancel
    /\ f = "kept" => row.status \in {"done", "pruned"}
    /\ \/ f \in {"kept", "dropped"}
       \/ job.pc \in {"joined", "audit", "calling", "settle", "rescue", "prune", "over"}
       => row.status \notin Active
    /\ job.pc \in {"none", "create", "start"} \/ job.kind = "inline" =>
          row.status = "absent"
    /\ job.pc \in {"none", "create", "start", "spawn"} \/ job.kind = "inline" =>
          f = "none"

\* What a delegated master is given to say rests on a result that was kept.
VerdictOK(row, job, kept) ==
    /\ job.pc = "settle" =>
          /\ job.verdict = "none" => row.status \in Missing \/ row.cancel
          /\ job.verdict = "output" => job.repo
    /\ /\ job.kind # "inline"
       /\ \/ job.pc \in {"audit", "calling"}
          \/ row.status = "done" /\ ~ job.repo
       => kept

AnyKept(m) == \E c \in TeamOf(m) : work[c] = "kept"

RunOK(m) ==
    /\ OwnRow(agents[m], jobs[m]) /\ MasterOK(agents[m], jobs[m])
    /\ VerdictOK(agents[m], jobs[m], AnyKept(m))
    /\ \A c \in TeamOf(m) :
          OwnRow(agents[c], jobs[m]) /\ ChildOK(agents[c], work[c], jobs[m])

RunsOK == \A m \in Masters : RunOK(m)

\* What the steps of others can do to a row.
Foreign(old, new) ==
    /\ new.status # "pruned" =>
          new.owner = old.owner /\ (old.cancel => new.cancel)
    /\ \A s \in {"running", "queued", "done", "failed", "absent"} :
          new.status = s => old.status = s
    /\ old.status \in Missing => new.status = old.status
    /\ old.status = "done" => new.status \in {"done", "pruned"}
    /\ new.status = "retried" => old.status \in {"retried", "failed"} \/ new.cancel

AllForeignBut(X) ==
    \A a \in Agents \ X : Foreign(agents[a], agents'[a])

LEMMA ForeignRow ==
    ASSUME NEW old \in Row, RowOK(old), NEW new,
           \/ new = old
           \/ old.status \in Active /\ (new = Interrupted(old) \/ new = Cancelled(old))
           \/ Recovered(old, new) \/ Pruned(old, new)
    PROVE  Foreign(old, new)
<1>1. CASE new = old
  BY <1>1 DEF Foreign, Missing
<1>2. CASE old.status \in Active /\ new = Interrupted(old)
  BY <1>2 DEF Foreign, Interrupted, Row, Active, Missing
<1>3. CASE old.status \in Active /\ new = Cancelled(old)
  BY <1>3 DEF Foreign, Cancelled, Row, Active, Missing
<1>4. CASE Recovered(old, new)
  BY <1>4 DEF Foreign, Recovered, Retried, Row, RowOK, Missing
<1>5. CASE Pruned(old, new)
  BY <1>5 DEF Foreign, Pruned, MissingRow, Terminal, Missing
<1>6. QED
  BY <1>1, <1>2, <1>3, <1>4, <1>5

LEMMA ForeignOperations ==
    ASSUME FleetTypeOK, Rows
    PROVE  /\ UNCHANGED agents => AllForeignBut({})
           /\ \A O : InterruptAgentsOf(O) => AllForeignBut({})
           /\ \A S \in SUBSET Agents : CancelAgents(S) => AllForeignBut({})
           /\ Prune => AllForeignBut({})
           /\ \A x \in Agents : \A o, p, src : CreateAgent(x, o, p, src) => AllForeignBut({x})
           /\ \A x \in Agents : \A o, b : StartAgent(x, o, b) => AllForeignBut({x})
           /\ \A x \in Agents : \A o : BeginModelCall(x, o) => AllForeignBut({x})
           /\ \A x \in Agents : \A o, r : FinishAgent(x, o, r) => AllForeignBut({x})
<1>0. /\ agents \in [Agents -> Row]
      /\ \A a \in Agents : agents[a] \in Row /\ RowOK(agents[a])
  BY DEF FleetTypeOK, Rows
<1>1. \A a \in Agents : agents'[a] = agents[a] => Foreign(agents[a], agents'[a])
  BY <1>0, ForeignRow
<1>2. UNCHANGED agents => AllForeignBut({})
  BY <1>1 DEF AllForeignBut
<1>3. ASSUME NEW O, InterruptAgentsOf(O) PROVE AllForeignBut({})
  BY <1>0, <1>3, ForeignRow DEF InterruptAgentsOf, AllForeignBut, IsActive
<1>4. ASSUME NEW S \in SUBSET Agents, CancelAgents(S) PROVE AllForeignBut({})
  <2>1. \A a \in Selected(S) : agents[a].status \in Active
    BY <1>4 DEF Selected, CancelAgents, IsActive
  <2>2. QED BY <1>0, <1>4, <2>1, ForeignRow DEF CancelAgents, AllForeignBut
<1>5. CASE Prune
  <2>1. PICK K \in SUBSET {a \in Agents : IsFinished(a)} :
            agents' = [a \in Agents |->
                           IF a \in K THEN MissingRow("pruned") ELSE agents[a]]
    BY <1>5 DEF Prune
  <2>2. \A a \in K : Pruned(agents[a], MissingRow("pruned"))
    BY DEF Pruned, IsFinished
  <2>3. QED BY <1>0, <2>1, <2>2, ForeignRow DEF AllForeignBut
<1>6. ASSUME NEW x \in Agents, NEW row, agents' = [agents EXCEPT ![x] = row]
      PROVE  AllForeignBut({x})
  BY <1>0, <1>1, <1>6 DEF AllForeignBut
<1>7. ASSUME NEW x \in Agents, NEW o, NEW p, NEW src, CreateAgent(x, o, p, src)
      PROVE  AllForeignBut({x})
  BY <1>6, <1>7 DEF CreateAgent
<1>8. ASSUME NEW x \in Agents, NEW o, NEW b, StartAgent(x, o, b)
      PROVE  AllForeignBut({x})
  <2>1. agents' = [agents EXCEPT ![x] =
                      [agents[x] EXCEPT !.status = "running", !.inCall = b]]
    BY <1>0, <1>8 DEF StartAgent, Row
  <2>2. QED BY <1>6, <2>1
<1>9. ASSUME NEW x \in Agents, NEW o, BeginModelCall(x, o)
      PROVE  AllForeignBut({x})
  BY <1>6, <1>9 DEF BeginModelCall
<1>10. ASSUME NEW x \in Agents, NEW o, NEW r, FinishAgent(x, o, r)
      PROVE  AllForeignBut({x})
  <2>1. \A b \in Agents : Recovers(x, r, b) => Recovered(agents[b], Retried(agents[b], x))
    BY DEF Recovered, Recovers
  <2>2. \A b \in Agents \ {x} :
            agents'[b] = IF Recovers(x, r, b) THEN Retried(agents[b], x) ELSE agents[b]
    BY <1>10 DEF FinishAgent
  <2>3. QED BY <1>0, <2>1, <2>2, ForeignRow DEF AllForeignBut
<1>11. QED
  BY <1>2, <1>3, <1>4, <1>5, <1>7, <1>8, <1>9, <1>10

LEMMA ForeignKeeps ==
    ASSUME NEW old, NEW new, Foreign(old, new), NEW job
    PROVE  /\ OwnRow(old, job) => OwnRow(new, job)
           /\ MasterOK(old, job) => MasterOK(new, job)
           /\ \A f : ChildOK(old, f, job) => ChildOK(new, f, job)
           /\ \A kept : VerdictOK(old, job, kept) => VerdictOK(new, job, kept)
<1>1. OwnRow(old, job) => OwnRow(new, job)
  BY DEF Foreign, OwnRow, Missing
<1>2. MasterOK(old, job) => MasterOK(new, job)
  BY DEF Foreign, MasterOK, Missing, Active
<1>3. \A f : ChildOK(old, f, job) => ChildOK(new, f, job)
  BY DEF Foreign, ChildOK, Missing, Active
<1>4. \A kept : VerdictOK(old, job, kept) => VerdictOK(new, job, kept)
  BY DEF Foreign, VerdictOK, Missing
<1>5. QED BY <1>1, <1>2, <1>3, <1>4

\* Steps that leave a run's locals and futures alone keep it as it should be.
LEMMA OthersKeepRun ==
    ASSUME NEW m \in Masters, RunOK(m), jobs'[m] = jobs[m],
           \A c \in TeamOf(m) : work'[c] = work[c],
           \A a \in TeamOf(m) \cup {m} : Foreign(agents[a], agents'[a])
    PROVE  RunOK(m)'
<1>1. AnyKept(m)' = AnyKept(m)
  BY DEF AnyKept, TeamOf
<1>2. TeamOf(m)' = TeamOf(m)
  BY DEF TeamOf
<1>3. /\ OwnRow(agents'[m], jobs'[m]) /\ MasterOK(agents'[m], jobs'[m])
      /\ VerdictOK(agents'[m], jobs'[m], AnyKept(m))
  BY ForeignKeeps DEF RunOK
<1>4. \A c \in TeamOf(m) :
          OwnRow(agents'[c], jobs'[m]) /\ ChildOK(agents'[c], work'[c], jobs'[m])
  BY ForeignKeeps DEF RunOK
<1>5. QED
  BY <1>1, <1>2, <1>3, <1>4 DEF RunOK

-----------------------------------------------------------------------------
\* The steps of one run touch no other run's rows, locals or futures.

LEMMA JobChange ==
    ASSUME JobsOK, NEW m \in Masters
    PROVE  /\ \A pc : Goto(m, pc) => jobs' = [jobs EXCEPT ![m] = [jobs[m] EXCEPT !.pc = pc]]
           /\ \A r : Conclude(m, r) =>
                 jobs' = [jobs EXCEPT ![m] =
                             [jobs[m] EXCEPT !.pc = "settle", !.verdict = r]]
BY DEF JobsOK, Goto, Conclude, Job

LEMMA RunFootprint ==
    ASSUME OInv, NEW o \in Owners, NEW m \in Masters,
           \/ Main(o, m) \/ Raise(o, m)
           \/ \E c \in TeamOf(m) : Worker(o, m, c) \/ RaiseInWorker(o, m, c)
    PROVE  /\ \A n \in Masters \ {m} : jobs'[n] = jobs[n]
           /\ \A c \in (Agents \ Masters) \ TeamOf(m) : work'[c] = work[c]
           /\ AllForeignBut(TeamOf(m) \cup {m})
<1>0. /\ m \in Agents /\ TeamOf(m) \subseteq Agents \ Masters
      /\ FleetTypeOK /\ Rows /\ JobsOK /\ WorkOK
  BY OrchestratorAssumption, TeamIsOfAgents DEF OInv, IInv
<1>1. \A X, Y : AllForeignBut(X) /\ X \subseteq Y => AllForeignBut(Y)
  BY DEF AllForeignBut
<1>2. /\ AllForeignBut({}) => AllForeignBut(TeamOf(m) \cup {m})
      /\ AllForeignBut({m}) => AllForeignBut(TeamOf(m) \cup {m})
      /\ \A c \in TeamOf(m) : AllForeignBut({c}) => AllForeignBut(TeamOf(m) \cup {m})
  BY <1>1
<1>3. \A row : jobs' = [jobs EXCEPT ![m] = row] =>
          \A n \in Masters \ {m} : jobs'[n] = jobs[n]
  BY <1>0 DEF JobsOK
<1>4. \A pc : Goto(m, pc) \/ Conclude(m, pc) => \A n \in Masters \ {m} : jobs'[n] = jobs[n]
  BY <1>0, <1>3, JobChange
<1>5. ASSUME NEW r, FinishMaster(o, m, r)
      PROVE  /\ \A n \in Masters \ {m} : jobs'[n] = jobs[n]
             /\ UNCHANGED work /\ AllForeignBut(TeamOf(m) \cup {m})
  BY <1>0, <1>2, <1>4, <1>5, ForeignOperations DEF FinishMaster
<1>6. CASE CreateMaster(o, m)
  BY <1>0, <1>2, <1>4, <1>6, ForeignOperations DEF CreateMaster
<1>7. CASE StartMaster(o, m)
  BY <1>0, <1>2, <1>4, <1>7, ForeignOperations DEF StartMaster
<1>8. CASE CreateChild(o, m)
  <2>1. Team[m][jobs[m].next] \in TeamOf(m)
    BY <1>8 DEF CreateChild, TeamOf
  <2>2. AllForeignBut({Team[m][jobs[m].next]})
    BY <1>0, <1>8, <2>1, ForeignOperations DEF CreateChild
  <2>3. jobs' = [jobs EXCEPT ![m] = [jobs[m] EXCEPT !.next = jobs[m].next + 1]]
    BY <1>8 DEF CreateChild
  <2>4. QED BY <1>2, <1>3, <1>8, <2>1, <2>2, <2>3 DEF CreateChild
<1>9. CASE Submit(o, m)
  BY <1>0, <1>2, <1>4, <1>9, ForeignOperations DEF Submit
<1>10. CASE Join(o, m)
  BY <1>0, <1>2, <1>4, <1>10, ForeignOperations DEF Join
<1>11. CASE CheckOutputs(o, m)
  BY <1>0, <1>2, <1>4, <1>11, ForeignOperations DEF CheckOutputs
<1>12. CASE BeginAudit(o, m)
  BY <1>0, <1>2, <1>4, <1>12, ForeignOperations DEF BeginAudit
<1>13. CASE Return(o, m) \/ Settle(o, m) \/ Rescue(o, m)
  BY <1>5, <1>13 DEF Return, Settle, Rescue
<1>14. CASE PruneStep(o, m)
  BY <1>0, <1>2, <1>4, <1>14, ForeignOperations DEF PruneStep
<1>15. CASE Raise(o, m)
  <2>1. PICK pc : jobs' = [jobs EXCEPT ![m].raises = jobs[m].raises + 1, ![m].pc = pc]
    BY <1>15 DEF Raise
  <2>2. \A n \in Masters \ {m} : jobs'[n] = jobs[n]
    BY <1>0, <2>1 DEF JobsOK
  <2>3. QED BY <1>0, <1>2, <1>15, <2>2, ForeignOperations DEF Raise
<1>16. ASSUME NEW c \in TeamOf(m), Worker(o, m, c) \/ RaiseInWorker(o, m, c)
       PROVE  /\ \A n \in Masters \ {m} : jobs'[n] = jobs[n]
              /\ \A d \in (Agents \ Masters) \ TeamOf(m) : work'[d] = work[d]
              /\ AllForeignBut(TeamOf(m) \cup {m})
  <2>1. c \in Agents \ Masters
    BY <1>0
  <2>2. \A f : Future(c, f) => \A d \in (Agents \ Masters) \ TeamOf(m) : work'[d] = work[d]
    BY <1>0 DEF Future, WorkOK
  <2>3. CASE StartWorker(o, m, c)
    BY <1>0, <1>2, <2>1, <2>2, <2>3, ForeignOperations DEF StartWorker
  <2>4. CASE FinishWorker(o, m, c)
    BY <1>0, <1>2, <2>1, <2>2, <2>4, ForeignOperations DEF FinishWorker
  <2>5. CASE CollectRaised(o, m, c)
    BY <1>0, <1>2, <2>1, <2>2, <2>5, ForeignOperations DEF CollectRaised
  <2>6. CASE RaiseInWorker(o, m, c)
    <3>1. jobs' = [jobs EXCEPT ![m] = [jobs[m] EXCEPT !.raises = jobs[m].raises + 1]]
      BY <2>6 DEF RaiseInWorker
    <3>2. QED BY <1>0, <1>2, <1>3, <2>2, <2>6, <3>1, ForeignOperations DEF RaiseInWorker
  <2>7. QED BY <1>16, <2>3, <2>4, <2>5, <2>6 DEF Worker
<1>17. QED
  BY <1>6, <1>7, <1>8, <1>9, <1>10, <1>11, <1>12, <1>13, <1>14, <1>15, <1>16 DEF Main

-----------------------------------------------------------------------------
\* Each step of a run keeps it as it should be.

LEMMA MoveChild ==
    ASSUME NEW row, NEW f, NEW job, NEW next, ChildOK(row, f, job),
           next.kind = job.kind,
           next.pc \in {"none", "create", "start"} =>
               job.pc \in {"none", "create", "start"},
           next.pc = "spawn" => job.pc \in {"none", "create", "start", "spawn"},
           next.pc \in {"joined", "audit", "calling", "settle", "rescue", "prune",
                        "over"} =>
               row.status \notin Active
    PROVE  ChildOK(row, f, next)
BY DEF ChildOK

\* A step that leaves the futures alone and moves the thread only.
LEMMA MoveRun ==
    ASSUME OInv, NEW m \in Masters, RunOK(m), UNCHANGED work,
           AllForeignBut({m}), NEW next, jobs' = [jobs EXCEPT ![m] = next],
           next.kind = jobs[m].kind, next.owner = jobs[m].owner,
           next.pc \in {"none", "create", "start"} =>
               jobs[m].pc \in {"none", "create", "start"},
           next.pc = "spawn" => jobs[m].pc \in {"none", "create", "start", "spawn"},
           next.pc \in {"joined", "audit", "calling", "settle", "rescue", "prune",
                        "over"} =>
               \A c \in TeamOf(m) : agents[c].status \notin Active,
           OwnRow(agents'[m], next), MasterOK(agents'[m], next),
           VerdictOK(agents'[m], next, AnyKept(m))
    PROVE  RunOK(m)'
<1>1. jobs'[m] = next
  BY DEF OInv, JobsOK
<1>2. TeamOf(m)' = TeamOf(m) /\ AnyKept(m)' = AnyKept(m)
  BY DEF TeamOf, AnyKept
<1>3. ASSUME NEW c \in TeamOf(m)
      PROVE  OwnRow(agents'[c], next) /\ ChildOK(agents'[c], work'[c], next)
  <2>1. Foreign(agents[c], agents'[c])
    BY TeamIsOfAgents DEF AllForeignBut
  <2>2. OwnRow(agents[c], next) /\ ChildOK(agents[c], work[c], next)
    BY MoveChild DEF RunOK, OwnRow
  <2>3. QED BY <2>1, <2>2, ForeignKeeps
<1>4. QED
  BY <1>1, <1>2, <1>3 DEF RunOK

LEMMA FinishedEnds ==
    ASSUME NEW row \in Row, RowOK(row), row.status \notin Missing,
           NEW r \in Results
    PROVE  /\ Finished(row, r).status \notin Active \cup Missing
           /\ Finished(row, r).owner = row.owner
           /\ Finished(row, r).status = "done" /\ row.status # "done" =>
                 ~ row.cancel /\ r # "error"
BY DEF Finished, Discarded, Settled, Row, RowOK, Active, Terminal, Missing

LEMMA FinishMasterKeepsRun ==
    ASSUME OInv, NEW o \in Owners, NEW m \in Masters, RunOK(m),
           jobs[m].owner = o, NEW r \in Results, FinishMaster(o, m, r),
           jobs[m].pc \in {"calling", "settle", "rescue"},
           jobs[m].pc = "calling" \/ r = "error" \/ (jobs[m].pc = "settle" /\ r = jobs[m].verdict)
    PROVE  RunOK(m)'
<1>0. /\ m \in Agents /\ FleetTypeOK /\ Rows /\ JobsOK
      /\ agents[m] \in Row /\ RowOK(agents[m]) /\ jobs[m] \in Job
  BY OrchestratorAssumption DEF OInv, IInv, FleetTypeOK, Rows, JobsOK
<1>1. \A c \in TeamOf(m) : agents[c].status \notin Active
  BY DEF RunOK, ChildOK
<1>2. CASE FinishAgent(m, o, r) /\ Goto(m, "prune")
  <2>1. PICK next : next = [jobs[m] EXCEPT !.pc = "prune"]
    OBVIOUS
  <2>2. jobs' = [jobs EXCEPT ![m] = next] /\ UNCHANGED work /\ AllForeignBut({m})
    BY <1>0, <1>2, <2>1, JobChange, ForeignOperations DEF FinishMaster
  <2>3. /\ next.pc = "prune" /\ next.kind = jobs[m].kind /\ next.owner = jobs[m].owner
        /\ next.repo = jobs[m].repo
    BY <1>0, <2>1 DEF Job
  <2>4. agents'[m] = Finished(agents[m], r) /\ agents[m].status \notin Missing
        /\ agents[m].owner = o
    BY <1>0, <1>2 DEF FinishAgent, OwnedBy
  <2>5. OwnRow(agents'[m], next)
    BY <1>0, <2>3, <2>4, FinishedEnds DEF OwnRow
  <2>6. MasterOK(agents'[m], next)
    BY <1>0, <2>3, <2>4, FinishedEnds DEF MasterOK
  <2>7. VerdictOK(agents'[m], next, AnyKept(m))
    <3>1. agents[m].status # "done"
      BY DEF RunOK, MasterOK
    <3>2. SUFFICES ASSUME next.kind # "inline", agents'[m].status = "done", ~ next.repo
                   PROVE  AnyKept(m)
      BY <2>3 DEF VerdictOK
    <3>3. ~ agents[m].cancel /\ r # "error"
      BY <1>0, <2>4, <3>1, <3>2, FinishedEnds
    <3>4. CASE jobs[m].pc = "calling"
      BY <2>3, <3>2, <3>4 DEF RunOK, VerdictOK
    <3>5. CASE jobs[m].pc = "settle" /\ r = jobs[m].verdict
      <4>1. r \in {"none", "output"}
        BY <3>3 DEF Results
      <4>2. QED BY <2>3, <2>4, <3>2, <3>3, <3>5, <4>1 DEF RunOK, VerdictOK
    <3>6. QED BY <3>3, <3>4, <3>5
  <2>8. QED
    BY <1>1, <2>2, <2>3, <2>5, <2>6, <2>7, MoveRun
<1>3. CASE ~ OwnedBy(m, o) /\ Goto(m, "over") /\ UNCHANGED agents
  <2>1. PICK next : next = [jobs[m] EXCEPT !.pc = "over"]
    OBVIOUS
  <2>2. jobs' = [jobs EXCEPT ![m] = next] /\ UNCHANGED work /\ AllForeignBut({m})
    BY <1>0, <1>3, <2>1, JobChange, ForeignOperations DEF FinishMaster, AllForeignBut
  <2>3. /\ next.pc = "over" /\ next.kind = jobs[m].kind /\ next.owner = jobs[m].owner
        /\ next.repo = jobs[m].repo
    BY <1>0, <2>1 DEF Job
  <2>4. agents'[m] = agents[m] /\ agents[m].status \in Missing
    BY <1>3 DEF OwnedBy, RunOK, OwnRow
  <2>5. OwnRow(agents'[m], next) /\ MasterOK(agents'[m], next)
        /\ VerdictOK(agents'[m], next, AnyKept(m))
    BY <2>3, <2>4 DEF OwnRow, MasterOK, VerdictOK, Missing, Active, RunOK
  <2>6. QED
    BY <1>1, <2>2, <2>3, <2>5, MoveRun
<1>4. QED
  BY <1>2, <1>3 DEF FinishMaster

LEMMA MainKeepsRun ==
    ASSUME OInv, NEW o \in Owners, NEW m \in Masters, RunOK(m),
           jobs[m].owner = o, Main(o, m) \/ Raise(o, m)
    PROVE  RunOK(m)'
<1>0. /\ m \in Agents /\ FleetTypeOK /\ Rows /\ JobsOK
      /\ agents \in [Agents -> Row] /\ RowOK(agents[m]) /\ jobs[m] \in Job
      /\ NoAgent \notin Agents
  BY OrchestratorAssumption, FleetAssumption DEF OInv, IInv, FleetTypeOK, Rows, JobsOK
<1>1. \A pc : /\ [jobs[m] EXCEPT !.pc = pc].pc = pc
              /\ [jobs[m] EXCEPT !.pc = pc].kind = jobs[m].kind
              /\ [jobs[m] EXCEPT !.pc = pc].owner = jobs[m].owner
              /\ [jobs[m] EXCEPT !.pc = pc].repo = jobs[m].repo
  BY <1>0 DEF Job
<1>2. \A r : /\ [jobs[m] EXCEPT !.pc = "settle", !.verdict = r].pc = "settle"
             /\ [jobs[m] EXCEPT !.pc = "settle", !.verdict = r].kind = jobs[m].kind
             /\ [jobs[m] EXCEPT !.pc = "settle", !.verdict = r].owner = jobs[m].owner
             /\ [jobs[m] EXCEPT !.pc = "settle", !.verdict = r].repo = jobs[m].repo
             /\ [jobs[m] EXCEPT !.pc = "settle", !.verdict = r].verdict = r
  BY <1>0 DEF Job
<1>3. /\ UNCHANGED agents => AllForeignBut({m})
      /\ \A pc : Goto(m, pc) => jobs' = [jobs EXCEPT ![m] = [jobs[m] EXCEPT !.pc = pc]]
      /\ \A r : Conclude(m, r) =>
            jobs' = [jobs EXCEPT ![m] = [jobs[m] EXCEPT !.pc = "settle", !.verdict = r]]
  BY <1>0, ForeignOperations, JobChange DEF AllForeignBut
<1>4. CASE CreateMaster(o, m)
  <2>1. PICK next : next = [jobs[m] EXCEPT !.pc = "start"]
    OBVIOUS
  <2>2. jobs' = [jobs EXCEPT ![m] = next] /\ UNCHANGED work /\ AllForeignBut({m})
    BY <1>0, <1>3, <1>4, <2>1, ForeignOperations DEF CreateMaster
  <2>3. next.pc = "start" /\ next.kind = jobs[m].kind /\ next.owner = jobs[m].owner
    BY <1>1, <2>1
  <2>4. jobs[m].src \in Agents \cup {NoAgent} /\ MayParent(NoAgent, o)
    BY <1>0 DEF Job, MayParent
  <2>5. agents'[m].status = "queued" /\ agents'[m].owner = o
    BY <1>0, <1>4, <2>4, RowCreated DEF CreateMaster, Inherits, OInv
  <2>6. OwnRow(agents'[m], next) /\ MasterOK(agents'[m], next)
        /\ VerdictOK(agents'[m], next, AnyKept(m))
    BY <2>3, <2>5 DEF OwnRow, MasterOK, VerdictOK
  <2>7. jobs[m].pc = "create"
    BY <1>4 DEF CreateMaster
  <2>8. QED BY <2>2, <2>3, <2>6, <2>7, MoveRun
<1>5. CASE StartMaster(o, m)
  <2>0. jobs[m].pc = "start" /\ UNCHANGED work
        /\ \A c \in TeamOf(m) : agents[c].status \notin Active
    BY <1>5 DEF StartMaster, RunOK, ChildOK, Active
  <2>1. CASE StartAgent(m, o, jobs[m].kind = "inline")
             /\ Goto(m, IF jobs[m].kind = "inline" THEN "calling" ELSE "spawn")
    <3>1. PICK next : next = [jobs[m] EXCEPT !.pc =
                                 IF jobs[m].kind = "inline" THEN "calling" ELSE "spawn"]
      OBVIOUS
    <3>2. jobs' = [jobs EXCEPT ![m] = next] /\ AllForeignBut({m})
      BY <1>0, <1>3, <2>1, <3>1, ForeignOperations
    <3>3. /\ next.pc = IF jobs[m].kind = "inline" THEN "calling" ELSE "spawn"
          /\ next.kind = jobs[m].kind /\ next.owner = jobs[m].owner
      BY <1>1, <3>1
    <3>4. agents'[m].status = "running" /\ agents'[m].owner = o
      BY <1>0, <2>1 DEF StartAgent, CanStart, OwnedBy, Row
    <3>5. OwnRow(agents'[m], next) /\ MasterOK(agents'[m], next)
          /\ VerdictOK(agents'[m], next, AnyKept(m))
      BY <3>3, <3>4 DEF OwnRow, MasterOK, VerdictOK, Active
    <3>6. QED BY <2>0, <3>2, <3>3, <3>5, MoveRun
  <2>2. CASE ~ CanStart(m, o) /\ Goto(m, "over") /\ UNCHANGED agents
    <3>1. PICK next : next = [jobs[m] EXCEPT !.pc = "over"]
      OBVIOUS
    <3>2. jobs' = [jobs EXCEPT ![m] = next] /\ AllForeignBut({m})
      BY <1>3, <2>2, <3>1
    <3>3. /\ next.pc = "over" /\ next.kind = jobs[m].kind /\ next.owner = jobs[m].owner
      BY <1>1, <3>1
    <3>4. agents[m].status \notin Active \cup {"done"}
      BY <1>0, <2>0, <2>2
      DEF RunOK, OwnRow, MasterOK, CanStart, OwnedBy, RowOK, Active, Missing
    <3>5. OwnRow(agents'[m], next) /\ MasterOK(agents'[m], next)
          /\ VerdictOK(agents'[m], next, AnyKept(m))
      BY <2>2, <3>3, <3>4 DEF OwnRow, MasterOK, VerdictOK, RunOK
    <3>6. QED BY <2>0, <3>2, <3>3, <3>5, MoveRun
  <2>3. QED BY <1>5, <2>1, <2>2 DEF StartMaster
<1>6. CASE CreateChild(o, m)
  <2>0. PICK c \in TeamOf(m) :
            /\ c = Team[m][jobs[m].next] /\ CreateAgent(c, o, m, NoAgent)
            /\ jobs' = [jobs EXCEPT ![m] = [jobs[m] EXCEPT !.next = jobs[m].next + 1]]
    BY <1>6 DEF CreateChild, TeamOf
  <2>1. PICK next :
            /\ next = [jobs[m] EXCEPT !.next = jobs[m].next + 1]
            /\ jobs' = [jobs EXCEPT ![m] = next]
    BY <2>0
  <2>2. /\ next.pc = "spawn" /\ next.kind = jobs[m].kind /\ next.owner = jobs[m].owner
        /\ next.repo = jobs[m].repo /\ jobs[m].pc = "spawn" /\ UNCHANGED work
        /\ jobs'[m] = next
    BY <1>0, <1>6, <2>1 DEF CreateChild, Job, JobsOK
  <2>3. AllForeignBut({c}) /\ c \in Agents /\ c # m /\ MayParent(m, o)
    <3>1. c \in Agents \ Masters
      BY TeamIsOfAgents
    <3>2. AllForeignBut({c})
      BY <1>0, <2>0, <3>1, ForeignOperations
    <3>3. MayParent(m, o)
      BY <1>0, <2>2 DEF OInv, Spawning, MayParent
    <3>4. QED BY <3>1, <3>2, <3>3
  <2>4. agents'[c].status \in {"cancelled", "queued"} /\ agents'[c].owner = o
    BY <1>0, <2>0, <2>3, RowCreated DEF OInv
  <2>5. /\ TeamOf(m)' = TeamOf(m) /\ AnyKept(m)' = AnyKept(m)
        /\ Foreign(agents[m], agents'[m])
    BY <1>0, <2>2, <2>3 DEF TeamOf, AnyKept, AllForeignBut
  <2>6. OwnRow(agents[m], next) /\ MasterOK(agents[m], next)
        /\ VerdictOK(agents[m], next, AnyKept(m))
    BY <2>2 DEF RunOK, OwnRow, MasterOK, VerdictOK
  <2>7. OwnRow(agents'[m], next) /\ MasterOK(agents'[m], next)
        /\ VerdictOK(agents'[m], next, AnyKept(m))
    BY <2>5, <2>6, ForeignKeeps
  <2>8. jobs[m].kind # "inline"
    BY <2>2 DEF RunOK, MasterOK
  <2>9. ASSUME NEW d \in TeamOf(m)
        PROVE  OwnRow(agents'[d], next) /\ ChildOK(agents'[d], work'[d], next)
    <3>1. CASE d = c
      <4>1. work[c] = "none"
        BY <2>2 DEF RunOK, ChildOK
      <4>2. QED BY <2>2, <2>4, <2>8, <3>1, <4>1 DEF OwnRow, ChildOK
    <3>2. CASE d # c
      <4>1. Foreign(agents[d], agents'[d])
        BY <2>3, <3>2, TeamIsOfAgents DEF AllForeignBut
      <4>2. OwnRow(agents[d], next) /\ ChildOK(agents[d], work[d], next)
        BY <2>2 DEF RunOK, OwnRow, ChildOK
      <4>3. QED BY <2>2, <4>1, <4>2, ForeignKeeps
    <3>3. QED BY <3>1, <3>2
  <2>10. QED
    BY <2>2, <2>5, <2>7, <2>9 DEF RunOK
<1>7. CASE Submit(o, m)
  <2>1. PICK next : next = [jobs[m] EXCEPT !.pc = "pool"]
    OBVIOUS
  <2>2. /\ next.pc = "pool" /\ next.kind = jobs[m].kind /\ next.owner = jobs[m].owner
        /\ next.repo = jobs[m].repo /\ jobs[m].pc = "spawn" /\ jobs'[m] = next
        /\ UNCHANGED agents
    BY <1>0, <1>1, <1>3, <1>7, <2>1 DEF Submit, JobsOK
  <2>3. \A c \in TeamOf(m) : work[c] = "none" /\ work'[c] = "submitted"
    BY <1>7, <2>2, TeamIsOfAgents DEF Submit, RunOK, ChildOK
  <2>4. TeamOf(m)' = TeamOf(m)
    BY DEF TeamOf
  <2>5. jobs[m].kind # "inline" /\ agents[m].status \notin {"done", "failed"}
    BY <2>2 DEF RunOK, MasterOK
  <2>6. OwnRow(agents[m], next) /\ MasterOK(agents[m], next)
    BY <2>2 DEF RunOK, OwnRow, MasterOK
  <2>7. \A kept : VerdictOK(agents[m], next, kept)
    BY <2>2, <2>5 DEF VerdictOK
  <2>8. \A c \in TeamOf(m) :
            OwnRow(agents[c], next) /\ ChildOK(agents[c], work'[c], next)
    BY <2>2, <2>3, <2>5 DEF RunOK, OwnRow, ChildOK
  <2>9. QED
    BY <2>2, <2>4, <2>6, <2>7, <2>8 DEF RunOK
<1>8. CASE Join(o, m)
  <2>1. PICK next : next = [jobs[m] EXCEPT !.pc = "joined"]
    OBVIOUS
  <2>2. /\ jobs' = [jobs EXCEPT ![m] = next] /\ UNCHANGED <<agents, work>>
        /\ AllForeignBut({m}) /\ jobs[m].pc = "pool"
    BY <1>3, <1>8, <2>1 DEF Join
  <2>3. /\ next.pc = "joined" /\ next.kind = jobs[m].kind /\ next.owner = jobs[m].owner
        /\ next.repo = jobs[m].repo
    BY <1>1, <2>1
  <2>4. \A c \in TeamOf(m) : agents[c].status \notin Active
    BY <1>8 DEF Join, RunOK, ChildOK
  <2>5. OwnRow(agents'[m], next) /\ MasterOK(agents'[m], next)
        /\ VerdictOK(agents'[m], next, AnyKept(m))
    BY <2>2, <2>3 DEF RunOK, OwnRow, MasterOK, VerdictOK
  <2>6. QED BY <2>2, <2>3, <2>4, <2>5, MoveRun
<1>9. ASSUME jobs[m].pc \in {"joined", "audit"}, UNCHANGED <<agents, work>>,
             NEW r \in Results, Conclude(m, r),
             r = "none" => agents[m].status \in Missing \/ agents[m].cancel,
             r = "output" => jobs[m].repo
      PROVE  RunOK(m)'
  <2>1. PICK next : next = [jobs[m] EXCEPT !.pc = "settle", !.verdict = r]
    OBVIOUS
  <2>2. jobs' = [jobs EXCEPT ![m] = next] /\ AllForeignBut({m})
    BY <1>3, <1>9, <2>1
  <2>3. /\ next.pc = "settle" /\ next.kind = jobs[m].kind /\ next.owner = jobs[m].owner
        /\ next.repo = jobs[m].repo /\ next.verdict = r
    BY <1>2, <2>1
  <2>4. \A c \in TeamOf(m) : agents[c].status \notin Active
    BY <1>9 DEF RunOK, ChildOK
  <2>5. OwnRow(agents'[m], next) /\ MasterOK(agents'[m], next)
    BY <1>9, <2>3 DEF RunOK, OwnRow, MasterOK
  <2>6. VerdictOK(agents'[m], next, AnyKept(m))
    BY <1>9, <2>3 DEF RunOK, VerdictOK
  <2>7. QED BY <1>9, <2>2, <2>3, <2>4, <2>5, <2>6, MoveRun
<1>10. CASE CheckOutputs(o, m)
  <2>1. CASE CancelRequested(m)
    <3>1. agents[m].cancel
      BY <1>0, <2>1 DEF CancelRequested, RowOK
    <3>2. QED BY <1>9, <1>10, <2>1, <3>1 DEF CheckOutputs, Results
  <2>2. CASE ~ CancelRequested(m) /\ ~ AnyKept(m)
    BY <1>9, <1>10, <2>2 DEF CheckOutputs, AnyKept, Results
  <2>3. CASE ~ CancelRequested(m) /\ AnyKept(m)
    <3>1. PICK next : next = [jobs[m] EXCEPT !.pc = "audit"]
      OBVIOUS
    <3>2. /\ jobs' = [jobs EXCEPT ![m] = next] /\ UNCHANGED <<agents, work>>
          /\ AllForeignBut({m}) /\ jobs[m].pc = "joined"
      BY <1>3, <1>10, <2>3, <3>1 DEF CheckOutputs, AnyKept
    <3>3. /\ next.pc = "audit" /\ next.kind = jobs[m].kind /\ next.owner = jobs[m].owner
          /\ next.repo = jobs[m].repo
      BY <1>1, <3>1
    <3>4. \A c \in TeamOf(m) : agents[c].status \notin Active
      BY <3>2 DEF RunOK, ChildOK
    <3>5. OwnRow(agents'[m], next) /\ MasterOK(agents'[m], next)
          /\ VerdictOK(agents'[m], next, AnyKept(m))
      BY <2>3, <3>2, <3>3 DEF RunOK, OwnRow, MasterOK, VerdictOK
    <3>6. QED BY <3>2, <3>3, <3>4, <3>5, MoveRun
  <2>4. QED BY <2>1, <2>2, <2>3
<1>11. CASE BeginAudit(o, m)
  <2>1. CASE BeginModelCall(m, o) /\ Goto(m, "calling")
    <3>1. PICK next : next = [jobs[m] EXCEPT !.pc = "calling"]
      OBVIOUS
    <3>2. /\ jobs' = [jobs EXCEPT ![m] = next] /\ UNCHANGED work
          /\ AllForeignBut({m}) /\ jobs[m].pc = "audit"
      BY <1>0, <1>3, <1>11, <2>1, <3>1, ForeignOperations DEF BeginAudit
    <3>3. /\ next.pc = "calling" /\ next.kind = jobs[m].kind
          /\ next.owner = jobs[m].owner /\ next.repo = jobs[m].repo
      BY <1>1, <3>1
    <3>4. \A c \in TeamOf(m) : agents[c].status \notin Active
      BY <3>2 DEF RunOK, ChildOK
    <3>5. agents'[m].status = "running" /\ agents'[m].owner = o
      BY <1>0, <2>1 DEF BeginModelCall, CanBegin, OwnedBy, Row
    <3>6. OwnRow(agents'[m], next) /\ MasterOK(agents'[m], next)
          /\ VerdictOK(agents'[m], next, AnyKept(m))
      BY <3>2, <3>3, <3>5 DEF RunOK, OwnRow, MasterOK, VerdictOK
    <3>7. QED BY <3>2, <3>3, <3>4, <3>6, MoveRun
  <2>2. CASE ~ CanBegin(m, o) /\ Conclude(m, "none") /\ UNCHANGED agents
    <3>1. jobs[m].pc = "audit" /\ UNCHANGED work
      BY <1>11 DEF BeginAudit
    <3>2. agents[m].status \in Missing \/ agents[m].cancel
      <4>1. \/ agents[m].status \in Missing
            \/ agents[m].status # "running"
            \/ agents[m].cancel
        BY <2>2 DEF CanBegin, OwnedBy, RunOK, OwnRow
      <4>2. /\ agents[m].status \notin {"done", "failed", "queued"}
            /\ agents[m].status = "retried" => agents[m].cancel
        BY <3>1 DEF RunOK, MasterOK
      <4>3. QED
        BY <1>0, <4>1, <4>2 DEF RowOK, Row, Active, Terminal, Missing
    <3>3. QED BY <1>9, <2>2, <3>1, <3>2 DEF Results
  <2>3. QED BY <1>11, <2>1, <2>2 DEF BeginAudit
<1>12. CASE Return(o, m) \/ Settle(o, m) \/ Rescue(o, m)
  <2>1. jobs[m].verdict \in Results /\ "error" \in Results
    BY <1>0 DEF Job, Results
  <2>2. QED BY <1>12, <2>1, FinishMasterKeepsRun DEF Return, Settle, Rescue
<1>13. CASE PruneStep(o, m)
  <2>1. PICK next : next = [jobs[m] EXCEPT !.pc = "over"]
    OBVIOUS
  <2>2. /\ jobs' = [jobs EXCEPT ![m] = next] /\ UNCHANGED work
        /\ AllForeignBut({}) /\ jobs[m].pc = "prune"
    BY <1>0, <1>3, <1>13, <2>1, ForeignOperations DEF PruneStep
  <2>3. /\ next.pc = "over" /\ next.kind = jobs[m].kind
        /\ next.owner = jobs[m].owner /\ next.repo = jobs[m].repo
    BY <1>1, <2>1
  <2>4. \A c \in TeamOf(m) : agents[c].status \notin Active
    BY <2>2 DEF RunOK, ChildOK
  <2>5. Foreign(agents[m], agents'[m]) /\ AllForeignBut({m})
    BY <1>0, <2>2 DEF AllForeignBut
  <2>6. OwnRow(agents[m], next) /\ MasterOK(agents[m], next)
        /\ VerdictOK(agents[m], next, AnyKept(m))
    BY <2>2, <2>3 DEF RunOK, OwnRow, MasterOK, VerdictOK
  <2>7. OwnRow(agents'[m], next) /\ MasterOK(agents'[m], next)
        /\ VerdictOK(agents'[m], next, AnyKept(m))
    BY <2>5, <2>6, ForeignKeeps
  <2>8. QED BY <2>2, <2>3, <2>4, <2>5, <2>7, MoveRun
<1>14. CASE Raise(o, m)
  <2>1. PICK pc \in {"rescue", "lost"} :
            /\ jobs' = [jobs EXCEPT ![m].raises = jobs[m].raises + 1, ![m].pc = pc]
            /\ pc = "rescue" => /\ jobs[m].kind = "background"
                                /\ jobs[m].pc \in {"joined", "audit", "calling", "settle"}
    BY <1>14 DEF Raise
  <2>2. PICK next : next = [jobs[m] EXCEPT !.raises = jobs[m].raises + 1, !.pc = pc]
    OBVIOUS
  <2>3. jobs' = [jobs EXCEPT ![m] = next]
    BY <1>0, <2>1, <2>2 DEF JobsOK, Job
  <2>4. /\ next.pc = pc /\ next.kind = jobs[m].kind /\ next.owner = jobs[m].owner
        /\ next.repo = jobs[m].repo
    BY <1>0, <2>2 DEF Job
  <2>5. UNCHANGED <<agents, work>> /\ AllForeignBut({m})
    BY <1>3, <1>14 DEF Raise
  <2>6. pc = "rescue" => \A c \in TeamOf(m) : agents[c].status \notin Active
    BY <2>1 DEF RunOK, ChildOK
  <2>7. OwnRow(agents'[m], next) /\ MasterOK(agents'[m], next)
    BY <2>1, <2>4, <2>5 DEF RunOK, OwnRow, MasterOK
  <2>8. VerdictOK(agents'[m], next, AnyKept(m))
    BY <2>1, <2>4, <2>5 DEF RunOK, VerdictOK
  <2>9. QED BY <2>1, <2>3, <2>4, <2>5, <2>6, <2>7, <2>8, MoveRun
<1>15. QED
  BY <1>4, <1>5, <1>6, <1>7, <1>8, <1>10, <1>11, <1>12, <1>13, <1>14 DEF Main

LEMMA WorkerChangesOne ==
    ASSUME OInv, NEW m \in Masters, RunOK(m), NEW c \in TeamOf(m),
           jobs[m].pc = "pool", NEW f,
           work' = [work EXCEPT ![c] = f], work[c] # "kept", AllForeignBut({c}),
           /\ jobs'[m].pc = jobs[m].pc /\ jobs'[m].kind = jobs[m].kind
           /\ jobs'[m].owner = jobs[m].owner /\ jobs'[m].repo = jobs[m].repo,
           OwnRow(agents'[c], jobs[m]), ChildOK(agents'[c], f, jobs[m])
    PROVE  RunOK(m)'
<1>0. /\ m \in Agents /\ c \in Agents \ Masters /\ TeamOf(m) \subseteq Agents \ Masters
      /\ WorkOK /\ TeamOf(m)' = TeamOf(m)
  BY OrchestratorAssumption, TeamIsOfAgents DEF OInv, TeamOf
<1>1. PICK next : next = jobs'[m]
  OBVIOUS
<1>2. \A d \in TeamOf(m) : work'[d] = IF d = c THEN f ELSE work[d]
  BY <1>0 DEF WorkOK
<1>3. \A row :
          /\ OwnRow(row, jobs[m]) => OwnRow(row, next)
          /\ MasterOK(row, jobs[m]) => MasterOK(row, next)
          /\ \A g : ChildOK(row, g, jobs[m]) => ChildOK(row, g, next)
          /\ \A kept : row.status # "done" => VerdictOK(row, next, kept)
  BY <1>1 DEF OwnRow, MasterOK, ChildOK, VerdictOK
<1>4. ASSUME NEW d \in TeamOf(m)
      PROVE  OwnRow(agents'[d], next) /\ ChildOK(agents'[d], work'[d], next)
  <2>1. CASE d = c
    BY <1>2, <1>3, <2>1
  <2>2. CASE d # c
    <3>1. Foreign(agents[d], agents'[d])
      BY <1>0, <2>2 DEF AllForeignBut
    <3>2. QED BY <1>2, <1>3, <2>2, <3>1, ForeignKeeps DEF RunOK
  <2>3. QED BY <2>1, <2>2
<1>5. Foreign(agents[m], agents'[m]) /\ agents[m].status # "done"
  BY <1>0 DEF AllForeignBut, RunOK, MasterOK
<1>6. agents'[m].status # "done"
  BY <1>5 DEF Foreign
<1>7. OwnRow(agents'[m], next) /\ MasterOK(agents'[m], next)
      /\ \A kept : VerdictOK(agents'[m], next, kept)
  BY <1>3, <1>5, <1>6, ForeignKeeps DEF RunOK
<1>8. QED
  BY <1>0, <1>1, <1>4, <1>7 DEF RunOK

LEMMA WorkerKeepsRun ==
    ASSUME OInv, NEW o \in Owners, NEW m \in Masters, RunOK(m), jobs[m].owner = o,
           NEW c \in TeamOf(m),
           Worker(o, m, c) \/ (jobs[m].pc = "pool" /\ RaiseInWorker(o, m, c))
    PROVE  RunOK(m)'
<1>0. /\ c \in Agents /\ FleetTypeOK /\ Rows /\ JobsOK /\ agents \in [Agents -> Row]
      /\ agents[c] \in Row /\ RowOK(agents[c]) /\ jobs[m] \in Job
      /\ OwnRow(agents[c], jobs[m]) /\ ChildOK(agents[c], work[c], jobs[m])
  BY TeamIsOfAgents DEF OInv, IInv, FleetTypeOK, Rows, JobsOK, RunOK
<1>1. jobs[m].pc = "pool" /\ jobs[m].kind # "inline"
  BY DEF Worker, RunOK, MasterOK
<1>2. UNCHANGED agents => AllForeignBut({c}) /\ agents'[c] = agents[c]
  BY <1>0, ForeignOperations DEF AllForeignBut
<1>3. ASSUME UNCHANGED jobs, NEW f, Future(c, f), work[c] # "kept",
             AllForeignBut({c}), OwnRow(agents'[c], jobs[m]),
             ChildOK(agents'[c], f, jobs[m])
      PROVE  RunOK(m)'
  BY <1>1, <1>3, WorkerChangesOne DEF Future
<1>4. CASE StartWorker(o, m, c)
  <2>1. work[c] = "submitted" /\ UNCHANGED jobs
    BY <1>4 DEF StartWorker
  <2>2. CASE StartAgent(c, o, TRUE) /\ Future(c, "calling")
    <3>1. agents'[c].status = "running" /\ agents'[c].owner = o
      BY <1>0, <2>2 DEF StartAgent, CanStart, OwnedBy, Row
    <3>2. OwnRow(agents'[c], jobs[m]) /\ ChildOK(agents'[c], "calling", jobs[m])
      BY <1>1, <3>1 DEF OwnRow, ChildOK
    <3>3. QED BY <1>0, <1>3, <2>1, <2>2, <3>2, ForeignOperations
  <2>3. CASE ~ CanStart(c, o) /\ Future(c, "dropped") /\ UNCHANGED agents
    <3>1. agents[c].status \notin Active
      BY <1>0, <2>1, <2>3
      DEF CanStart, OwnedBy, OwnRow, ChildOK, RowOK, Active, Missing
    <3>2. ChildOK(agents[c], "dropped", jobs[m])
      BY <1>1, <3>1 DEF ChildOK
    <3>3. QED BY <1>0, <1>2, <1>3, <2>1, <2>3, <3>2
  <2>4. QED BY <1>4, <2>2, <2>3 DEF StartWorker
<1>5. ASSUME NEW r \in Results, FinishAgent(c, o, r)
      PROVE  /\ AllForeignBut({c}) /\ agents'[c] = Finished(agents[c], r)
             /\ OwnRow(agents'[c], jobs[m])
             /\ agents'[c].status \notin Active \cup Missing
  <2>1. agents'[c] = Finished(agents[c], r) /\ agents[c].status \notin Missing
        /\ agents[c].owner = o
    BY <1>0, <1>5 DEF FinishAgent, OwnedBy
  <2>2. QED BY <1>0, <1>5, <2>1, ForeignOperations, FinishedEnds DEF OwnRow
<1>6. \A row : row.status \notin Active => ChildOK(row, "dropped", jobs[m])
  BY <1>1 DEF ChildOK
<1>7. CASE FinishWorker(o, m, c)
  <2>1. work[c] = "calling" /\ UNCHANGED jobs
    BY <1>7 DEF FinishWorker
  <2>2. ASSUME NEW r \in Results, FinishAgent(c, o, r),
               Future(c, IF r = "error" \/ Aborted(c) THEN "dropped" ELSE "kept")
        PROVE  RunOK(m)'
    <3>1. /\ AllForeignBut({c}) /\ agents'[c] = Finished(agents[c], r)
          /\ OwnRow(agents'[c], jobs[m])
          /\ agents'[c].status \notin Active \cup Missing
      BY <1>5, <2>2
    <3>2. CASE r = "error" \/ Aborted(c)
      BY <1>3, <1>6, <2>1, <2>2, <3>1, <3>2
    <3>3. CASE ~ (r = "error" \/ Aborted(c))
      <4>1. agents[c].status \notin {"done", "failed"}
            /\ (agents[c].status = "retried" => agents[c].cancel)
        BY <1>0, <2>1 DEF ChildOK
      <4>2. agents'[c].status = "done"
        BY <1>0, <3>1, <3>3, <4>1
        DEF Aborted, Finished, Discarded, Settled, Row, RowOK, Active, Terminal, Missing
      <4>3. ChildOK(agents'[c], "kept", jobs[m])
        BY <1>1, <4>2 DEF ChildOK, Active
      <4>4. QED BY <1>3, <2>1, <2>2, <3>1, <3>3, <4>3
    <3>4. QED BY <3>2, <3>3
  <2>3. CASE ~ OwnedBy(c, o) /\ UNCHANGED agents
             /\ \E f \in {"kept", "dropped"} : Future(c, f)
    <3>1. agents[c].status = "pruned"
      BY <1>0, <2>1, <2>3 DEF OwnedBy, OwnRow, ChildOK, Missing
    <3>2. ChildOK(agents[c], "kept", jobs[m]) /\ ChildOK(agents[c], "dropped", jobs[m])
      BY <1>1, <3>1 DEF ChildOK, Active
    <3>3. QED BY <1>0, <1>2, <1>3, <2>1, <2>3, <3>2
  <2>4. QED BY <1>7, <2>2, <2>3 DEF FinishWorker
<1>8. CASE CollectRaised(o, m, c)
  <2>1. work[c] = "raised" /\ UNCHANGED jobs /\ Future(c, "dropped")
    BY <1>8 DEF CollectRaised
  <2>2. CASE FinishAgent(c, o, "error")
    <3>1. "error" \in Results
      BY DEF Results
    <3>2. QED BY <1>3, <1>5, <1>6, <2>1, <2>2, <3>1
  <2>3. CASE ~ OwnedBy(c, o) /\ UNCHANGED agents
    <3>1. agents[c].status \notin Active
      BY <1>0, <2>3 DEF OwnedBy, OwnRow, Missing, Active
    <3>2. QED BY <1>0, <1>2, <1>3, <1>6, <2>1, <2>3, <3>1
  <2>4. QED BY <1>8, <2>2, <2>3 DEF CollectRaised
<1>9. CASE RaiseInWorker(o, m, c)
  <2>1. /\ jobs' = [jobs EXCEPT ![m] = [jobs[m] EXCEPT !.raises = jobs[m].raises + 1]]
        /\ Future(c, "raised") /\ UNCHANGED agents
        /\ work[c] \in {"submitted", "calling"}
    BY <1>9 DEF RaiseInWorker
  <2>2. /\ jobs'[m].pc = jobs[m].pc /\ jobs'[m].kind = jobs[m].kind
        /\ jobs'[m].owner = jobs[m].owner /\ jobs'[m].repo = jobs[m].repo
    BY <1>0, <2>1 DEF JobsOK, Job
  <2>3. ChildOK(agents[c], "raised", jobs[m])
    BY <1>0, <1>1 DEF ChildOK
  <2>4. QED BY <1>0, <1>1, <1>2, <2>1, <2>2, <2>3, WorkerChangesOne DEF Future
<1>10. QED
  BY <1>4, <1>7, <1>8, <1>9 DEF Worker

LEMMA ProcessKeepsRuns ==
    ASSUME OInv, RunsOK, UNCHANGED <<jobs, work>>, AllForeignBut({})
    PROVE  RunsOK'
<1> SUFFICES ASSUME NEW m \in Masters PROVE RunOK(m)'
  BY DEF RunsOK
<1>1. TeamOf(m) \cup {m} \subseteq Agents
  BY TeamIsOfAgents, OrchestratorAssumption
<1>2. QED
  BY <1>1, OthersKeepRun DEF RunsOK, AllForeignBut

LEMMA LaunchKeepsRuns ==
    ASSUME OInv, RunsOK, NEW o \in Owners, NEW m \in Masters, NEW kind, NEW repo,
           NEW src, Launch(o, m, kind, repo, src)
    PROVE  RunsOK'
<1>0. /\ FleetTypeOK /\ Rows /\ AllForeignBut({}) /\ JobsOK
      /\ UNCHANGED <<agents, work>> /\ jobs[m].pc = "none"
  BY ForeignOperations DEF OInv, IInv, Launch
<1> SUFFICES ASSUME NEW n \in Masters PROVE RunOK(n)'
  BY DEF RunsOK
<1>1. TeamOf(n) \cup {n} \subseteq Agents /\ RunOK(n)
  BY TeamIsOfAgents, OrchestratorAssumption DEF RunsOK
<1>2. CASE n # m
  <2>1. jobs'[n] = jobs[n]
    BY <1>0, <1>2 DEF Launch, JobsOK
  <2>2. QED BY <1>0, <1>1, <2>1, OthersKeepRun DEF AllForeignBut
<1>3. CASE n = m
  <2>1. PICK next : /\ next = jobs'[m] /\ next.pc = "create"
    <3>1. PICK job : job = [IdleJob EXCEPT !.pc = "create", !.owner = o, !.kind = kind,
                                           !.repo = repo, !.src = src]
      OBVIOUS
    <3>2. jobs' = [jobs EXCEPT ![m] = job]
      BY <3>1 DEF Launch
    <3>3. job.pc = "create"
      BY <3>1 DEF IdleJob
    <3>4. QED BY <1>0, <3>2, <3>3 DEF JobsOK
  <2>2. agents[m].status = "absent"
        /\ \A c \in TeamOf(m) : agents[c].status = "absent" /\ work[c] = "none"
    BY <1>0, <1>1, <1>3 DEF RunOK, MasterOK, ChildOK
  <2>3. OwnRow(agents[m], next) /\ MasterOK(agents[m], next)
        /\ \A kept : VerdictOK(agents[m], next, kept)
    BY <2>1, <2>2 DEF OwnRow, MasterOK, VerdictOK, Missing, Active
  <2>4. \A c \in TeamOf(m) : OwnRow(agents[c], next) /\ ChildOK(agents[c], work[c], next)
    BY <2>1, <2>2 DEF OwnRow, ChildOK, Missing, Active
  <2>5. TeamOf(m)' = TeamOf(m)
    BY DEF TeamOf
  <2>6. QED BY <1>0, <1>3, <2>1, <2>3, <2>4, <2>5 DEF RunOK
<1>4. QED BY <1>2, <1>3

LEMMA RunStepKeepsRuns ==
    ASSUME OInv, RunsOK, NEW o \in Owners, NEW m \in Masters, jobs[m].owner = o,
           \/ Main(o, m) \/ Raise(o, m)
           \/ \E c \in TeamOf(m) :
                 Worker(o, m, c) \/ (jobs[m].pc = "pool" /\ RaiseInWorker(o, m, c))
    PROVE  RunsOK'
<1> SUFFICES ASSUME NEW n \in Masters PROVE RunOK(n)'
  BY DEF RunsOK
<1>1. CASE n = m
  BY <1>1, MainKeepsRun, WorkerKeepsRun DEF RunsOK
<1>2. CASE n # m
  <2>1. /\ jobs'[n] = jobs[n]
        /\ \A c \in (Agents \ Masters) \ TeamOf(m) : work'[c] = work[c]
        /\ AllForeignBut(TeamOf(m) \cup {m})
    BY <1>2, RunFootprint
  <2>2. /\ TeamOf(n) \subseteq (Agents \ Masters) \ TeamOf(m)
        /\ TeamOf(n) \cup {n} \subseteq Agents \ (TeamOf(m) \cup {m})
    <3>1. TeamOf(n) \cap TeamOf(m) = {} /\ Masters \subseteq Agents
      BY <1>2, OrchestratorAssumption
    <3>2. TeamOf(n) \subseteq Agents \ Masters /\ TeamOf(m) \subseteq Agents \ Masters
      BY TeamIsOfAgents
    <3>3. QED BY <1>2, <3>1, <3>2
  <2>3. QED BY <2>1, <2>2, OthersKeepRun DEF RunsOK, AllForeignBut
<1>3. QED BY <1>1, <1>2

LEMMA RunsStep ==
    ASSUME OInv, RunsOK, [Next]_vars
    PROVE  RunsOK'
<1>0. FleetTypeOK /\ Rows
  BY DEF OInv, IInv
<1>1. CASE UNCHANGED vars \/ Tick
  BY <1>0, <1>1, ForeignOperations, ProcessKeepsRuns DEF vars, Tick, Age
<1>2. ASSUME NEW o \in Owners,
             EnsureOwner(o) \/ Beat(o) \/ Close(o) \/ Die(o) \/ Snapshot(o)
      PROVE  RunsOK'
  BY <1>0, <1>2, ForeignOperations, ProcessKeepsRuns
  DEF EnsureOwner, Beat, Close, Die, Snapshot, storeVars, RegisterOwner,
      HeartbeatOwner, CloseOwner, ReconcileStaleOwners
<1>3. ASSUME NEW o \in Owners, NEW S \in Selectors, RequestCancel(o, S)
      PROVE  RunsOK'
  <2>1. S \in SUBSET Agents
    BY DEF Selectors
  <2>2. QED BY <1>0, <1>3, <2>1, ForeignOperations, ProcessKeepsRuns DEF RequestCancel
<1>4. QED
  BY <1>1, <1>2, <1>3, LaunchKeepsRuns, RunStepKeepsRuns DEF Next

LEMMA RunsInit == Init => RunsOK
<1> SUFFICES ASSUME Init, NEW m \in Masters PROVE RunOK(m)
  BY DEF RunsOK
<1>1. m \in Agents /\ TeamOf(m) \subseteq Agents \ Masters
  BY TeamIsOfAgents, OrchestratorAssumption
<1>2. jobs[m].pc = "none" /\ agents[m].status = "absent"
      /\ \A c \in TeamOf(m) : agents[c].status = "absent" /\ work[c] = "none"
  BY <1>1 DEF Init, StoreInit, MissingRow, IdleJob
<1>3. QED
  BY <1>2 DEF RunOK, OwnRow, MasterOK, ChildOK, VerdictOK, Missing, Active

\* A run that has returned leaves no active row behind, of its master or of its
\* children, for all teams, pools, cancels, failures and deaths (run_inline,
\* run_delegated, _run_worker).
THEOREM OrchestratorLeavesNothing == Spec => []NothingLeftBehind
<1>1. RunsOK => NothingLeftBehind
  BY DEF RunsOK, RunOK, MasterOK, ChildOK, NothingLeftBehind, IsActive
<1>2. QED
  BY <1>1, RunsInit, RunsStep, InitOInv, NextOInv, PTL DEF Spec

\* What an audit sees are results the ledger has accepted, and a delegated
\* master that is done had one, or is a repository task (run_delegated).
THEOREM OrchestratorAuditsGrounded == Spec => []AuditIsGrounded
<1>1. RunsOK => AuditIsGrounded
  <2> SUFFICES ASSUME RunsOK, NEW m \in Masters
               PROVE  /\ \A c \in TeamOf(m) :
                            work[c] = "kept" => agents[c].status \in {"done", "pruned"}
                      /\ /\ jobs[m].kind # "inline"
                         /\ \/ jobs[m].pc = "calling"
                            \/ agents[m].status = "done" /\ ~ jobs[m].repo
                         => \E c \in TeamOf(m) : work[c] = "kept"
    BY DEF AuditIsGrounded
  <2>1. RunOK(m)
    BY DEF RunsOK
  <2>2. QED BY <2>1 DEF RunOK, ChildOK, VerdictOK, AnyKept
<1>2. QED
  BY <1>1, RunsInit, RunsStep, InitOInv, NextOInv, PTL DEF Spec

-----------------------------------------------------------------------------
(***************************************************************************)
(* Heartbeats in time.  Of a process that is up and has woken to active    *)
(* work, the row is as young as its timer says, and the mirror keeps the   *)
(* work as long as it is active: the next beat will be recorded.           *)
(***************************************************************************)
CoveredFit(a, o) ==
    /\ agents[a].status \in Active /\ agents[a].owner = o
    /\ proc[o].mode # "new"
    /\ proc[o].mode = "up" =>
          /\ a \in proc[o].mirror
          /\ owners[o].status = "open" =>
                owners[o].age + proc[o].timer <= HeartbeatEvery

CoveredInv == \A a \in covered : a \in Agents /\ \E o \in Owners : CoveredFit(a, o)

\* Only the exit of its process and a reconciliation interrupt an active agent.
LEMMA NoInterrupt ==
    ASSUME FleetTypeOK, NEW a \in Agents, IsActive(a),
           \/ UNCHANGED agents
           \/ \E b \in Agents, o \in Owners, p, src \in Agents \cup {NoAgent} :
                 CreateAgent(b, o, p, src)
           \/ \E b \in Agents, o \in Owners, c \in BOOLEAN : StartAgent(b, o, c)
           \/ \E b \in Agents, o \in Owners : BeginModelCall(b, o)
           \/ \E b \in Agents, o \in Owners, r \in Results : FinishAgent(b, o, r)
           \/ \E S : CancelAgents(S)
           \/ Prune
    PROVE  agents'[a].status # "interrupted"
<1>1. agents \in [Agents -> Row] /\ agents[a] \in Row /\ agents[a].status \in Active
  BY DEF FleetTypeOK, IsActive
<1>2. CASE UNCHANGED agents
  BY <1>1, <1>2 DEF Active
<1>3. ASSUME NEW b \in Agents, NEW o \in Owners, NEW p, NEW src, CreateAgent(b, o, p, src)
      PROVE  agents'[a].status # "interrupted"
  BY <1>1, <1>3 DEF CreateAgent, Active
<1>4. ASSUME NEW b \in Agents, NEW o \in Owners, NEW c, StartAgent(b, o, c)
      PROVE  agents'[a].status # "interrupted"
  BY <1>1, <1>4 DEF StartAgent, Active, Row
<1>5. ASSUME NEW b \in Agents, NEW o \in Owners, BeginModelCall(b, o)
      PROVE  agents'[a].status # "interrupted"
  BY <1>1, <1>5 DEF BeginModelCall, Active, Row
<1>6. ASSUME NEW b \in Agents, NEW o \in Owners, NEW r \in Results, FinishAgent(b, o, r)
      PROVE  agents'[a].status # "interrupted"
  <2>1. CASE a = b
    <3>1. agents'[a] = Finished(agents[a], r)
      BY <1>6, <2>1 DEF FinishAgent
    <3>2. QED
      BY <1>1, <3>1 DEF Finished, Discarded, Settled, Row, Active
  <2>2. CASE a # b
    BY <1>1, <1>6, <2>2 DEF FinishAgent, Recovers, Active
  <2>3. QED
    BY <2>1, <2>2
<1>7. ASSUME NEW S, CancelAgents(S)
      PROVE  agents'[a].status # "interrupted"
  BY <1>1, <1>7 DEF CancelAgents, Cancelled, Row, Active
<1>8. CASE Prune
  BY <1>1, <1>8 DEF Prune, MissingRow, Active
<1>9. QED
  BY <1>2, <1>3, <1>4, <1>5, <1>6, <1>7, <1>8

LEMMA MainInterruptsNone ==
    ASSUME OInv, NEW o \in Owners, NEW m \in Masters, Main(o, m),
           NEW a \in Agents, IsActive(a)
    PROVE  agents'[a].status # "interrupted"
<1>0. m \in Agents /\ FleetTypeOK /\ jobs[m] \in Job
  BY OrchestratorAssumption DEF OInv, IInv, JobsOK
<1>1. CASE CreateMaster(o, m)
  BY <1>0, <1>1, NoInterrupt DEF CreateMaster, Job
<1>2. CASE StartMaster(o, m)
  <2>1. (jobs[m].kind = "inline") \in BOOLEAN
    OBVIOUS
  <2>2. QED
    BY <1>0, <1>2, <2>1, NoInterrupt DEF StartMaster
<1>3. CASE CreateChild(o, m)
  <2>1. Team[m][jobs[m].next] \in Agents
    BY <1>3, TeamIsOfAgents DEF CreateChild, TeamOf
  <2>2. QED
    BY <1>0, <1>3, <2>1, NoInterrupt DEF CreateChild
<1>4. CASE Submit(o, m) \/ Join(o, m) \/ CheckOutputs(o, m)
  BY <1>0, <1>4, NoInterrupt DEF Submit, Join, CheckOutputs
<1>5. CASE BeginAudit(o, m)
  BY <1>0, <1>5, NoInterrupt DEF BeginAudit
<1>6. ASSUME NEW r \in Results, FinishMaster(o, m, r)
      PROVE  agents'[a].status # "interrupted"
  BY <1>0, <1>6, NoInterrupt DEF FinishMaster
<1>7. CASE Return(o, m) \/ Settle(o, m) \/ Rescue(o, m)
  <2>1. jobs[m].verdict \in Results /\ "error" \in Results
    BY <1>0 DEF Job, Results
  <2>2. QED
    BY <1>6, <1>7, <2>1 DEF Return, Settle, Rescue
<1>8. CASE PruneStep(o, m)
  BY <1>0, <1>8, NoInterrupt DEF PruneStep
<1>9. QED
  BY <1>1, <1>2, <1>3, <1>4, <1>5, <1>7, <1>8 DEF Main

LEMMA WorkerInterruptsNone ==
    ASSUME OInv, NEW o \in Owners, NEW m \in Masters, NEW c \in TeamOf(m),
           Worker(o, m, c), NEW a \in Agents, IsActive(a)
    PROVE  agents'[a].status # "interrupted"
<1>0. c \in Agents /\ FleetTypeOK /\ "error" \in Results
  BY TeamIsOfAgents DEF OInv, IInv, Results
<1>1. CASE StartWorker(o, m, c)
  BY <1>0, <1>1, NoInterrupt DEF StartWorker
<1>2. CASE FinishWorker(o, m, c)
  BY <1>0, <1>2, NoInterrupt DEF FinishWorker
<1>3. CASE CollectRaised(o, m, c)
  BY <1>0, <1>3, NoInterrupt DEF CollectRaised
<1>4. QED
  BY <1>1, <1>2, <1>3 DEF Worker

LEMMA Interruptions ==
    ASSUME OInv, [Next]_vars, NEW a \in Agents, IsActive(a),
           agents'[a].status = "interrupted"
    PROVE  \/ agents[a].owner \in Expired
           \/ agents[a].owner \in Owners /\ proc'[agents[a].owner].mode # "up"
<1>1. /\ FleetTypeOK /\ agents \in [Agents -> Row] /\ agents[a] \in Row
      /\ proc \in [Owners -> Process]
  BY DEF OInv, IInv, FleetTypeOK, ProcOK
<1>2. agents[a].status \in Active /\ agents[a].status # "interrupted" /\ ~ UNCHANGED agents
  BY <1>1 DEF IsActive, Active
<1>3. ASSUME NEW o \in Owners, EnsureOwner(o) \/ Beat(o) \/ Die(o)
      PROVE  UNCHANGED agents
  BY <1>3 DEF EnsureOwner, Beat, Die, RegisterOwner, HeartbeatOwner, storeVars
<1>4. ASSUME NEW o \in Owners, Close(o)
      PROVE  agents[a].owner = o /\ proc'[o].mode = "closing"
  BY <1>1, <1>2, <1>4 DEF Close, CloseOwner, InterruptAgentsOf, Process
<1>5. ASSUME NEW o \in Owners, Snapshot(o)
      PROVE  agents[a].owner \in Expired
  BY <1>1, <1>2, <1>5 DEF Snapshot, ReconcileStaleOwners, InterruptAgentsOf
<1>6. ASSUME NEW o \in Owners, NEW S, RequestCancel(o, S)
      PROVE  FALSE
  BY <1>1, <1>6, NoInterrupt DEF RequestCancel
<1>7. CASE Tick \/ UNCHANGED vars \/ (\E o, m, kind, repo, src : Launch(o, m, kind, repo, src))
           \/ (\E o, m : Raise(o, m)) \/ (\E o, m, c : RaiseInWorker(o, m, c))
  BY <1>2, <1>7 DEF Tick, Age, vars, Launch, Raise, RaiseInWorker
<1>8. ASSUME NEW o \in Owners, NEW m \in Masters,
             Main(o, m) \/ \E c \in TeamOf(m) : Worker(o, m, c)
      PROVE  FALSE
  BY <1>8, MainInterruptsNone, WorkerInterruptsNone
<1>9. QED
  BY <1>2, <1>3, <1>4, <1>5, <1>6, <1>7, <1>8 DEF Next

\* What a step does to the process o: nothing that matters here, or it is a
\* beat, a unit of time, or the beginning or the end of the process.
Undisturbing(o) ==
    /\ proc'[o].mode = proc[o].mode /\ proc'[o].timer = proc[o].timer
    /\ \A a \in proc[o].mirror : agents'[a].status \in Active => a \in proc'[o].mirror
    /\ owners'[o].status = "open" =>
          owners[o].status = "open" /\ owners'[o].age = owners[o].age
Beaten(o) ==
    /\ proc[o].mode = "up" /\ proc[o].timer = 0
    /\ proc' = [proc EXCEPT ![o].timer = HeartbeatEvery]
    /\ proc[o].mirror = {} \/ owners'[o].age = 0
    /\ UNCHANGED agents
Aged(o) ==
    /\ proc'[o].timer <= proc[o].timer
    /\ proc'[o].mode = proc[o].mode /\ proc'[o].mirror = proc[o].mirror
    /\ proc[o].mode = "up" /\ owners'[o].status = "open" =>
          /\ owners[o].status = "open"
          /\ owners'[o].age + proc'[o].timer <= owners[o].age + proc[o].timer
Begun(o) == proc[o].mode = "new" /\ proc'[o].timer = proc[o].timer
Left(o) ==
    /\ proc[o].mode # "new" /\ proc'[o].mode \notin {"new", "up"}
    /\ proc'[o].timer = proc[o].timer

LEMMA SyncKeeps ==
    ASSUME OInv, NEW o \in Owners, NEW A, proc' = Synced(o, A), NEW q \in Owners
    PROVE  /\ proc'[q].mode = proc[q].mode /\ proc'[q].timer = proc[q].timer
           /\ \A a \in proc[q].mirror : agents'[a].status \in Active => a \in proc'[q].mirror
<1>1. proc \in [Owners -> Process]
  BY DEF OInv, ProcOK
<1>2. PICK mirror : /\ mirror = {a \in proc[o].mirror \cup A :
                                    a \notin A \/ agents'[a].status \in Active}
                    /\ proc' = [proc EXCEPT ![o].mirror = mirror]
  BY DEF Synced
<1>3. QED
  BY <1>1, <1>2 DEF Process

LEMMA MainDisturbsNone ==
    ASSUME OInv, NEW o \in Owners, NEW m \in Masters, NEW q \in Owners,
           Main(o, m) \/ \E c \in TeamOf(m) : Worker(o, m, c)
    PROVE  Undisturbing(q)
<1>1. /\ \/ UNCHANGED proc \/ \E A : proc' = Synced(o, A)
      /\ owners'[q].status = "open" =>
            owners[q].status = "open" /\ owners'[q].age = owners[q].age
  <2>1. CASE PruneStep(o, m)
    <3>1. UNCHANGED proc
      BY <2>1 DEF PruneStep
    <3>2. owners'[q] = owners[q] \/ owners'[q].status = "missing"
      BY <2>1 DEF PruneStep, Prune, FreshOwner
    <3>3. QED
      BY <3>1, <3>2
  <2>2. CASE ~ PruneStep(o, m)
    <3>1. ASSUME NEW c, Worker(o, m, c)
          PROVE  UNCHANGED owners /\ (UNCHANGED proc \/ \E A : proc' = Synced(o, A))
      BY <3>1 DEF Worker, StartWorker, FinishWorker, CollectRaised, StartAgent, FinishAgent
    <3>2. ASSUME NEW r, FinishMaster(o, m, r)
          PROVE  UNCHANGED owners /\ (UNCHANGED proc \/ \E A : proc' = Synced(o, A))
      BY <3>2 DEF FinishMaster, FinishAgent
    <3>3. ASSUME CreateMaster(o, m) \/ CreateChild(o, m)
          PROVE  UNCHANGED owners /\ (UNCHANGED proc \/ \E A : proc' = Synced(o, A))
      BY <3>3 DEF CreateMaster, CreateChild, CreateAgent
    <3>4. ASSUME StartMaster(o, m) \/ BeginAudit(o, m)
          PROVE  UNCHANGED owners /\ (UNCHANGED proc \/ \E A : proc' = Synced(o, A))
      BY <3>4 DEF StartMaster, BeginAudit, StartAgent, BeginModelCall
    <3>5. ASSUME Submit(o, m) \/ Join(o, m) \/ CheckOutputs(o, m)
          PROVE  UNCHANGED owners /\ UNCHANGED proc
      BY <3>5 DEF Submit, Join, CheckOutputs
    <3>6. QED
      BY <2>2, <3>1, <3>2, <3>3, <3>4, <3>5 DEF Main, Return, Settle, Rescue
  <2>3. QED
    BY <2>1, <2>2
<1>2. CASE UNCHANGED proc
  BY <1>1, <1>2 DEF Undisturbing
<1>3. CASE \E A : proc' = Synced(o, A)
  BY <1>1, <1>3, SyncKeeps DEF Undisturbing
<1>4. QED
  BY <1>1, <1>2, <1>3

LEMMA ProcessSteps ==
    ASSUME OInv, Punctual, [Next]_vars, NEW q \in Owners
    PROVE  Undisturbing(q) \/ Beaten(q) \/ Aged(q) \/ Begun(q) \/ Left(q)
<1>1. /\ proc \in [Owners -> Process] /\ owners \in [Owners -> OwnerRow]
      /\ proc[q] \in Process /\ owners[q] \in OwnerRow
  BY DEF OInv, IInv, FleetTypeOK, ProcOK
<1>2. ASSUME UNCHANGED <<owners, proc>>
      PROVE  Undisturbing(q)
  BY <1>2 DEF Undisturbing
<1>3. ASSUME NEW o \in Owners, EnsureOwner(o)
      PROVE  Undisturbing(q) \/ Begun(q)
  <2>1. CASE q = o
    BY <1>1, <1>3, <2>1 DEF EnsureOwner, Begun, Process
  <2>2. CASE q # o
    BY <1>1, <1>3, <2>2 DEF EnsureOwner, RegisterOwner, Undisturbing
  <2>3. QED
    BY <2>1, <2>2
<1>4. ASSUME NEW o \in Owners, Beat(o)
      PROVE  Undisturbing(q) \/ Beaten(q)
  <2>1. CASE q = o
    <3>1. proc[o].mirror = {} \/ owners'[o].age = 0
      BY <1>1, <1>4, <2>1 DEF Beat, HeartbeatOwner, RegisterOwner, FreshOwner
    <3>2. QED
      BY <1>4, <2>1, <3>1 DEF Beat, Beaten, HeartbeatOwner, RegisterOwner, storeVars
  <2>2. CASE q # o
    <3>1. owners'[q] = owners[q]
      BY <1>1, <1>4, <2>2 DEF Beat, HeartbeatOwner, RegisterOwner, storeVars
    <3>2. proc'[q] = proc[q]
      BY <1>1, <1>4, <2>2 DEF Beat
    <3>3. QED
      BY <3>1, <3>2 DEF Undisturbing
  <2>3. QED
    BY <2>1, <2>2
<1>5. ASSUME NEW o \in Owners, Close(o) \/ Die(o)
      PROVE  Undisturbing(q) \/ Left(q)
  <2>1. CASE q = o
    BY <1>1, <1>5, <2>1 DEF Close, Die, Alive, Left, Process
  <2>2. CASE q # o
    BY <1>1, <1>5, <2>2 DEF Close, Die, CloseOwner, Undisturbing
  <2>3. QED
    BY <2>1, <2>2
<1>6. ASSUME NEW o \in Owners, Snapshot(o)
      PROVE  Undisturbing(q)
  <2>1. proc' = proc
    BY <1>6 DEF Snapshot
  <2>2. owners'[q] = IF q \in Expired THEN [owners[q] EXCEPT !.status = "closed"]
                     ELSE IF StaleOwner(q) /\ ~ owners[q].suspect
                     THEN [owners[q] EXCEPT !.suspect = TRUE, !.waited = 0]
                     ELSE owners[q]
    BY <1>6 DEF Snapshot, ReconcileStaleOwners
  <2>3. owners'[q].status = "open" =>
            owners[q].status = "open" /\ owners'[q].age = owners[q].age
    BY <1>1, <2>2 DEF OwnerRow
  <2>4. QED
    BY <2>1, <2>3 DEF Undisturbing
<1>7. ASSUME NEW o \in Owners, NEW S, RequestCancel(o, S)
      PROVE  Undisturbing(q)
  <2>1. UNCHANGED owners /\ proc' = Synced(o, Selected(S))
    BY <1>7 DEF RequestCancel, CancelAgents
  <2>2. QED
    BY <2>1, SyncKeeps DEF Undisturbing
<1>8. CASE Tick
  <2>1. /\ proc'[q] = [proc[q] EXCEPT !.timer = IF @ > 0 THEN @ - 1 ELSE 0]
        /\ owners'[q] = IF owners[q].status = "open" THEN Older(owners[q]) ELSE owners[q]
        /\ proc[q].mode = "up" => proc[q].timer > 0
    BY <1>8 DEF Tick, Age
  <2>2. /\ proc[q].timer \in Nat /\ owners[q].age \in Nat
        /\ StaleAfter \in Nat
    BY <1>1, FleetAssumption, OrchestratorAssumption DEF Process, OwnerRow
  <2>3. /\ proc'[q].mode = proc[q].mode /\ proc'[q].mirror = proc[q].mirror
        /\ proc'[q].timer = IF proc[q].timer > 0 THEN proc[q].timer - 1 ELSE 0
    BY <1>1, <2>1 DEF Process
  <2>4. ASSUME owners'[q].status = "open"
        PROVE  /\ owners[q].status = "open"
               /\ owners'[q].age = IF owners[q].age <= StaleAfter
                                   THEN owners[q].age + 1 ELSE owners[q].age
    BY <1>1, <2>1, <2>4 DEF Older, OwnerRow
  <2>5. QED
    BY <2>1, <2>2, <2>3, <2>4 DEF Aged
<1>9. ASSUME NEW o \in Owners, NEW m \in Masters,
             Main(o, m) \/ \E c \in TeamOf(m) : Worker(o, m, c)
      PROVE  Undisturbing(q)
  BY <1>9, MainDisturbsNone
<1>10. CASE UNCHANGED vars \/ (\E o, m, kind, repo, src : Launch(o, m, kind, repo, src))
            \/ (\E o, m : Raise(o, m)) \/ (\E o, m, c : RaiseInWorker(o, m, c))
  BY <1>2, <1>10 DEF vars, Launch, Raise, RaiseInWorker
<1>11. QED
  BY <1>3, <1>4, <1>5, <1>6, <1>7, <1>8, <1>9, <1>10 DEF Next

LEMMA CoveredStays ==
    ASSUME OInv, Punctual, [Next]_vars, NEW a \in Agents, NEW o \in Owners,
           CoveredFit(a, o), agents'[a].status \in Active
    PROVE  CoveredFit(a, o)'
<1>1. /\ proc \in [Owners -> Process] /\ proc[o] \in Process
      /\ agents[a] \in Row /\ [ClientNext]_storeVars
      /\ HeartbeatEvery \in Nat
  BY StepIsClient, OrchestratorAssumption DEF OInv, IInv, FleetTypeOK, ProcOK
<1>2. agents'[a].owner = o
  <2>1. RowStep(agents[a], agents'[a])
    BY <1>1, NextIsTableStep DEF OInv, IInv, TableStep
  <2>2. QED
    BY <1>1, <2>1, RowStepKeepsIdentity DEF CoveredFit, Active
<1>3. CASE Undisturbing(o)
  BY <1>2, <1>3 DEF Undisturbing, CoveredFit
<1>4. CASE Beaten(o)
  <2>1. proc'[o].mode = "up" /\ proc'[o].timer = HeartbeatEvery
        /\ proc'[o].mirror = proc[o].mirror
    BY <1>1, <1>4 DEF Beaten, Process
  <2>2. a \in proc[o].mirror /\ owners'[o].age = 0
    BY <1>4 DEF Beaten, CoveredFit
  <2>3. QED
    BY <1>1, <1>2, <2>1, <2>2 DEF CoveredFit
<1>5. CASE Aged(o)
  <2>1. /\ proc[o].timer \in Nat /\ owners[o].age \in Nat
    BY <1>1 DEF Process, OInv, IInv, FleetTypeOK, OwnerRow
  <2>2. OInv'
    BY NextOInv
  <2>3. proc'[o].timer \in Nat /\ owners'[o].age \in Nat
    BY <2>2 DEF Process, OInv, ProcOK, IInv, FleetTypeOK, OwnerRow
  <2>4. QED
    BY <1>1, <1>2, <1>5, <2>1, <2>3 DEF Aged, CoveredFit
<1>6. CASE Begun(o)
  BY <1>6 DEF Begun, CoveredFit
<1>7. CASE Left(o)
  BY <1>2, <1>7 DEF Left, CoveredFit
<1>8. QED
  BY <1>3, <1>4, <1>5, <1>6, <1>7, ProcessSteps

LEMMA CoveredEnters ==
    ASSUME OInv, Punctual, [Next]_vars, NEW a \in Agents, NEW o \in Owners, Woke(o),
           agents[a].owner = o, a \in proc[o].mirror, agents'[a].status \in Active
    PROVE  CoveredFit(a, o)'
<1>1. /\ proc \in [Owners -> Process] /\ proc[o] \in Process
      /\ agents[a] \in Row /\ [ClientNext]_storeVars
      /\ HeartbeatEvery \in Nat
  BY StepIsClient, OrchestratorAssumption DEF OInv, IInv, FleetTypeOK, ProcOK
<1>2. proc[o].timer = 0 /\ proc'[o].timer # 0
  BY DEF Woke
<1>3. Beaten(o)
  <2>1. proc[o].timer \in Nat /\ proc'[o].timer \in Nat
    <3>1. OInv'
      BY NextOInv
    <3>2. QED
      BY <1>1, <3>1 DEF Process, OInv, ProcOK
  <2>2. QED
    BY <1>2, <2>1, ProcessSteps DEF Undisturbing, Aged, Begun, Left
<1>4. proc'[o].mode = "up" /\ proc'[o].timer = HeartbeatEvery
      /\ proc'[o].mirror = proc[o].mirror /\ UNCHANGED agents
  BY <1>1, <1>3 DEF Beaten, Process
<1>5. owners'[o].age = 0
  BY <1>3 DEF Beaten
<1>6. QED
  BY <1>1, <1>4, <1>5 DEF CoveredFit

LEMMA CoveredStep ==
    ASSUME OInv, Punctual, CoveredInv, [TimedNext]_timedVars
    PROVE  CoveredInv'
<1>1. CASE UNCHANGED timedVars
  BY <1>1 DEF timedVars, CoveredInv, CoveredFit
<1>2. CASE TimedNext
  <2> SUFFICES ASSUME NEW a \in covered'
               PROVE  a \in Agents /\ \E o \in Owners : CoveredFit(a, o)'
    BY DEF CoveredInv
  <2>1. /\ [Next]_vars /\ a \in Agents /\ agents'[a].status \in Active
        /\ a \in covered \/ \E o \in Owners :
              Woke(o) /\ agents[a].owner = o /\ a \in proc[o].mirror
    BY <1>2 DEF TimedNext
  <2>2. CASE a \in covered
    <3>1. PICK o \in Owners : CoveredFit(a, o)
      BY <2>2 DEF CoveredInv
    <3>2. QED
      BY <2>1, <3>1, CoveredStays
  <2>3. CASE \E o \in Owners : Woke(o) /\ agents[a].owner = o /\ a \in proc[o].mirror
    BY <2>1, <2>3, CoveredEnters
  <2>4. QED
    BY <2>1, <2>2, <2>3
<1>3. QED
  BY <1>1, <1>2

\* Nothing is interrupted by a reconciliation that the heartbeat covers.
LEMMA CoveredNotExpired ==
    ASSUME OInv, HeartbeatEvery <= StaleAfter, NEW a \in Agents, NEW o \in Owners,
           CoveredFit(a, o), proc[o].mode = "up"
    PROVE  o \notin Expired
<1>1. /\ owners[o].age \in Nat /\ proc[o].timer \in Nat
      /\ StaleAfter \in Nat /\ HeartbeatEvery \in Nat
  BY FleetAssumption, OrchestratorAssumption
  DEF OInv, IInv, FleetTypeOK, OwnerRow, ProcOK, Process
<1>2. owners[o].status = "open" => owners[o].age <= StaleAfter
  BY <1>1 DEF CoveredFit
<1>3. QED
  BY <1>1, <1>2 DEF Expired, StaleOwner

\* As long as heartbeat threads are not late, and beats come at least as often
\* as rows grow stale, no process gives up the work of another that is up: what
\* a heartbeat thread has once woken to is not interrupted, whoever asks for the
\* status meanwhile (_heartbeat_loop, reconcile_stale_owners).
THEOREM FleetKeepsCoveredWork ==
    ASSUME Punctual, HeartbeatEvery <= StaleAfter
    PROVE  TimedSpec => CoveredWorkKept
<1>1. TimedInit => OInv /\ CoveredInv
  BY InitOInv DEF TimedInit, CoveredInv
<1>2. OInv /\ CoveredInv /\ [TimedNext]_timedVars => (OInv /\ CoveredInv)'
  <2> SUFFICES ASSUME OInv, CoveredInv, [TimedNext]_timedVars
               PROVE  OInv' /\ CoveredInv'
    OBVIOUS
  <2>1. [Next]_vars
    BY DEF TimedNext, timedVars, vars
  <2>2. QED
    BY <2>1, NextOInv, CoveredStep
<1>3. OInv /\ CoveredInv /\ [TimedNext]_timedVars =>
          [\A a \in covered, o \in Owners :
              agents[a].owner = o /\ proc[o].mode = "up" /\ proc'[o].mode = "up" =>
                  agents'[a].status # "interrupted"]_timedVars
  <2> SUFFICES ASSUME OInv, CoveredInv, [TimedNext]_timedVars, ~ UNCHANGED timedVars,
                      NEW a \in covered, NEW o \in Owners, agents[a].owner = o,
                      proc[o].mode = "up", proc'[o].mode = "up",
                      agents'[a].status = "interrupted"
               PROVE  FALSE
    OBVIOUS
  <2>1. [Next]_vars
    BY DEF TimedNext, timedVars, vars
  <2>2. a \in Agents /\ CoveredFit(a, o)
    BY DEF CoveredInv, CoveredFit
  <2>3. IsActive(a)
    BY <2>2 DEF CoveredFit, IsActive
  <2>4. o \notin Expired
    BY <2>2, CoveredNotExpired
  <2>5. QED
    BY <2>1, <2>2, <2>3, <2>4, Interruptions
<1>4. QED
  BY <1>1, <1>2, <1>3, PTL DEF TimedSpec, CoveredWorkKept
=============================================================================
