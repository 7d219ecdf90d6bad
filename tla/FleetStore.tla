----------------------------- MODULE FleetStore -----------------------------
(***************************************************************************)
(* The durable fleet ledger (fleet_store.py): agents, and the processes    *)
(* that own them.  Every operation is one BEGIN IMMEDIATE transaction and  *)
(* one action.  Timestamps are kept as ages, which stop at the limits they *)
(* are compared with.                                                      *)
(***************************************************************************)
EXTENDS Naturals, FiniteSets

CONSTANTS
    Agents,      \* agent ids ("master-<hex>", "agent-<hex>")
    NoAgent,     \* the empty parent_id, retry_of or retried_by
    Owners,      \* process ids ("owner-<pid>-<hex>"), never reused
    NoOwner,
    StaleAfter,  \* stale_seconds
    Grace,       \* grace_seconds
    Retention    \* finished_retention

ASSUME FleetAssumption ==
    /\ NoAgent \notin Agents
    /\ NoOwner \notin Owners
    /\ StaleAfter \in Nat /\ Grace \in Nat /\ Retention \in Nat

VARIABLES
    agents,      \* the fleet_agents table
    owners       \* the fleet_owners table

storeVars == <<agents, owners>>

-----------------------------------------------------------------------------
Active == {"queued", "running"}
Terminal == {"done", "failed", "cancelled", "interrupted", "retried"}

\* "absent" is an id not yet inserted, "pruned" one whose row was deleted.
Missing == {"absent", "pruned"}

Row ==
    [status : Active \cup Terminal \cup Missing,
     owner : Owners \cup {NoOwner},
     parent : Agents \cup {NoAgent},      \* none for a master
     cancel : BOOLEAN,                    \* cancel_requested
     inCall : BOOLEAN,                    \* in_model_call
     retryOf : Agents \cup {NoAgent},
     retriedBy : Agents \cup {NoAgent},
     result : {"none", "output", "error"}]

MissingRow(s) ==
    [status |-> s, owner |-> NoOwner, parent |-> NoAgent, cancel |-> FALSE,
     inCall |-> FALSE, retryOf |-> NoAgent, retriedBy |-> NoAgent,
     result |-> "none"]

OwnerRow ==
    [status : {"missing", "open", "closed"},
     age : 0..(StaleAfter + 1),           \* now - heartbeat_ts
     suspect : BOOLEAN,                   \* stale_seen_ts is set
     waited : 0..Grace]                   \* now - stale_seen_ts

FreshOwner == [status |-> "open", age |-> 0, suspect |-> FALSE, waited |-> 0]

-----------------------------------------------------------------------------
\* Row transformers: the SET clauses.

Interrupted(row) ==
    [row EXCEPT !.status = "interrupted", !.cancel = TRUE, !.inCall = FALSE]

\* Mutation: a queued row is only flagged, as a running one is.
CancelledFlagOnly(row) == [row EXCEPT !.cancel = TRUE]

Cancelled(row) ==
    IF row.status = "queued"
    THEN [row EXCEPT !.status = "cancelled", !.cancel = TRUE, !.inCall = FALSE]
    ELSE [row EXCEPT !.cancel = TRUE]

Discarded(row) ==
    [row EXCEPT !.status = "cancelled", !.result = "none", !.inCall = FALSE]

Settled(row, r) ==
    [row EXCEPT !.status = IF r = "error" THEN "failed" ELSE "done",
                !.result = r, !.inCall = FALSE]

\* Mutation: a row that was interrupted meanwhile is not looked at.
FinishedUnlessCancelled(row, r) ==
    IF row.status = "cancelled" THEN Discarded(row) ELSE Settled(row, r)

\* What finish_agent makes of a row when a call returned r.
Finished(row, r) ==
    IF row.status = "interrupted" THEN row
    ELSE IF row.cancel \/ row.status = "cancelled" THEN Discarded(row)
    ELSE IF row.status \in {"done", "failed"} THEN row
    ELSE Settled(row, r)

Retried(row, a) == [row EXCEPT !.status = "retried", !.retriedBy = a]

\* Conditions of the WHERE clauses.

IsActive(a) == agents[a].status \in Active
IsFinished(a) == agents[a].status \in Terminal

OwnedBy(a, o) == agents[a].status \notin Missing /\ agents[a].owner = o

\* Mutation: start_agent without AND status='queued' AND cancel_requested=0.
CanStartOwned(a, o) == OwnedBy(a, o)

CanStart(a, o) ==
    OwnedBy(a, o) /\ agents[a].status = "queued" /\ ~ agents[a].cancel

CanBegin(a, o) ==
    OwnedBy(a, o) /\ agents[a].status = "running" /\ ~ agents[a].cancel

\* cancellation_requested
CancelRequested(a) ==
    agents[a].cancel \/ agents[a].status \in {"cancelled", "interrupted"}

\* Mutation: a late child does not look at its parent.
InheritsNothing(p) == FALSE

Inherits(p) == p # NoAgent /\ CancelRequested(p)

\* Mutation: any end of the retry counts as its success.
RecoversAnyEnd(a, r, b) ==
    /\ agents[a].parent = NoAgent /\ b = agents[a].retryOf
    /\ agents[b].status \in {"interrupted", "failed", "cancelled"}

\* The row that master a's success recovers.
Recovers(a, r, b) ==
    /\ Finished(agents[a], r).status = "done" /\ agents[a].status # "done"
    /\ agents[a].parent = NoAgent
    /\ b = agents[a].retryOf
    /\ agents[b].status \in {"interrupted", "failed", "cancelled"}

\* S and its active descendants.  Only masters have children, so the loop
\* of cancel_agents ends after one pass.
Selected(S) ==
    S \cup {a \in Agents : IsActive(a) /\ agents[a].parent \in S}

StaleOwner(o) == owners[o].status = "open" /\ owners[o].age > StaleAfter

Expired ==
    {o \in Owners :
        StaleOwner(o) /\ owners[o].suspect /\ owners[o].waited >= Grace}

-----------------------------------------------------------------------------
\* The operations.

RegisterOwner(o) ==
    /\ owners' = [owners EXCEPT ![o] = FreshOwner]
    /\ UNCHANGED agents

HeartbeatOwner(o) ==
    /\ owners[o].status = "open"
    /\ owners' = [owners EXCEPT ![o] = FreshOwner]
    /\ UNCHANGED agents

InterruptAgentsOf(O) ==
    agents' = [a \in Agents |->
                  IF IsActive(a) /\ agents[a].owner \in O
                  THEN Interrupted(agents[a]) ELSE agents[a]]

CloseOwner(o) ==
    /\ InterruptAgentsOf({o})
    /\ owners' = [owners EXCEPT ![o] =
                     IF @.status = "missing" THEN @
                     ELSE [@ EXCEPT !.status = "closed", !.age = 0]]

\* Mutation: every probe restarts the grace period.
ReconcileRestartsGrace ==
    /\ owners' = [o \in Owners |->
                     IF StaleOwner(o)
                     THEN [owners[o] EXCEPT !.suspect = TRUE, !.waited = 0]
                     ELSE owners[o]]
    /\ UNCHANGED agents

ReconcileStaleOwners ==
    /\ owners' = [o \in Owners |->
                     IF o \in Expired THEN [owners[o] EXCEPT !.status = "closed"]
                     ELSE IF StaleOwner(o) /\ ~ owners[o].suspect
                     THEN [owners[o] EXCEPT !.suspect = TRUE, !.waited = 0]
                     ELSE owners[o]]
    /\ InterruptAgentsOf(Expired)

CreateAgent(a, o, p, src) ==
    /\ agents[a].status = "absent"
    /\ agents' = [agents EXCEPT ![a] =
                     [MissingRow(IF Inherits(p) THEN "cancelled" ELSE "queued")
                      EXCEPT !.owner = o, !.parent = p, !.retryOf = src,
                             !.cancel = Inherits(p)]]
    /\ UNCHANGED owners

StartAgent(a, o, inCall) ==
    /\ CanStart(a, o)
    /\ agents' = [agents EXCEPT ![a].status = "running", ![a].inCall = inCall]
    /\ UNCHANGED owners

BeginModelCall(a, o) ==
    /\ CanBegin(a, o)
    /\ agents' = [agents EXCEPT ![a].inCall = TRUE]
    /\ UNCHANGED owners

FinishAgent(a, o, r) ==
    /\ OwnedBy(a, o)
    /\ agents' = [b \in Agents |->
                     IF b = a THEN Finished(agents[a], r)
                     ELSE IF Recovers(a, r, b) THEN Retried(agents[b], a)
                     ELSE agents[b]]
    /\ UNCHANGED owners

CancelAgents(S) ==
    /\ \A a \in S : IsActive(a)
    /\ agents' = [a \in Agents |->
                     IF a \in Selected(S) THEN Cancelled(agents[a])
                     ELSE agents[a]]
    /\ UNCHANGED owners

\* Which finished rows are the oldest is left open.
Prune ==
    \E K \in SUBSET {a \in Agents : IsFinished(a)} :
        /\ LET left == Cardinality({a \in Agents : IsFinished(a)} \ K)
           IN  left = Retention \/ (left < Retention /\ K = {})
        /\ agents' = [a \in Agents |->
                         IF a \in K THEN MissingRow("pruned") ELSE agents[a]]
        /\ owners' = [o \in Owners |->
                         IF /\ owners[o].status = "closed"
                            /\ \A a \in Agents \ K : agents[a].owner # o
                         THEN [FreshOwner EXCEPT !.status = "missing"]
                         ELSE owners[o]]

\* Time passes: every recorded timestamp is one unit older.
Older(row) ==
    [row EXCEPT
        !.age = IF @ <= StaleAfter THEN @ + 1 ELSE @,
        !.waited = IF row.suspect /\ @ < Grace THEN @ + 1 ELSE @]

Age ==
    /\ owners' = [o \in Owners |->
                     IF owners[o].status = "open" THEN Older(owners[o])
                     ELSE owners[o]]
    /\ UNCHANGED agents

StoreInit ==
    /\ agents = [a \in Agents |-> MissingRow("absent")]
    /\ owners = [o \in Owners |-> [FreshOwner EXCEPT !.status = "missing"]]

-----------------------------------------------------------------------------
\* Properties of the ledger, whoever uses it.

\* The tables hold rows of the schema (fleet_store.py _ensure_schema).
FleetTypeOK ==
    /\ agents \in [Agents -> Row]
    /\ owners \in [Owners -> OwnerRow]

\* "Late results are discarded": once a cancel is recorded or its owner is
\* given up, an agent never ends as done or failed and never shows a result
\* (cancel_agents and reconcile_stale_owners against finish_agent).
CancelWins ==
    \A a \in Agents :
        agents[a].cancel =>
            agents[a].status \notin {"done", "failed"} /\ agents[a].result # "output"

\* A cancelled or interrupted master has no child that could still start a
\* model call: its children are cancelled with it, however late they are
\* created (create_agent's inheritance, the closure in cancel_agents, and the
\* owner-wide interruption).
SubtreeCancelled ==
    \A a, p \in Agents :
        agents[a].parent = p /\ IsActive(a) /\ CancelRequested(p) =>
            agents[a].status = "running" /\ agents[a].cancel

\* A master is recorded as recovered only by another master that was started
\* for it and is done (finish_agent's second UPDATE), unless pruned since.
RecoveryLinked ==
    \A a \in Agents :
        /\ agents[a].status = "retried" => agents[a].retriedBy # NoAgent
        /\ agents[a].retriedBy # NoAgent =>
             LET by == agents[agents[a].retriedBy]
             IN  \/ by.status = "pruned"
                 \/ by.status = "done" /\ by.retryOf = a /\ by.parent = NoAgent

\* A finished agent never runs again and its result never changes: it can
\* only be marked as retried, or pruned (start_agent, finish_agent,
\* cancel_agents, reconcile_stale_owners).
FinishedIsFinal ==
    [][\A a \in Agents :
          agents[a].status \in Terminal \ {"retried"} =>
            \/ agents'[a] = agents[a]
            \/ agents'[a].status = "pruned"
            \/ /\ agents[a].status # "done" /\ agents'[a].status = "retried"
               /\ agents'[a].result = agents[a].result]_storeVars
=============================================================================
