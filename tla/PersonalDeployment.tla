------------------------- MODULE PersonalDeployment -------------------------
(***************************************************************************)
(* adaptive_training.py and runtime_policy.py: publishing a trained model  *)
(* under the one alias sonder-personal:latest of a model server, routing a *)
(* runtime policy to it, rolling back, and recovering what a dead command  *)
(* left.  One lifecycle command runs at a time (_deployment_lock), its     *)
(* locks being those of the process; a step ends at the next thing written *)
(* to a file or to the model server.                                       *)
(***************************************************************************)
EXTENDS Integers

CONSTANTS
    Policies,    \* runtime policies, each with its own training state
    NoPolicy,
    MaxIds,      \* bound: transitions, numbered as they are made
    MaxTroubles,   \* bound: deaths, errors, and updates by users
    Careful,     \* no operator releases, adopts or trains while something
                 \* is left to recover or to remove
    Steady       \* the model server answers whatever a recovery asks

ASSUME DeploymentAssumption ==
    /\ NoPolicy \notin Policies /\ MaxIds \in Nat /\ MaxTroubles \in Nat
    /\ Careful \in BOOLEAN /\ Steady \in BOOLEAN

VARIABLES
    alias,       \* what sonder-personal:latest names
    tags,        \* what each candidate and previous tag names
    pending,     \* the cleanup ledger of each policy
    transition,  \* the alias-transition record
    owner,       \* the alias-owner record
    journal,     \* the deployment journal of each policy
    policies,    \* the runtime policies
    states,      \* the training states
    proven,      \* history: models that each policy's checks passed
    used,        \* transition ids used so far
    command,     \* the running lifecycle command
    troubles

deploymentVars == <<alias, tags, pending, transition, owner, journal, policies,
                    states, proven, used, command, troubles>>

files == <<pending, transition, owner, journal, policies, states, proven, used>>

Ids == 1..MaxIds

\* A model is the deployment that made it, or one of before such records.
Legacy == 0
Missing == -1
Models == Ids \cup {Legacy}

\* <<"candidate", i>> is sonder-personal-candidate:i, and so on.
Tag == {"candidate", "previous"} \X Ids
Candidate(i) == <<"candidate", i>>
Previous(i) == <<"previous", i>>

AliasTransition ==
    [policy : Policies \cup {NoPolicy}, id : {0} \cup Ids,
     phase : {"none", "claiming", "reserved", "clearing"}]
NoTransition == [policy |-> NoPolicy, id |-> 0, phase |-> "none"]

AliasOwner == [policy : Policies \cup {NoPolicy}, model : Models]
NoAliasOwner == [policy |-> NoPolicy, model |-> Legacy]

\* The models of the tiers code and general: what the user chose, the model
\* to roll back to (ROLLBACK_MODEL), or the personal alias.
Routes == {"user", "rollback", "personal"}

\* The sources that a recovery tells apart.
Sources == {"deployment", "rollback", "other"}

Policy == [route : Routes, revision : Nat, source : Sources]

JournalPhases ==
    {"reserved", "backed_up", "quiesced", "publishing", "published",
     "verified", "activated", "policy_updated", "committed"}

Journal == [op : {"none", "deploy", "rollback"}, id : {0} \cup Ids,
            phase : JournalPhases, prior : Routes, first : Nat, last : Nat,
            previous : Models \cup {Missing}, old : {0} \cup Ids]

NoJournal == [op |-> "none", id |-> 0, phase |-> "reserved", prior |-> "user",
              first |-> 0, last |-> 0, previous |-> Missing, old |-> 0]

\* last_deployment_eval, previous_personal_model, policy_revision and
\* last_policy_transition.
State == [deployed : {0} \cup Ids, previous : {0} \cup Ids, revision : Nat,
          witness : {0} \cup Ids]
NewState == [deployed |-> 0, previous |-> 0, revision |-> 0, witness |-> 0]

\* The journal's phases are written one by one as a command advances.
Notes == {"note_backed_up", "note_quiesced", "note_publishing",
          "note_published", "note_verified", "note_activated",
          "note_policy_updated", "note_committed"}

Pcs == Notes \cup
    {"idle", "ledger", "reconcile", "record", "create", "evaluate", "reserve",
     "advance", "check", "backup", "quiesce", "copy", "final", "activate",
     "snapshot", "commit", "own", "retire", "clear", "finish", "unclaim",
     "cleanup", "forget", "restore", "repolicy", "discard", "reroute",
     "witness", "resettle", "handoff"}

LifecycleCommand ==
    [pc : Pcs, policy : Policies \cup {NoPolicy},
     kind : {"none", "deploy", "rollback"}, id : {0} \cup Ids,
     previous : Models \cup {Missing}, revision : Nat,
     mutated : BOOLEAN, restored : BOOLEAN, settled : BOOLEAN]

NoCommand == [pc |-> "idle", policy |-> NoPolicy, kind |-> "none", id |-> 0,
         previous |-> Missing, revision |-> 0, mutated |-> FALSE,
         restored |-> TRUE, settled |-> TRUE]

\* A first installation, or one whose policy routes to an alias that an
\* older version published.
DeploymentInit ==
    /\ alias \in {Missing, Legacy}
    /\ tags = [t \in Tag |-> Missing] /\ pending = [p \in Policies |-> {}]
    /\ transition = NoTransition /\ owner = NoAliasOwner
    /\ journal = [p \in Policies |-> NoJournal]
    /\ \E legacy \in SUBSET Policies :
          /\ \A p, q \in legacy : p = q
          /\ legacy # {} => alias = Legacy
          /\ policies = [p \in Policies |->
                [route |-> IF p \in legacy THEN "personal" ELSE "user",
                 revision |-> 0, source |-> "other"]]
    /\ states = [p \in Policies |-> NewState]
    /\ proven = [p \in Policies |-> {Legacy}]
    /\ used = 0 /\ command = NoCommand /\ troubles = 0

-----------------------------------------------------------------------------
Doing(p, pc) == command.policy = p /\ command.pc = pc

Proceed(pc) == command' = [command EXCEPT !.pc = pc]

End == command' = NoCommand

Trouble == troubles < MaxTroubles /\ troubles' = troubles + 1

\* An error of the model server while something is restored.
ServerFails == ~ Steady /\ Trouble

\* ollama rm of some tags.
Without(set) == [t \in Tag |-> IF t \in set THEN Missing ELSE tags[t]]

\* runtime_policy.update with the journal's token; no one else updates a
\* policy that has a journal, so the expected revision is there.
Route(p, route, source) ==
    policies' = [policies EXCEPT ![p] =
        [route |-> route, revision |-> @.revision + 1, source |-> source]]

Pending(p) == journal[p].op # "none"

Committed(p) == states[p].deployed = journal[p].id

Foreign(p) == owner.policy \notin {p, NoPolicy}

\* _prepare_shared_alias_lifecycle: no foreign transition, and one of this
\* policy with its journal; a claim without a journal is cleared.
Prepare(p) ==
    \/ /\ transition = NoTransition
       /\ ~ (Foreign(p) /\ journal[p].op = "deploy")
       /\ UNCHANGED transition
    \/ /\ transition.policy = p /\ ~ Foreign(p) /\ Pending(p)
       /\ UNCHANGED transition
    \/ /\ transition.policy = p /\ ~ Foreign(p) /\ ~ Pending(p)
       /\ transition.phase \in {"claiming", "clearing"}
       /\ transition' = NoTransition

\* deploy and rollback begin.
StartCommand(p, kind) ==
    /\ command = NoCommand /\ Prepare(p) /\ (kind = "deploy" => ~ Foreign(p))
    /\ command' =
          [NoCommand EXCEPT !.pc = "ledger", !.policy = p, !.kind = kind]
    /\ UNCHANGED <<alias, tags, pending, owner, journal, policies, states,
                   proven, used, troubles>>

\* _reconcile_pending_model_cleanup: every tag is removed, then the ledger;
\* a tag that stays ends the command.
CleanLedger(p) ==
    /\ Doing(p, "ledger")
    /\ \/ /\ tags' = Without(pending[p])
          /\ pending' = [pending EXCEPT ![p] = {}]
          /\ Proceed("reconcile") /\ UNCHANGED troubles
       \/ pending[p] # {} /\ Trouble /\ End /\ UNCHANGED <<tags, pending>>
    /\ UNCHANGED <<alias, transition, owner, journal, policies, states, proven,
                   used>>

\* Nothing is left to recover: the command proper begins, or has no trusted
\* adapter, converter, disk or rollback model to begin with.
BeginTransition(p) ==
    /\ Doing(p, "reconcile") /\ ~ Pending(p)
    /\ \/ /\ used < MaxIds /\ used' = used + 1
          /\ command' = [command EXCEPT !.id = used + 1, !.pc =
                IF command.kind = "deploy" THEN "record" ELSE "reserve"]
       \/ End /\ UNCHANGED used
    /\ UNCHANGED <<alias, tags, pending, transition, owner, journal, policies,
                   states, proven, troubles>>

-----------------------------------------------------------------------------
\* _deploy_locked.

\* The candidate is in the ledger before it is created.
RecordCandidate(p) ==
    /\ Doing(p, "record")
    /\ \/ /\ pending' = [pending EXCEPT ![p] = @ \cup {Candidate(command.id)}]
          /\ Proceed("create") /\ UNCHANGED troubles
       \/ Trouble /\ End /\ UNCHANGED pending
    /\ UNCHANGED <<alias, tags, transition, owner, journal, policies, states,
                   proven, used>>

CreateCandidate(p) ==
    /\ Doing(p, "create")
    /\ \/ /\ tags' = [tags EXCEPT ![Candidate(command.id)] = command.id]
          /\ \/ Proceed("evaluate") /\ UNCHANGED troubles
             \/ Proceed("cleanup") /\ Trouble
       \/ Proceed("cleanup") /\ Trouble /\ UNCHANGED tags
    /\ UNCHANGED <<alias, files>>

\* The candidate gate; then the alias is read, and its transition claimed.
Evaluate(p) ==
    /\ Doing(p, "evaluate")
    /\ \/ /\ transition' =
                [policy |-> p, id |-> command.id, phase |-> "claiming"]
          /\ command' = [command EXCEPT !.pc = "reserve", !.previous = alias]
       \/ Proceed("cleanup") /\ UNCHANGED transition
    /\ UNCHANGED <<alias, tags, pending, owner, journal, policies, states,
                   proven, used, troubles>>

NewJournal(p) ==
    [NoJournal EXCEPT !.op = command.kind, !.id = command.id,
                      !.prior = policies[p].route,
                      !.first = policies[p].revision,
                      !.last = policies[p].revision,
                      !.previous = command.previous]

\* runtime_policy.reserve_transition, of a deployment or a rollback.
Reserve(p) ==
    /\ Doing(p, "reserve")
    /\ \/ /\ ~ Pending(p)
          /\ journal' = [journal EXCEPT ![p] = NewJournal(p)]
          /\ command' = [command EXCEPT
                !.revision = policies[p].revision,
                !.pc = IF command.kind = "deploy" THEN "advance" ELSE "reroute"]
          /\ UNCHANGED <<transition, troubles>>
       \/ /\ Trouble /\ UNCHANGED journal
          /\ IF command.kind = "deploy"
             THEN /\ transition' \in {transition, NoTransition}
                  /\ Proceed("cleanup")
             ELSE End /\ UNCHANGED transition
    /\ UNCHANGED <<alias, tags, pending, owner, policies, states, proven, used>>

AdvanceTransition(p) ==
    /\ Doing(p, "advance")
    /\ \/ /\ transition' = [transition EXCEPT !.phase = "reserved"]
          /\ Proceed("check") /\ UNCHANGED troubles
       \/ Trouble /\ Proceed("clear") /\ UNCHANGED transition
    /\ UNCHANGED <<alias, tags, pending, owner, journal, policies, states,
                   proven, used>>

\* Mutation: the alias is replaced under a policy that routes to it.
AfterBackupRouted(p) == "note_publishing"

\* After the backup: active routing is moved off the alias first.
AfterBackup(p) ==
    IF journal[p].prior = "personal" THEN "quiesce" ELSE "note_publishing"

\* _validate_shared_alias_owner; ordinary policy writers are blocked by now.
CheckOwner(p) ==
    /\ Doing(p, "check")
    /\ LET expected == IF owner = NoAliasOwner THEN Missing ELSE owner.model
       IN  Proceed(IF alias # expected THEN "clear"
                   ELSE IF alias = Missing THEN AfterBackup(p) ELSE "backup")
    /\ UNCHANGED <<alias, tags, files, troubles>>

\* A backup that cannot be verified is removed, or left to the ledger, or
\* left to the journal.
BackUp(p) ==
    /\ Doing(p, "backup")
    /\ LET backup == Previous(command.id)
           made == [tags EXCEPT ![backup] = alias]
       IN  \/ /\ tags' = made /\ Proceed("note_backed_up")
              /\ UNCHANGED <<pending, troubles>>
           \/ Trouble /\ Proceed("clear") /\ UNCHANGED <<tags, pending>>
           \/ /\ Trouble /\ Proceed("clear") /\ tags' = made
              /\ pending' = [pending EXCEPT ![p] = @ \cup {backup}]
           \/ Trouble /\ Proceed("cleanup") /\ tags' = made /\ UNCHANGED pending
    /\ UNCHANGED <<alias, transition, owner, journal, policies, states, proven,
                   used>>

\* advance_journal: the phase it writes, and where the command goes on.
NotePhase ==
    [note_backed_up |-> "backed_up", note_quiesced |-> "quiesced",
     note_publishing |-> "publishing", note_published |-> "published",
     note_verified |-> "verified", note_activated |-> "activated",
     note_policy_updated |-> "policy_updated", note_committed |-> "committed"]

AfterNote(p) ==
    [note_backed_up |-> AfterBackup(p), note_quiesced |-> "note_publishing",
     note_publishing |-> "copy", note_published |-> "final",
     note_verified |-> "activate", note_activated |-> "snapshot",
     note_policy_updated |-> "witness", note_committed |-> "clear"]

\* What a failure leads to: a backup stays as the journal has it, a rollback
\* is recovered at once, a publication is restored.
AfterFailure ==
    IF command.kind = "rollback" THEN "reconcile"
    ELSE IF command.pc = "note_backed_up" THEN "cleanup" ELSE "restore"

AdvanceJournal(p) ==
    /\ command.policy = p /\ command.pc \in Notes
    /\ \/ /\ journal' = [journal EXCEPT ![p].phase = NotePhase[command.pc],
                                        ![p].last = command.revision]
          /\ Proceed(AfterNote(p)[command.pc]) /\ UNCHANGED troubles
       \/ Trouble /\ Proceed(AfterFailure) /\ UNCHANGED journal
    /\ UNCHANGED <<alias, tags, pending, transition, owner, policies, states,
                   proven, used>>

\* The three policy updates of a command: away from the alias, to the alias
\* it has just published and evaluated, and to the rollback model.
Update(p) ==
    /\ \/ Doing(p, "quiesce") /\ Route(p, "rollback", "deployment")
       \/ Doing(p, "activate") /\ Route(p, "personal", "deployment")
       \/ Doing(p, "reroute") /\ Route(p, "rollback", "rollback")
    /\ command' = [command EXCEPT !.revision = @ + 1, !.mutated = TRUE, !.pc =
          CASE command.pc = "quiesce" -> "note_quiesced"
            [] command.pc = "activate" -> "note_activated"
            [] command.pc = "reroute" -> "note_policy_updated"]
    /\ UNCHANGED <<alias, tags, pending, transition, owner, journal, states,
                   proven, used, troubles>>

UpdateFails(p) ==
    /\ command.policy = p /\ command.pc \in {"quiesce", "activate", "reroute"}
    /\ Trouble /\ Proceed(AfterFailure)
    /\ UNCHANGED <<alias, tags, files>>

\* A copy that fails may have been made.
Publish(p) ==
    /\ Doing(p, "copy")
    /\ \/ alias' = command.id /\ Proceed("note_published") /\ UNCHANGED troubles
       \/ Trouble /\ alias' \in {alias, command.id} /\ Proceed("restore")
    /\ UNCHANGED <<tags, files>>

\* The alias is the candidate, and passes what the candidate passed; or not.
FinalEvaluation(p) ==
    /\ Doing(p, "final")
    /\ \/ /\ proven' = [proven EXCEPT ![p] = @ \cup {command.id}]
          /\ Proceed("note_verified")
       \/ Proceed("restore") /\ UNCHANGED proven
    /\ UNCHANGED <<alias, tags, pending, transition, owner, journal, policies,
                   states, used, troubles>>

\* The recovery alias of the deployment before is written down.
SnapshotOld(p) ==
    /\ Doing(p, "snapshot")
    /\ \/ /\ journal' = [journal EXCEPT ![p].old = states[p].previous]
          /\ Proceed("commit") /\ UNCHANGED troubles
       \/ Trouble /\ Proceed("restore") /\ UNCHANGED journal
    /\ UNCHANGED <<alias, tags, pending, transition, owner, policies, states,
                   proven, used>>

Commit(p) ==
    /\ Doing(p, "commit")
    /\ \/ /\ states' = [states EXCEPT ![p] =
                [@ EXCEPT !.deployed = command.id,
                          !.revision = command.revision,
                          !.previous = IF command.previous = Missing THEN 0
                                       ELSE command.id]]
          /\ command' = [command EXCEPT !.pc = "own", !.mutated = FALSE]
          /\ UNCHANGED troubles
       \/ Trouble /\ Proceed("restore") /\ UNCHANGED states
    /\ UNCHANGED <<alias, tags, pending, transition, owner, journal, policies,
                   proven, used>>

WriteOwner(p) ==
    /\ Doing(p, "own")
    /\ \/ /\ owner' = [policy |-> p, model |-> command.id]
          /\ Proceed("retire") /\ UNCHANGED troubles
       \/ Trouble /\ Proceed("cleanup") /\ UNCHANGED owner
    /\ UNCHANGED <<alias, tags, pending, transition, journal, policies, states,
                   proven, used>>

\* The old recovery alias goes, or goes to the ledger, or stays with the
\* journal.
RetireOld(p) ==
    /\ Doing(p, "retire")
    /\ LET old == journal[p].old
       IN  \/ /\ tags' = Without({Previous(old)})
              /\ Proceed("clear") /\ UNCHANGED <<pending, troubles>>
           \/ /\ old # 0 /\ Trouble /\ Proceed("clear") /\ UNCHANGED tags
              /\ pending' = [pending EXCEPT ![p] = @ \cup {Previous(old)}]
           \/ /\ old # 0 /\ Trouble /\ Proceed("cleanup")
              /\ UNCHANGED <<tags, pending>>
    /\ UNCHANGED <<alias, transition, owner, journal, policies, states, proven,
                   used>>

-----------------------------------------------------------------------------
\* _clear_deployment_journal: the transition record is marked, the journal
\* removed, then the record; a rollback has no record.

\* A recovery that left nothing to the ledger goes on to its command, and a
\* deployment to its `finally' clause.
AfterClear ==
    IF command.id = 0 THEN
        IF command.settled THEN Proceed("reconcile") ELSE End
    ELSE IF command.kind = "deploy" THEN Proceed("cleanup") ELSE End

MarkClearing(p) ==
    /\ Doing(p, "clear") /\ journal[p].op = "deploy"
    /\ transition' = [transition EXCEPT !.phase = "clearing"]
    /\ Proceed("finish")
    /\ UNCHANGED <<alias, tags, pending, owner, journal, policies, states,
                   proven, used, troubles>>

\* runtime_policy.finish_transition.
FinishTransition(p) ==
    /\ \/ Doing(p, "finish") /\ Proceed("unclaim")
       \/ Doing(p, "clear") /\ journal[p].op = "rollback" /\ AfterClear
    /\ journal' = [journal EXCEPT ![p] = NoJournal]
    /\ UNCHANGED <<alias, tags, pending, transition, owner, policies, states,
                   proven, used, troubles>>

ClearTransition(p) ==
    /\ Doing(p, "unclaim") /\ transition' = NoTransition /\ AfterClear
    /\ UNCHANGED <<alias, tags, pending, owner, journal, policies, states,
                   proven, used, troubles>>

\* What is left is cleared by a later command.
ClearFails(p) ==
    /\ command.policy = p /\ command.pc \in {"clear", "finish", "unclaim"}
    /\ Trouble
    /\ IF command.id # 0 /\ command.kind = "deploy"
       THEN Proceed("cleanup") ELSE End
    /\ UNCHANGED <<alias, tags, files>>

\* The `finally' clause: remove the candidate, then its ledger entry.
RemoveCandidate(p) ==
    /\ Doing(p, "cleanup")
    /\ \/ /\ tags' = Without({Candidate(command.id)})
          /\ Proceed("forget") /\ UNCHANGED troubles
       \/ Trouble /\ End /\ UNCHANGED tags
    /\ UNCHANGED <<alias, files>>

ForgetCandidate(p) ==
    /\ Doing(p, "forget") /\ End
    /\ \/ /\ pending' = [pending EXCEPT ![p] = @ \ {Candidate(command.id)}]
          /\ UNCHANGED troubles
       \/ Trouble /\ UNCHANGED pending
    /\ UNCHANGED <<alias, tags, transition, owner, journal, policies, states,
                   proven, used>>

-----------------------------------------------------------------------------
\* A deployment that failed after it began to change something.

\* restore_previous_alias.
RestoreAlias(p) ==
    /\ Doing(p, "restore")
    /\ \/ /\ alias' = command.previous /\ UNCHANGED troubles
          /\ command' = [command EXCEPT !.pc = "repolicy", !.restored = TRUE]
       \/ /\ ServerFails /\ alias' \in {alias, command.previous}
          /\ command' = [command EXCEPT !.pc = "repolicy", !.restored = FALSE]
    /\ UNCHANGED <<tags, files>>

\* recover_policy: the prior routing, or routing that is safe without it.
\* finalize_failed_recovery goes on only if the alias is restored.
RecoverPolicy(p) ==
    /\ Doing(p, "repolicy")
    /\ LET next == IF command.restored THEN "discard" ELSE "cleanup"
           target == IF command.restored THEN journal[p].prior ELSE "rollback"
           needed == /\ command.mutated
                     /\ command.restored \/ policies[p].route # target
       IN  \/ /\ IF needed THEN Route(p, target, "other")
                 ELSE UNCHANGED policies
              /\ command' = [command EXCEPT !.pc = next, !.mutated = FALSE]
              /\ UNCHANGED troubles
           \/ /\ needed /\ Trouble /\ UNCHANGED policies
              /\ command' = [command EXCEPT !.pc = next, !.settled = FALSE]
    /\ UNCHANGED <<alias, tags, pending, transition, owner, journal, states,
                   proven, used>>

\* discard_previous_alias.
DiscardBackup(p) ==
    /\ Doing(p, "discard")
    /\ \/ /\ tags' = Without({Previous(command.id)})
          /\ Proceed(IF command.settled THEN "clear" ELSE "cleanup")
          /\ UNCHANGED troubles
       \/ /\ command.previous # Missing
          /\ Trouble /\ Proceed("cleanup") /\ UNCHANGED tags
    /\ UNCHANGED <<alias, files>>

-----------------------------------------------------------------------------
\* _rollback_locked: the witness in the training state commits a rollback.

WriteWitness(p) ==
    /\ Doing(p, "witness")
    /\ \/ /\ states' = [states EXCEPT ![p].witness = command.id,
                                      ![p].revision = command.revision]
          /\ Proceed("note_committed") /\ UNCHANGED troubles
       \/ Trouble /\ Proceed("reconcile") /\ UNCHANGED states
    /\ UNCHANGED <<alias, tags, pending, transition, owner, journal, policies,
                   proven, used>>

-----------------------------------------------------------------------------
\* _reconcile_pending_deployment.

\* A rollback with its witness stands; without, the prior policy returns.
\* Only this policy's commands change it meanwhile, so what a witness says
\* of the policy is there.
RecoverRollback(p) ==
    /\ Doing(p, "reconcile") /\ journal[p].op = "rollback"
    /\ IF \/ states[p].witness = journal[p].id
          \/ policies[p].route = journal[p].prior
       THEN Proceed("clear") /\ UNCHANGED <<journal, policies>>
       ELSE /\ policies[p].source = "rollback"
            /\ policies[p].revision \in {journal[p].last, journal[p].first + 1}
            /\ Route(p, journal[p].prior, "other")
            /\ journal' = [journal EXCEPT ![p].last = policies[p].revision + 1]
            /\ Proceed("clear")
    /\ UNCHANGED <<alias, tags, pending, transition, owner, states, proven,
                   used, troubles>>

RecoversDeployment(p) ==
    Doing(p, "reconcile") /\ journal[p].op = "deploy" /\ transition.policy = p

Verified(p) ==
    /\ policies[p].route = "personal"
    /\ policies[p].revision = states[p].revision
    /\ alias = journal[p].id

\* A deployment whose state was committed stands, if its policy and alias
\* are verified; else its policy is moved to the rollback model.
RecoverCommitted(p) ==
    /\ RecoversDeployment(p) /\ Committed(p)
    /\ \/ /\ Verified(p)
          /\ owner' = [policy |-> p, model |-> journal[p].id]
          /\ Proceed("handoff") /\ UNCHANGED <<journal, policies, troubles>>
       \/ /\ \/ Verified(p) /\ ServerFails
             \/ ~ Verified(p) /\ UNCHANGED troubles
          /\ IF policies[p].route = "rollback"
             THEN UNCHANGED <<journal, policies>>
             ELSE /\ Route(p, "rollback", "other")
                  /\ journal' =
                        [journal EXCEPT ![p].last = policies[p].revision + 1]
          /\ End /\ UNCHANGED owner
    /\ UNCHANGED <<alias, tags, pending, transition, states, proven, used>>

\* Mutation: only an alias whose copying was seen to end is put back.
MayHavePublishedNoted == {"published", "verified", "activated", "committed"}

MayHavePublished ==
    {"publishing", "published", "verified", "activated", "committed"}

\* The alias is what it was before, or is the candidate and is put back.
RecoverAlias(p) ==
    /\ RecoversDeployment(p) /\ ~ Committed(p)
    /\ LET back == /\ journal[p].phase \in MayHavePublished
                   /\ alias = journal[p].id
           put == IF back THEN journal[p].previous ELSE alias
           Go(restored) == command' = [command EXCEPT !.pc = "resettle",
                                                      !.restored = restored]
       IN  \/ /\ alias' = put /\ Go(put = journal[p].previous)
              /\ UNCHANGED troubles
           \/ ServerFails /\ alias' \in {alias, put} /\ Go(FALSE)
    /\ UNCHANGED <<tags, files>>

\* The revisions at which a recovery may still write the policy.
Writable(p) ==
    LET known == {journal[p].first, journal[p].last}
    IN  \/ policies[p].revision \in known
        \/ /\ policies[p].source = "deployment"
           /\ policies[p].revision - 1 \in known

Resettle(p) ==
    /\ Doing(p, "resettle")
    /\ LET target == IF command.restored THEN journal[p].prior ELSE "rollback"
           next == IF command.restored THEN Proceed("handoff") ELSE End
       IN  \/ /\ policies[p].route = target /\ next
              /\ UNCHANGED <<policies, troubles>>
           \/ /\ policies[p].route # target /\ Writable(p)
              /\ Route(p, target, "other") /\ next /\ UNCHANGED troubles
           \/ /\ policies[p].route # target /\ ~ Writable(p)
              /\ End /\ UNCHANGED <<policies, troubles>>
           \/ /\ policies[p].route # target
              /\ Trouble /\ End /\ UNCHANGED policies
    /\ UNCHANGED <<alias, tags, pending, transition, owner, journal, states,
                   proven, used>>

\* remove_or_handoff: the tags that are of no more use go, or go to the
\* ledger, or stay with the journal.
Useless(p) ==
    {Candidate(journal[p].id)} \cup
    {Previous(i) : i \in Ids \cap {IF Committed(p) THEN journal[p].old
                                   ELSE journal[p].id}}

\* Mutation: a recovery forgets the tags, whether they could be removed.
HandOffBlindly(p) ==
    /\ Doing(p, "handoff") /\ Proceed("clear")
    /\ \/ /\ tags' = Without(Useless(p))
          /\ UNCHANGED troubles
       \/ Trouble /\ UNCHANGED tags
    /\ pending' = [pending EXCEPT ![p] = @ \ Useless(p)]
    /\ UNCHANGED <<alias, transition, owner, journal, policies, states, proven,
                   used>>

HandOff(p) ==
    /\ Doing(p, "handoff")
    /\ \/ /\ tags' = Without(Useless(p))
          /\ pending' = [pending EXCEPT ![p] = @ \ Useless(p)]
          /\ Proceed("clear") /\ UNCHANGED troubles
       \/ /\ Trouble /\ UNCHANGED tags
          /\ pending' = [pending EXCEPT ![p] = @ \cup Useless(p)]
          /\ command' = [command EXCEPT !.pc = "clear", !.settled = FALSE]
       \/ Trouble /\ End /\ UNCHANGED <<tags, pending>>
    /\ UNCHANGED <<alias, transition, owner, journal, policies, states, proven,
                   used>>

-----------------------------------------------------------------------------
\* Other commands, the user, and the death of a command.

\* runtime_policy.update by a user: blocked by a journal, and never to the
\* personal alias.
UserUpdate(p, route) ==
    /\ ~ Pending(p) /\ route # "personal" /\ Trouble /\ Route(p, route, "other")
    /\ UNCHANGED <<alias, tags, pending, transition, owner, journal, states,
                   proven, used, command>>

Recovered(p) == Careful => ~ Pending(p)

\* adopt_legacy_personal, after the operator has inspected the active
\* policies as TRAINING.md asks.
AdoptLegacy(p) ==
    /\ command = NoCommand /\ Prepare(p)
    /\ owner = NoAliasOwner /\ alias # Missing
    /\ \A q \in Policies : Recovered(q)
    /\ \A q \in Policies \ {p} : policies[q].route # "personal"
    /\ owner' = [policy |-> p, model |-> alias]
    /\ proven' = [proven EXCEPT ![p] = @ \cup {alias}]
    /\ UNCHANGED <<alias, tags, pending, journal, policies, states, used,
                   command, troubles>>

\* release_personal_owner.
ReleaseOwner(p) ==
    /\ command = NoCommand /\ Recovered(p) /\ Prepare(p)
    /\ owner.policy = p /\ policies[p].route # "personal"
    /\ owner' = NoAliasOwner
    /\ UNCHANGED <<alias, tags, pending, journal, policies, states, proven,
                   used, command, troubles>>

\* start_training replaces the training state with that of a new run.
StartTraining(p) ==
    /\ command = NoCommand /\ Prepare(p) /\ ~ Pending(p) /\ pending[p] = {}
    /\ Careful => states[p].previous = 0
    /\ states' = [states EXCEPT ![p] = NewState]
    /\ UNCHANGED <<alias, tags, pending, owner, journal, policies, proven, used,
                   command, troubles>>

CommandDies ==
    /\ command # NoCommand /\ Trouble /\ End
    /\ UNCHANGED <<alias, tags, files>>

CommandStep(p) ==
    \/ CleanLedger(p) \/ BeginTransition(p) \/ RecordCandidate(p)
    \/ CreateCandidate(p) \/ Evaluate(p) \/ Reserve(p) \/ AdvanceTransition(p)
    \/ CheckOwner(p) \/ BackUp(p) \/ AdvanceJournal(p) \/ Update(p)
    \/ UpdateFails(p) \/ Publish(p) \/ FinalEvaluation(p) \/ SnapshotOld(p)
    \/ Commit(p) \/ WriteOwner(p) \/ RetireOld(p) \/ MarkClearing(p)
    \/ FinishTransition(p) \/ ClearTransition(p) \/ ClearFails(p)
    \/ RemoveCandidate(p) \/ ForgetCandidate(p) \/ RestoreAlias(p)
    \/ RecoverPolicy(p) \/ DiscardBackup(p) \/ WriteWitness(p)
    \/ RecoverRollback(p) \/ RecoverCommitted(p) \/ RecoverAlias(p)
    \/ Resettle(p) \/ HandOff(p)

DeploymentNext ==
    \/ \E p \in Policies :
          \/ CommandStep(p)
          \/ \E kind \in {"deploy", "rollback"} : StartCommand(p, kind)
          \/ \E route \in Routes : UserUpdate(p, route)
          \/ AdoptLegacy(p) \/ ReleaseOwner(p) \/ StartTraining(p)
    \/ CommandDies

\* A command goes on until it ends, and the operator of a policy repeats
\* /training rollback until the lifecycle locks are free for it.
DeploymentFairness ==
    \A p \in Policies : /\ WF_deploymentVars(CommandStep(p))
                        /\ SF_deploymentVars(StartCommand(p, "rollback"))

DeploymentSpec ==
    DeploymentInit /\ [][DeploymentNext]_deploymentVars /\ DeploymentFairness

-----------------------------------------------------------------------------
\* Properties.

\* Every record, tag and command is well formed.
DeploymentTypeOK ==
    /\ alias \in Models \cup {Missing}
    /\ tags \in [Tag -> Models \cup {Missing}]
    /\ pending \in [Policies -> SUBSET Tag]
    /\ transition \in AliasTransition /\ owner \in AliasOwner
    /\ journal \in [Policies -> Journal] /\ policies \in [Policies -> Policy]
    /\ states \in [Policies -> State] /\ proven \in [Policies -> SUBSET Models]
    /\ used \in 0..MaxIds /\ command \in LifecycleCommand
    /\ troubles \in 0..MaxTroubles

\* A policy routes to the alias only while it names a model which that
\* policy's evaluation passed, at every step of a deployment, its failure
\* and its recovery (an alias that a failed first deployment has just
\* removed being the exception until its policy follows), and while no other
\* policy owns, and so may replace, the alias (TRAINING.md: an owner record
\* "prevents a second policy from silently replacing an alias still routed
\* by the first policy").
RoutedValidated ==
    \A p \in Policies :
        policies[p].route = "personal" =>
            /\ \/ alias \in proven[p]
               \/ alias = Missing /\ journal[p].op = "deploy"
            /\ ~ Foreign(p)

\* Until a deployment is committed, the model it replaces is still there,
\* under the alias or under its backup tag.
PreviousKept ==
    \A p \in Policies :
        /\ journal[p].op = "deploy" /\ ~ Committed(p)
        /\ journal[p].previous # Missing
        => journal[p].previous \in {alias, tags[Previous(journal[p].id)]}

\* The tags that the files of a policy name.
Named(p) ==
    pending[p] \cup
    {Previous(i) : i \in Ids \cap {states[p].previous, journal[p].old}} \cup
    (IF journal[p].op = "deploy"
     THEN {Candidate(journal[p].id), Previous(journal[p].id)} ELSE {})

\* No temporary tag of the model server is forgotten, whichever removal
\* fails or command dies (TRAINING.md: failed removals "are never forgotten").
TagsAccounted ==
    \A t \in Tag : tags[t] # Missing => \E p \in Policies : t \in Named(p)

\* Neither the model a deployment replaces nor a tag it made is lost.
ModelsAccounted == DeploymentTypeOK /\ PreviousKept /\ TagsAccounted

\* Whatever a command leaves, the commands after it finish or undo it, and
\* the policy can be updated again.
RecoveryCompletes ==
    \A p \in Policies : Pending(p) ~> ~ Pending(p)
=============================================================================
