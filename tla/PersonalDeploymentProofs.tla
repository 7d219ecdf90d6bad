---------------------- MODULE PersonalDeploymentProofs ----------------------
(***************************************************************************)
(* The deployment of personal models, for every number of policies,        *)
(* transitions and failures.  What a policy may route to is kept by every  *)
(* file and every step: the model a journal would put back, and the one it *)
(* has put up, are models that the policy's checks passed, and while the   *)
(* alias is the journal's own model nothing entitles another policy to it. *)
(***************************************************************************)
EXTENDS PersonalDeployment, TLAPS

-----------------------------------------------------------------------------
Personal(p) == policies[p].route = "personal"

Deploys(p) == journal[p].op = "deploy"

\* A rollback of p that is not committed may yet return p to the alias.
Undoable(p) ==
    /\ journal[p].op = "rollback" /\ journal[p].prior = "personal"
    /\ states[p].witness # journal[p].id

Entitled(p) == Personal(p) \/ Undoable(p)

Sole(p) == \A q \in Policies : q # p => ~ Entitled(q)

Acceptable(p, model) == model \in proven[p] \cup {Missing}

\* The backup that the transition i makes.
BackupIs(i, model) == tags[Previous(i)] = model

\* No removal that the ledger of p asks for concerns it.
Kept(p, i) == Previous(i) \notin pending[p]

\* Transitions are numbered as they begin, and a deployment alone has an old
\* recovery alias.
Numbered ==
    /\ alias <= used /\ command.id <= used /\ command.previous <= used
    /\ \A p \in Policies :
          /\ states[p].deployed <= used /\ states[p].previous <= used
          /\ journal[p].id <= used /\ journal[p].old <= used
          /\ journal[p].previous <= used
          /\ ~ Deploys(p) => journal[p].old = 0
    /\ \A i \in Ids : i > used =>
          BackupIs(i, Missing) /\ \A p \in Policies : Kept(p, i)

OwnerInv ==
    /\ owner.policy = NoPolicy => owner = NoAliasOwner
    /\ \A p \in Policies : owner.policy = p => owner.model \in proven[p]

\* A deployment that is not committed: the alias is the model it replaces,
\* or its own, and in that case its backup is there.
UncommittedInv(p) ==
    LET i == journal[p].id
        before == journal[p].previous
    IN  /\ alias \in {before, i} /\ before # i
        /\ alias = i => journal[p].phase \in MayHavePublished
        /\ journal[p].phase \in MayHavePublished => Acceptable(p, before)
        /\ journal[p].prior = "personal" => before \in proven[p]
        /\ alias # before => BackupIs(i, before) /\ Kept(p, i)
        /\ journal[p].old \in {0, states[p].previous}

CommittedInv(p) ==
    LET i == journal[p].id
    IN  /\ alias = i /\ i \in proven[p]
        /\ states[p].previous = i \/ BackupIs(i, Missing)

JournalInv(p) ==
    Deploys(p) =>
        /\ transition.policy = p /\ ~ Foreign(p) /\ journal[p].id \in Ids
        /\ alias = journal[p].id => Sole(p)
        /\ IF Committed(p) THEN CommittedInv(p) ELSE UncommittedInv(p)

RouteInv(p) ==
    /\ Personal(p) =>
          /\ alias \in proven[p] \/ (alias = Missing /\ Deploys(p))
          /\ ~ Foreign(p)
    /\ Undoable(p) => alias \in proven[p] /\ ~ Foreign(p)

FilesInv ==
    /\ OwnerInv /\ TagsAccounted
    /\ \A p \in Policies : JournalInv(p) /\ RouteInv(p)

\* The steps of a deployment, by what is there already.
Preparing == {"record", "create", "evaluate"}
Unbacked == {"advance", "check", "backup"}
Backed == {"note_backed_up", "quiesce", "note_quiesced", "note_publishing", "copy"}
Passed == {"note_verified", "activate", "note_activated", "snapshot", "commit"}
Published == {"note_published", "final"} \cup Passed
Undoing == {"restore", "repolicy", "discard"}
Uncommitted == Unbacked \cup Backed \cup Published \cup Undoing

\* The policy still has its prior route; it is away from the alias; the
\* owner has been checked.
Unmoved == {"advance", "check", "backup", "note_backed_up", "quiesce"}
Away == {"note_quiesced", "note_publishing", "copy", "note_published", "final",
         "note_verified", "activate"}
Checked == {"backup", "restore"} \cup Backed \cup Published

Rerouting == {"reroute", "note_policy_updated", "witness", "note_committed"}

Sound(p) == Personal(p) => alias \in proven[p]

\* The journal of p may go: the tags it names are gone or named elsewhere.
Cleared(p) ==
    LET Safe(t) == tags[t] # Missing => t \in pending[p]
        SafePrevious(i) == states[p].previous = i \/ Safe(Previous(i))
    IN  /\ Sound(p) /\ Safe(Candidate(journal[p].id))
        /\ SafePrevious(journal[p].id)
        /\ journal[p].old # 0 => SafePrevious(journal[p].old)

\* The number of a transition is not used before its journal is written.
Unused(p, i) ==
    /\ i \in Ids /\ ~ Pending(p) /\ alias # i /\ states[p].deployed # i
    /\ BackupIs(i, Missing) /\ Kept(p, i)

\* The journal is that of the running deployment.
OwnJournal(p) ==
    /\ command.kind = "deploy" /\ Deploys(p) /\ journal[p].id = command.id
    /\ Candidate(command.id) \in pending[p]

PreparingInv(p) ==
    /\ command.pc \in Preparing => command.kind = "deploy" /\ Unused(p, command.id)
    /\ command.pc \in {"create", "evaluate"} => Candidate(command.id) \in pending[p]
    /\ command.pc = "reserve" /\ command.kind = "deploy" =>
          /\ Unused(p, command.id) /\ Candidate(command.id) \in pending[p]
          /\ command.previous = alias /\ transition.policy = p

RunningInv(p) ==
    command.pc \in Uncommitted =>
        /\ OwnJournal(p) /\ ~ Committed(p)
        /\ journal[p].previous = command.previous
        /\ command.pc \in Unmoved => policies[p].route = journal[p].prior
        /\ command.pc \in Away => ~ Personal(p)
        /\ command.pc # "discard" =>
              command.mutated \/ policies[p].route = journal[p].prior

BackupInv(p) ==
    LET i == command.id
        before == command.previous
    IN  /\ command.pc \in Unbacked =>
              alias = before /\ alias # i /\ BackupIs(i, Missing) /\ Kept(p, i)
        /\ command.pc \in Backed =>
              alias = before /\ alias # i /\ BackupIs(i, before) /\ Kept(p, i)
        /\ command.pc \in Published =>
              alias = i /\ BackupIs(i, before) /\ Kept(p, i)
        /\ command.pc \in Passed => i \in proven[p]
        /\ command.pc = "copy" => journal[p].phase \in MayHavePublished
        /\ command.pc = "commit" => journal[p].old = states[p].previous
        /\ command.pc \in Checked => Sole(p) /\ Acceptable(p, before)

UndoingInv(p) ==
    /\ command.pc = "repolicy" /\ command.restored => alias = command.previous
    /\ command.pc = "discard" =>
          alias = command.previous /\ (command.settled => Sound(p))

EndingInv(p) ==
    /\ command.pc \in {"own", "retire"} => OwnJournal(p) /\ Committed(p)
    /\ command.pc = "clear" /\ Deploys(p) => Cleared(p)
    /\ command.pc = "finish" => Deploys(p) /\ Cleared(p)
    /\ command.pc = "unclaim" => ~ Pending(p)
    /\ command.pc \in {"cleanup", "forget"} => command.id \in Ids
    /\ command.pc = "forget" => tags[Candidate(command.id)] = Missing

RecoveringInv(p) ==
    /\ command.pc \in Rerouting =>
          /\ command.kind = "rollback" /\ journal[p].op = "rollback"
          /\ journal[p].id = command.id
    /\ command.pc = "resettle" =>
          /\ Deploys(p) /\ ~ Committed(p)
          /\ command.restored => alias = journal[p].previous
    /\ command.pc = "handoff" =>
          /\ Deploys(p) /\ Sound(p)
          /\ ~ Committed(p) => alias = journal[p].previous

StepInv(p) ==
    /\ PreparingInv(p) /\ RunningInv(p) /\ BackupInv(p)
    /\ UndoingInv(p) /\ EndingInv(p) /\ RecoveringInv(p)

CommandInv ==
    /\ command.pc = "idle" => command = NoCommand
    /\ command.pc # "idle" =>
          LET p == command.policy
          IN  /\ p \in Policies /\ transition.policy \in {p, NoPolicy}
              /\ command.kind # "none" /\ (command.kind = "deploy" => ~ Foreign(p))
              /\ StepInv(p)

DeploymentInv == DeploymentTypeOK /\ Numbered /\ FilesInv /\ CommandInv

LEMMA InvTypes ==
    ASSUME DeploymentInv
    PROVE  /\ alias \in Models \cup {Missing} /\ tags \in [Tag -> Models \cup {Missing}]
           /\ pending \in [Policies -> SUBSET Tag] /\ transition \in AliasTransition
           /\ owner \in AliasOwner /\ journal \in [Policies -> Journal]
           /\ policies \in [Policies -> Policy] /\ states \in [Policies -> State]
           /\ proven \in [Policies -> SUBSET Models] /\ used \in 0..MaxIds
           /\ command \in LifecycleCommand /\ troubles \in 0..MaxTroubles
BY DEF DeploymentInv, DeploymentTypeOK

\* A transition's number is no mark of absence.
LEMMA Numbers ==
           /\ MaxIds \in Nat /\ MaxTroubles \in Nat /\ NoPolicy \notin Policies
           /\ Ids \subseteq Nat /\ 0 \notin Ids /\ Missing \notin Ids
           /\ Missing \notin Models /\ Ids \subseteq Models
           /\ Models \subseteq 0..MaxIds
BY DeploymentAssumption, SMT DEF Ids, Missing, Models, Legacy

LEMMA CommandGoes ==
    ASSUME command \in LifecycleCommand, NEW pc \in Pcs, Proceed(pc)
    PROVE  /\ command' \in LifecycleCommand /\ command'.pc = pc
           /\ command'.policy = command.policy /\ command'.kind = command.kind
           /\ command'.id = command.id /\ command'.previous = command.previous
           /\ command'.revision = command.revision
           /\ command'.mutated = command.mutated
           /\ command'.restored = command.restored
           /\ command'.settled = command.settled
<1>1. ASSUME NEW c \in LifecycleCommand
      PROVE  LET r == [c EXCEPT !.pc = pc]
             IN  /\ r \in LifecycleCommand /\ r.pc = pc
                 /\ r.policy = c.policy /\ r.kind = c.kind /\ r.id = c.id
                 /\ r.previous = c.previous /\ r.revision = c.revision
                 /\ r.mutated = c.mutated /\ r.restored = c.restored
                 /\ r.settled = c.settled
  BY Zenon DEF LifecycleCommand
<1> QED
  BY <1>1, Zenon DEF Proceed

LEMMA NoCommandTyped ==
           /\ NoCommand \in LifecycleCommand /\ NoCommand.pc = "idle"
           /\ NoCommand.id = 0 /\ NoCommand.previous = Missing
           /\ NoCommand.policy = NoPolicy
<1>1. "idle" \in Pcs
  BY DEF Pcs
<1> QED
  BY <1>1, Zenon DEF NoCommand, LifecycleCommand

LEMMA TroubleTyped ==
    ASSUME troubles \in 0..MaxTroubles, Trouble \/ troubles' = troubles
    PROVE  troubles' \in 0..MaxTroubles
BY DeploymentAssumption, SMT DEF Trouble

\* What the files say of the policies other than p.
OthersSame(p) ==
    \A q \in Policies : q # p =>
        /\ journal'[q] = journal[q] /\ policies'[q] = policies[q]
        /\ states'[q] = states[q] /\ proven'[q] = proven[q]

LEMMA SoleStays ==
    ASSUME NEW p \in Policies, OthersSame(p), Sole(p)
    PROVE  Sole(p)'
BY Zenon DEF Sole, OthersSame, Entitled, Personal, Undoable

\* While a command of p runs, no other policy has a deployment to recover,
\* and its claim to the alias is that of before unless p is the only one.
LEMMA OthersRest ==
    ASSUME DeploymentInv, NEW p \in Policies, command.policy = p, command.pc # "idle",
           OthersSame(p), (alias' = alias /\ owner' = owner) \/ Sole(p),
           NEW q \in Policies, q # p
    PROVE  JournalInv(q)' /\ RouteInv(q)' /\ ~ Deploys(q)
<1>1. JournalInv(q) /\ RouteInv(q) /\ transition.policy \in {p, NoPolicy}
  BY Zenon DEF DeploymentInv, FilesInv, CommandInv
<1>2. NoPolicy # q
  BY Numbers
<1>3. ~ Deploys(q)
  BY <1>1, <1>2, Zenon DEF JournalInv
<1>4. /\ journal'[q] = journal[q] /\ policies'[q] = policies[q]
      /\ states'[q] = states[q] /\ proven'[q] = proven[q]
  BY Zenon DEF OthersSame
<1>5. JournalInv(q)'
  BY <1>3, <1>4, Zenon DEF JournalInv, Deploys
<1>6. (Personal(q)' <=> Personal(q)) /\ (Undoable(q)' <=> Undoable(q))
  BY <1>4, Zenon DEF Personal, Undoable
<1>7. RouteInv(q)'
  <2>1. CASE Sole(p)
    <3>1. ~ Personal(q) /\ ~ Undoable(q)
      BY <2>1, Zenon DEF Sole, Entitled
    <3> QED
      BY <1>6, <3>1, Zenon DEF RouteInv
  <2>2. CASE alias' = alias /\ owner' = owner
    BY <1>1, <1>3, <1>4, <1>6, <2>2, Zenon DEF RouteInv, Foreign, Deploys
  <2> QED
    BY <2>1, <2>2
<1> QED
  BY <1>3, <1>5, <1>7

-----------------------------------------------------------------------------
\* What a step must show, by where it leaves the command.

LEMMA EndsWell ==
    ASSUME End
    PROVE  /\ CommandInv' /\ command' \in LifecycleCommand
           /\ command'.id = 0 /\ command'.previous = Missing
<1>1. command' = NoCommand
  BY DEF End
<1>2. command'.pc = "idle"
  BY <1>1, NoCommandTyped
<1> QED
  BY <1>1, <1>2, NoCommandTyped, Zenon DEF CommandInv

LEMMA GoesOn ==
    ASSUME NEW p \in Policies, command'.policy = p, command'.pc # "idle",
           transition'.policy \in {p, NoPolicy}, command'.kind # "none",
           command'.kind = "deploy" => ~ Foreign(p)', StepInv(p)'
    PROVE  CommandInv'
BY Zenon DEF CommandInv

LEMMA RunningFacts ==
    ASSUME DeploymentInv, NEW p \in Policies, command.policy = p
    PROVE  /\ command.pc # "idle" /\ transition.policy \in {p, NoPolicy}
           /\ command.kind # "none" /\ (command.kind = "deploy" => ~ Foreign(p))
           /\ StepInv(p) /\ JournalInv(p) /\ RouteInv(p)
           /\ command.id <= used /\ command.previous <= used
<1>1. command.pc # "idle"
  <2>1. ASSUME command.pc = "idle"
        PROVE  FALSE
    <3>1. command = NoCommand
      BY <2>1, Zenon DEF DeploymentInv, CommandInv
    <3> QED
      BY <3>1, NoCommandTyped, Numbers
  <2> QED
    BY <2>1
<1>2. CommandInv /\ Numbered
  BY DEF DeploymentInv
<1>3. /\ transition.policy \in {p, NoPolicy} /\ command.kind # "none"
      /\ (command.kind = "deploy" => ~ Foreign(p))
      /\ StepInv(p)
  BY <1>1, <1>2, Zenon DEF CommandInv
<1>4. command.id <= used /\ command.previous <= used
  BY <1>2 DEF Numbered
<1>5. JournalInv(p) /\ RouteInv(p)
  BY Zenon DEF DeploymentInv, FilesInv
<1> QED
  BY <1>1, <1>3, <1>4, <1>5

\* Steps that ask nothing of what is left.
LEMMA Anywhere ==
    ASSUME NEW p \in Policies, command'.pc \in {"ledger", "reconcile"}
    PROVE  StepInv(p)'
BY SMT DEF StepInv, PreparingInv, RunningInv, BackupInv, UndoingInv, EndingInv,
   RecoveringInv, Preparing, Unbacked, Backed, Passed, Published, Undoing, Uncommitted,
   Unmoved, Away, Checked, Rerouting

LEMMA AtCleanup ==
    ASSUME NEW p \in Policies, command'.pc = "cleanup", command'.id \in Ids
    PROVE  StepInv(p)'
BY SMT DEF StepInv, PreparingInv, RunningInv, BackupInv, UndoingInv, EndingInv,
   RecoveringInv, Preparing, Unbacked, Backed, Passed, Published, Undoing, Uncommitted,
   Unmoved, Away, Checked, Rerouting

LEMMA AtClear ==
    ASSUME NEW p \in Policies, command'.pc = "clear", Deploys(p)' => Cleared(p)'
    PROVE  StepInv(p)'
<1> QED
  BY SMT DEF StepInv, PreparingInv, RunningInv, BackupInv, UndoingInv, EndingInv,
     RecoveringInv, Preparing, Unbacked, Backed, Passed, Published, Undoing,
     Uncommitted, Unmoved, Away, Checked, Rerouting

\* Only the command goes on, or ends.
LEMMA OnlyCommand ==
    ASSUME DeploymentInv, UNCHANGED <<alias, tags, files>>,
           command' \in LifecycleCommand, command'.id <= used,
           command'.previous <= used, Trouble \/ troubles' = troubles, CommandInv'
    PROVE  DeploymentInv'
<1>1. /\ alias' = alias /\ tags' = tags /\ pending' = pending
      /\ transition' = transition /\ owner' = owner /\ journal' = journal
      /\ policies' = policies /\ states' = states /\ proven' = proven /\ used' = used
  BY DEF files
<1>2. DeploymentTypeOK'
  BY <1>1, InvTypes, TroubleTyped DEF DeploymentTypeOK
<1>3. Numbered'
  <2>1. Numbered
    BY DEF DeploymentInv
  <2> QED
    BY <1>1, <2>1 DEF Numbered, BackupIs, Kept, Deploys
<1>4. FilesInv'
  <2>1. FilesInv
    BY DEF DeploymentInv
  <2>2. OwnerInv' /\ TagsAccounted'
    BY <1>1, <2>1, Zenon DEF FilesInv, OwnerInv, TagsAccounted, Named
  <2>3. ASSUME NEW p \in Policies
        PROVE  JournalInv(p)' /\ RouteInv(p)'
    <3>1. JournalInv(p) /\ RouteInv(p)
      BY <2>1 DEF FilesInv
    <3>2. /\ Deploys(p)' = Deploys(p) /\ Foreign(p)' = Foreign(p)
          /\ Committed(p)' = Committed(p) /\ Sole(p)' = Sole(p)
          /\ Personal(p)' = Personal(p) /\ Undoable(p)' = Undoable(p)
          /\ CommittedInv(p)' = CommittedInv(p)
          /\ UncommittedInv(p)' = UncommittedInv(p)
      BY <1>1 DEF Deploys, Foreign, Committed, Sole, Personal, Undoable, Entitled,
         CommittedInv, UncommittedInv, BackupIs, Kept, Acceptable
    <3> QED
      BY <1>1, <3>1, <3>2 DEF JournalInv, RouteInv
  <2> QED
    BY <2>2, <2>3, Zenon DEF FilesInv
<1> QED
  BY <1>2, <1>3, <1>4 DEF DeploymentInv

\* A step of p's command, put together.
LEMMA StepKeeps ==
    ASSUME DeploymentInv, NEW p \in Policies, command.policy = p, OthersSame(p),
           (alias' = alias /\ owner' = owner) \/ Sole(p),
           DeploymentTypeOK', Numbered', OwnerInv', TagsAccounted',
           JournalInv(p)', RouteInv(p)', CommandInv'
    PROVE  DeploymentInv'
<1>1. command.pc # "idle"
  BY RunningFacts
<1>2. ASSUME NEW q \in Policies
      PROVE  JournalInv(q)' /\ RouteInv(q)'
  <2>1. CASE q = p
    BY <2>1
  <2>2. CASE q # p
    BY <1>1, <2>2, OthersRest
  <2> QED
    BY <2>1, <2>2
<1> QED
  BY <1>2, Zenon DEF DeploymentInv, FilesInv

\* The names of tags.
LEMMA TagNames ==
    ASSUME NEW i \in Ids, NEW j \in Ids
    PROVE  /\ Candidate(i) \in Tag /\ Previous(i) \in Tag
           /\ Candidate(i) # Previous(j)
           /\ Previous(i) = Previous(j) => i = j
           /\ Candidate(i) = Candidate(j) => i = j
BY SMT DEF Candidate, Previous, Tag

LEMMA NamedBy ==
    ASSUME NEW p \in Policies, NEW t
    PROVE  t \in Named(p) <=>
              \/ t \in pending[p]
              \/ \E i \in Ids : t = Previous(i) /\ i \in {states[p].previous, journal[p].old}
              \/ Deploys(p) /\ t \in {Candidate(journal[p].id), Previous(journal[p].id)}
BY Zenon DEF Named, Deploys

LEMMA NamedByAfter ==
    ASSUME NEW p \in Policies, NEW t
    PROVE  t \in Named(p)' <=>
              \/ t \in pending'[p]
              \/ \E i \in Ids : t = Previous(i) /\ i \in {states'[p].previous, journal'[p].old}
              \/ Deploys(p)' /\ t \in {Candidate(journal'[p].id), Previous(journal'[p].id)}
BY Zenon DEF Named, Deploys

\* A tag that p no longer names is gone, and one that is new is named.
LEMMA TagsStay ==
    ASSUME TagsAccounted, NEW p \in Policies, OthersSame(p),
           \A q \in Policies : q # p => pending'[q] = pending[q],
           \A t \in Tag : tags'[t] # Missing =>
               /\ tags[t] # Missing \/ t \in Named(p)'
               /\ t \in Named(p) => t \in Named(p)'
    PROVE  TagsAccounted'
<1> SUFFICES ASSUME NEW t \in Tag, tags'[t] # Missing
             PROVE  \E q \in Policies : t \in Named(q)'
  BY Zenon DEF TagsAccounted
<1>1. CASE t \in Named(p)'
  BY <1>1
<1>2. CASE t \notin Named(p)'
  <2>1. tags[t] # Missing /\ t \notin Named(p)
    BY <1>2
  <2>2. PICK q \in Policies : t \in Named(q)
    BY <2>1, Zenon DEF TagsAccounted
  <2>3. q # p
    BY <2>1, <2>2
  <2>4. journal'[q] = journal[q] /\ states'[q] = states[q] /\ pending'[q] = pending[q]
    BY <2>3, Zenon DEF OthersSame
  <2>5. t \in Named(q)'
    BY <2>2, <2>4, NamedBy, NamedByAfter, Zenon DEF Deploys
  <2> QED
    BY <2>5
<1> QED
  BY <1>1, <1>2

\* No tag is made, and what p names is what it named.
LEMMA TagsRest ==
    ASSUME TagsAccounted, NEW p \in Policies, OthersSame(p), pending' = pending,
           tags' = tags, states'[p].previous = states[p].previous,
           journal'[p].old = journal[p].old, journal'[p].id = journal[p].id,
           journal'[p].op = journal[p].op
    PROVE  TagsAccounted'
<1>1. ASSUME NEW t
      PROVE  t \in Named(p)' <=> t \in Named(p)
  BY NamedBy, NamedByAfter, Zenon DEF Deploys
<1> QED
  BY <1>1, TagsStay, Zenon

-----------------------------------------------------------------------------
\* The backup of an alias that was replaced stays, and one that was never
\* made is not made late.
BackupKept(p) ==
    LET i == journal[p].id
        before == journal[p].previous
    IN  /\ Deploys(p) /\ Committed(p) /\ BackupIs(i, Missing) => BackupIs(i, Missing)'
        /\ Deploys(p) /\ ~ Committed(p) /\ alias # before =>
              BackupIs(i, before)' /\ Kept(p, i)'

\* It does where the tag of a backup that may be needed is left alone.
LEMMA BackupStays ==
    ASSUME DeploymentInv, NEW p \in Policies, command.policy = p, journal' = journal,
           \A t \in Tag : tags'[t] \in {tags[t], Missing},
           Deploys(p) /\ ~ Committed(p) /\ alias # journal[p].previous
              /\ Kept(p, journal[p].id)
           => LET t == Previous(journal[p].id)
              IN  tags'[t] = tags[t] /\ t \notin pending'[p]
    PROVE  BackupKept(p)
<1> SUFFICES ASSUME Deploys(p) PROVE BackupKept(p)
  BY Zenon DEF BackupKept
<1>1. JournalInv(p) /\ journal[p].id \in Ids
  BY RunningFacts, Zenon DEF JournalInv
<1>2. Previous(journal[p].id) \in Tag
  BY <1>1, TagNames
<1>3. BackupIs(journal[p].id, Missing) => BackupIs(journal[p].id, Missing)'
  <2>1. ASSUME tags[Previous(journal[p].id)] = Missing
        PROVE  tags'[Previous(journal[p].id)] = Missing
    BY <1>2, <2>1
  <2> QED
    BY <2>1 DEF BackupIs
<1>4. ASSUME ~ Committed(p), alias # journal[p].previous
      PROVE  BackupIs(journal[p].id, journal[p].previous)' /\ Kept(p, journal[p].id)'
  <2>1. BackupIs(journal[p].id, journal[p].previous) /\ Kept(p, journal[p].id)
    BY <1>1, <1>4, Zenon DEF JournalInv, UncommittedInv
  <2> QED
    BY <1>4, <2>1, Zenon DEF BackupIs, Kept
<1> QED
  BY <1>3, <1>4, Zenon DEF BackupKept

-----------------------------------------------------------------------------
\* The tags and the ledger of p change, as its command removes a tag, makes one
\* or hands it to the ledger.
LEMMA TagsMove ==
    ASSUME DeploymentInv, NEW p \in Policies, command.policy = p,
           UNCHANGED <<alias, transition, owner, journal, policies, states, proven, used>>,
           tags' \in [Tag -> Models \cup {Missing}],
           pending' \in [Policies -> SUBSET Tag],
           \A q \in Policies : q # p => pending'[q] = pending[q],
           \A i \in Ids : i > used => BackupIs(i, Missing)' /\ Kept(p, i)',
           BackupKept(p),
           \A t \in Tag : tags'[t] # Missing =>
               /\ tags[t] # Missing \/ t \in Named(p)'
               /\ t \in Named(p) => t \in Named(p)',
           command' \in LifecycleCommand, command'.id <= used,
           command'.previous <= used, Trouble \/ troubles' = troubles, CommandInv'
    PROVE  DeploymentInv'
<1>1. /\ alias' = alias /\ transition' = transition /\ owner' = owner
      /\ journal' = journal /\ policies' = policies /\ states' = states
      /\ proven' = proven /\ used' = used
  OBVIOUS
<1>2. OthersSame(p)
  BY <1>1 DEF OthersSame
<1>3. DeploymentTypeOK'
  BY <1>1, InvTypes, TroubleTyped DEF DeploymentTypeOK
<1>4. Numbered'
  <2>1. Numbered
    BY DEF DeploymentInv
  <2>2. ASSUME NEW i \in Ids, i > used, NEW q \in Policies
        PROVE  Kept(q, i)'
    <3>1. CASE q = p
      BY <2>2, <3>1
    <3>2. CASE q # p
      BY <2>1, <2>2, <3>2 DEF Numbered, Kept
    <3> QED
      BY <3>1, <3>2
  <2> QED
    BY <1>1, <2>1, <2>2 DEF Numbered, Deploys
<1>5. OwnerInv'
  BY <1>1, Zenon DEF DeploymentInv, FilesInv, OwnerInv
<1>6. TagsAccounted'
  <2>1. TagsAccounted
    BY DEF DeploymentInv, FilesInv
  <2> QED
    BY <1>2, <2>1, TagsStay
<1>7. /\ Deploys(p)' = Deploys(p) /\ Foreign(p)' = Foreign(p)
      /\ Committed(p)' = Committed(p) /\ Sole(p)' = Sole(p)
      /\ Personal(p)' = Personal(p) /\ Undoable(p)' = Undoable(p)
  BY <1>1 DEF Deploys, Foreign, Committed, Sole, Personal, Undoable, Entitled
<1>8. JournalInv(p)'
  <2>1. JournalInv(p)
    BY RunningFacts
  <2> SUFFICES ASSUME Deploys(p) PROVE JournalInv(p)'
    BY <1>7, Zenon DEF JournalInv
  <2>2. CASE Committed(p)
    <3>1. BackupIs(journal[p].id, Missing) => BackupIs(journal[p].id, Missing)'
      BY <2>2, Zenon DEF BackupKept
    <3>2. CommittedInv(p)'
      BY <1>1, <2>1, <2>2, <3>1, Zenon DEF JournalInv, CommittedInv
    <3> QED
      BY <1>1, <1>7, <2>1, <2>2, <3>2, Zenon DEF JournalInv
  <2>3. CASE ~ Committed(p)
    <3>1. alias # journal[p].previous =>
              BackupIs(journal[p].id, journal[p].previous)' /\ Kept(p, journal[p].id)'
      BY <2>3, Zenon DEF BackupKept
    <3>2. UncommittedInv(p)'
      BY <1>1, <2>1, <2>3, <3>1, Zenon DEF JournalInv, UncommittedInv, Acceptable
    <3> QED
      BY <1>1, <1>7, <2>1, <2>3, <3>2, Zenon DEF JournalInv
  <2> QED
    BY <2>2, <2>3
<1>9. RouteInv(p)'
  BY <1>1, <1>7, RunningFacts DEF RouteInv
<1> QED
  BY <1>1, <1>2, <1>3, <1>4, <1>5, <1>6, <1>8, <1>9, StepKeeps

LEMMA ProceedsWell ==
    ASSUME DeploymentInv, NEW p \in Policies, command.policy = p,
           NEW pc \in Pcs \ {"idle"}, Proceed(pc),
           transition' = transition, owner' = owner, StepInv(p)'
    PROVE  /\ CommandInv' /\ command' \in LifecycleCommand
           /\ command'.id <= used /\ command'.previous <= used
<1>1. /\ command' \in LifecycleCommand /\ command'.pc = pc /\ command'.policy = p
      /\ command'.kind = command.kind /\ command'.id = command.id
      /\ command'.previous = command.previous
  BY CommandGoes, InvTypes
<1>2. Foreign(p)' = Foreign(p)
  BY DEF Foreign
<1>3. CommandInv'
  BY <1>1, <1>2, RunningFacts, GoesOn, Zenon
<1> QED
  BY <1>1, <1>3, RunningFacts

LEMMA EndsNumbered ==
    ASSUME DeploymentInv, End
    PROVE  /\ CommandInv' /\ command' \in LifecycleCommand
           /\ command'.id <= used /\ command'.previous <= used
<1>1. used \in Nat
  BY InvTypes, Numbers
<1>2. 0 <= used /\ Missing <= used
  BY <1>1, SMT DEF Missing
<1> QED
  BY <1>2, EndsWell

LEMMA WithoutTags ==
    ASSUME tags \in [Tag -> Models \cup {Missing}], NEW gone
    PROVE  /\ Without(gone) \in [Tag -> Models \cup {Missing}]
           /\ \A t \in Tag : Without(gone)[t] = IF t \in gone THEN Missing ELSE tags[t]
BY Zenon DEF Without

\* p names the tag still, unless its ledger has dropped it.
LEMMA NamedStill ==
    ASSUME NEW p \in Policies, states' = states, journal' = journal, NEW t \in Named(p),
           t \in pending[p] => t \in pending'[p]
    PROVE  t \in Named(p)'
BY NamedBy, NamedByAfter, Zenon DEF Deploys

LEMMA CleanLedgerKeeps ==
    ASSUME DeploymentInv, NEW p \in Policies, CleanLedger(p)
    PROVE  DeploymentInv'
<1>1. command.policy = p /\ (Trouble \/ troubles' = troubles)
      /\ UNCHANGED <<alias, transition, owner, journal, policies, states, proven, used>>
  BY DEF CleanLedger, Doing
<1>2. CASE End /\ UNCHANGED <<tags, pending>>
  BY <1>1, <1>2, EndsNumbered, OnlyCommand DEF files
<1>3. CASE tags' = Without(pending[p]) /\ pending' = [pending EXCEPT ![p] = {}]
           /\ Proceed("reconcile")
  <2>1. /\ tags' \in [Tag -> Models \cup {Missing}]
        /\ \A t \in Tag : tags'[t] = IF t \in pending[p] THEN Missing ELSE tags[t]
    BY <1>3, InvTypes, WithoutTags
  <2>2. /\ pending' \in [Policies -> SUBSET Tag] /\ pending'[p] = {}
        /\ \A q \in Policies : q # p => pending'[q] = pending[q]
    BY <1>3, InvTypes
  <2>3. ASSUME NEW i \in Ids, i > used
        PROVE  BackupIs(i, Missing)' /\ Kept(p, i)'
    BY <2>1, <2>2, <2>3, TagNames DEF DeploymentInv, Numbered, BackupIs, Kept
  <2>4. BackupKept(p)
    <3>1. \A t \in Tag : tags'[t] \in {tags[t], Missing}
      BY <2>1
    <3>2. ASSUME Deploys(p), ~ Committed(p), Kept(p, journal[p].id)
          PROVE  /\ tags'[Previous(journal[p].id)] = tags[Previous(journal[p].id)]
                 /\ Previous(journal[p].id) \notin pending'[p]
      <4>1. Previous(journal[p].id) \in Tag
        BY <1>1, <3>2, RunningFacts, TagNames DEF JournalInv
      <4> QED
        BY <2>1, <2>2, <3>2, <4>1 DEF Kept
    <3> QED
      BY <1>1, <3>1, <3>2, BackupStays
  <2>5. ASSUME NEW t \in Tag, tags'[t] # Missing
        PROVE  /\ tags[t] # Missing
               /\ t \in Named(p) => t \in Named(p)'
    <3>1. t \notin pending[p] /\ tags[t] # Missing
      BY <2>1, <2>5
    <3> QED
      BY <1>1, <3>1, NamedStill
  <2>6. "reconcile" \in Pcs \ {"idle"} /\ command'.pc = "reconcile"
    <3>1. "reconcile" \in Pcs \ {"idle"}
      BY DEF Pcs
    <3> QED
      BY <1>3, <3>1, CommandGoes, InvTypes
  <2>7. StepInv(p)'
    BY <2>6, Anywhere
  <2>8. /\ CommandInv' /\ command' \in LifecycleCommand
        /\ command'.id <= used /\ command'.previous <= used
    BY <1>1, <1>3, <2>6, <2>7, ProceedsWell
  <2> QED
    BY <1>1, <2>1, <2>2, <2>3, <2>4, <2>5, <2>8, TagsMove
<1> QED
  BY <1>2, <1>3 DEF CleanLedger

LEMMA AtPreparing ==
    ASSUME NEW p \in Policies, NEW i \in Ids, command'.pc \in Preparing,
           command'.id = i, command'.kind = "deploy", Unused(p, i)',
           command'.pc # "record" => Candidate(i) \in pending'[p]
    PROVE  StepInv(p)'
BY SMT DEF StepInv, PreparingInv, RunningInv, BackupInv, UndoingInv, EndingInv,
   RecoveringInv, Preparing, Unbacked, Backed, Passed, Published, Undoing, Uncommitted,
   Unmoved, Away, Checked, Rerouting

\* A step from pc of p's command, and what the invariant says there.
LEMMA PreparingFacts ==
    ASSUME DeploymentInv, NEW p \in Policies, command.policy = p,
           command.pc \in Preparing
    PROVE  /\ command.kind = "deploy" /\ Unused(p, command.id) /\ ~ Deploys(p)
           /\ command.pc # "record" => Candidate(command.id) \in pending[p]
<1>1. PreparingInv(p)
  BY RunningFacts DEF StepInv
<1> QED
  BY <1>1, SMT DEF PreparingInv, Preparing, Unused, Pending, Deploys

\* A tag that is not removed is named as before, or by the ledger.
LEMMA RecordCandidateKeeps ==
    ASSUME DeploymentInv, NEW p \in Policies, RecordCandidate(p)
    PROVE  DeploymentInv'
<1>1. command.policy = p /\ command.pc = "record" /\ (Trouble \/ troubles' = troubles)
      /\ UNCHANGED <<alias, tags, transition, owner, journal, policies, states, proven, used>>
  BY DEF RecordCandidate, Doing
<1>2. CASE End /\ UNCHANGED pending
  BY <1>1, <1>2, EndsNumbered, OnlyCommand DEF files
<1>3. CASE /\ pending' = [pending EXCEPT ![p] = @ \cup {Candidate(command.id)}]
           /\ Proceed("create")
  <2>1. command.kind = "deploy" /\ Unused(p, command.id) /\ ~ Deploys(p) /\ command.id \in Ids
    BY <1>1, PreparingFacts DEF Preparing, Unused
  <2>2. Candidate(command.id) \in Tag
    BY <2>1, TagNames
  <2>3. /\ pending' \in [Policies -> SUBSET Tag]
        /\ pending'[p] = pending[p] \cup {Candidate(command.id)}
        /\ \A q \in Policies : q # p => pending'[q] = pending[q]
    BY <1>3, <2>2, InvTypes
  <2>4. ASSUME NEW i \in Ids
        PROVE  Kept(p, i)' <=> Kept(p, i)
    BY <2>1, <2>3, TagNames DEF Kept
  <2>5. ASSUME NEW i \in Ids, i > used
        PROVE  BackupIs(i, Missing)' /\ Kept(p, i)'
    BY <1>1, <2>4, <2>5 DEF DeploymentInv, Numbered, BackupIs
  <2>6. BackupKept(p)
    BY <2>1, Zenon DEF BackupKept
  <2>7. ASSUME NEW t \in Tag, tags'[t] # Missing
        PROVE  /\ tags[t] # Missing
               /\ t \in Named(p) => t \in Named(p)'
    BY <1>1, <2>3, <2>7, NamedStill
  <2>8. "create" \in Pcs \ {"idle"}
    BY DEF Pcs
  <2>9. command'.pc = "create" /\ command'.id = command.id /\ command'.kind = command.kind
    BY <1>3, <2>8, CommandGoes, InvTypes
  <2>10. Unused(p, command.id)'
    BY <1>1, <2>1, <2>4, <2>9 DEF Unused, Pending, BackupIs
  <2>11. StepInv(p)'
    BY <2>1, <2>3, <2>9, <2>10, AtPreparing DEF Preparing
  <2>12. /\ CommandInv' /\ command' \in LifecycleCommand
         /\ command'.id <= used /\ command'.previous <= used
    BY <1>1, <1>3, <2>8, <2>11, ProceedsWell
  <2>13. tags' \in [Tag -> Models \cup {Missing}]
    BY <1>1, InvTypes
  <2> QED
    BY <1>1, <2>3, <2>5, <2>6, <2>7, <2>12, <2>13, TagsMove
<1> QED
  BY <1>2, <1>3 DEF RecordCandidate

LEMMA CreateCandidateKeeps ==
    ASSUME DeploymentInv, NEW p \in Policies, CreateCandidate(p)
    PROVE  DeploymentInv'
<1>1. command.policy = p /\ command.pc = "create" /\ (Trouble \/ troubles' = troubles)
      /\ UNCHANGED <<alias, files>>
  BY DEF CreateCandidate, Doing
<1>2. command.kind = "deploy" /\ Unused(p, command.id) /\ ~ Deploys(p)
      /\ command.id \in Ids /\ Candidate(command.id) \in pending[p]
  BY <1>1, PreparingFacts DEF Preparing, Unused
<1>3. "evaluate" \in Pcs \ {"idle"} /\ "cleanup" \in Pcs \ {"idle"}
  BY DEF Pcs
<1>4. pending' = pending /\ transition' = transition /\ owner' = owner /\ journal' = journal
      /\ states' = states /\ alias' = alias
  BY <1>1 DEF files
<1>5. tags' = tags \/ tags' = [tags EXCEPT ![Candidate(command.id)] = command.id]
  BY DEF CreateCandidate
<1>6. /\ tags' \in [Tag -> Models \cup {Missing}]
      /\ \A i \in Ids : tags'[Previous(i)] = tags[Previous(i)]
      /\ \A t \in Tag : tags'[t] # tags[t] => t \in pending[p]
  <2>1. CASE tags' = tags
    BY <2>1, InvTypes
  <2>2. CASE tags' = [tags EXCEPT ![Candidate(command.id)] = command.id]
    BY <1>2, <2>2, InvTypes, Numbers, TagNames
  <2> QED
    BY <1>5, <2>1, <2>2
<1>7. ASSUME NEW i \in Ids
      PROVE  (Kept(p, i)' <=> Kept(p, i)) /\ (BackupIs(i, Missing)' <=> BackupIs(i, Missing))
  BY <1>4, <1>6 DEF Kept, BackupIs
<1>8. \A i \in Ids : i > used => BackupIs(i, Missing)' /\ Kept(p, i)'
  BY <1>7 DEF DeploymentInv, Numbered
<1>9. BackupKept(p)
  BY <1>2, Zenon DEF BackupKept
<1>10. ASSUME NEW t \in Tag, tags'[t] # Missing
       PROVE  /\ tags[t] # Missing \/ t \in Named(p)'
              /\ t \in Named(p) => t \in Named(p)'
  BY <1>4, <1>6, <1>10, NamedStill, NamedByAfter
<1>11. /\ CommandInv' /\ command' \in LifecycleCommand
       /\ command'.id <= used /\ command'.previous <= used
  <2>1. CASE Proceed("evaluate")
    <3>1. command'.pc = "evaluate" /\ command'.id = command.id
          /\ command'.kind = command.kind
      BY <1>3, <2>1, CommandGoes, InvTypes
    <3>2. Unused(p, command.id)'
      BY <1>2, <1>4, <1>7, <3>1, Zenon DEF Unused, Pending
    <3>3. StepInv(p)'
      BY <1>2, <1>4, <3>1, <3>2, AtPreparing DEF Preparing
    <3> QED
      BY <1>1, <1>3, <1>4, <2>1, <3>3, ProceedsWell
  <2>2. CASE Proceed("cleanup")
    <3>1. StepInv(p)'
      BY <1>2, <1>3, <2>2, CommandGoes, InvTypes, AtCleanup
    <3> QED
      BY <1>1, <1>3, <1>4, <2>2, <3>1, ProceedsWell
  <2> QED
    BY <2>1, <2>2 DEF CreateCandidate
<1> QED
  BY <1>1, <1>4, <1>6, <1>8, <1>9, <1>10, <1>11, InvTypes, TagsMove DEF files

LEMMA RemoveCandidateKeeps ==
    ASSUME DeploymentInv, NEW p \in Policies, RemoveCandidate(p)
    PROVE  DeploymentInv'
<1>1. command.policy = p /\ command.pc = "cleanup" /\ (Trouble \/ troubles' = troubles)
      /\ UNCHANGED <<alias, files>>
  BY DEF RemoveCandidate, Doing
<1>2. CASE End /\ UNCHANGED tags
  BY <1>1, <1>2, EndsNumbered, OnlyCommand
<1>3. CASE tags' = Without({Candidate(command.id)}) /\ Proceed("forget")
  <2>1. command.id \in Ids
    BY <1>1, RunningFacts DEF StepInv, EndingInv
  <2>2. Candidate(command.id) \in Tag
    BY <2>1, TagNames
  <2>3. /\ tags' \in [Tag -> Models \cup {Missing}]
        /\ \A t \in Tag : tags'[t] = IF t = Candidate(command.id) THEN Missing ELSE tags[t]
    BY <1>3, InvTypes, WithoutTags
  <2>4. pending' = pending /\ journal' = journal /\ states' = states
        /\ transition' = transition /\ owner' = owner
    BY <1>1 DEF files
  <2>5. ASSUME NEW i \in Ids
        PROVE  tags'[Previous(i)] = tags[Previous(i)]
    BY <2>1, <2>3, TagNames
  <2>6. \A i \in Ids : i > used => BackupIs(i, Missing)' /\ Kept(p, i)'
    BY <2>4, <2>5 DEF DeploymentInv, Numbered, BackupIs, Kept
  <2>7. BackupKept(p)
    <3>1. \A t \in Tag : tags'[t] \in {tags[t], Missing}
      BY <2>3
    <3>2. ASSUME Deploys(p), Kept(p, journal[p].id)
          PROVE  /\ tags'[Previous(journal[p].id)] = tags[Previous(journal[p].id)]
                 /\ Previous(journal[p].id) \notin pending'[p]
      <4>1. journal[p].id \in Ids
        BY <1>1, <3>2, RunningFacts DEF JournalInv
      <4> QED
        BY <2>4, <2>5, <3>2, <4>1 DEF Kept
    <3> QED
      BY <1>1, <2>4, <3>1, <3>2, BackupStays
  <2>8. ASSUME NEW t \in Tag, tags'[t] # Missing
        PROVE  /\ tags[t] # Missing
               /\ t \in Named(p) => t \in Named(p)'
    BY <2>3, <2>4, <2>8, NamedStill
  <2>9. "forget" \in Pcs \ {"idle"}
    BY DEF Pcs
  <2>10. command'.pc = "forget" /\ command'.id = command.id
    BY <1>3, <2>9, CommandGoes, InvTypes
  <2>11. tags'[Candidate(command'.id)] = Missing
    BY <2>2, <2>3, <2>10
  <2>12. StepInv(p)'
    BY <2>1, <2>10, <2>11, SMT DEF StepInv, PreparingInv, RunningInv, BackupInv,
       UndoingInv, EndingInv, RecoveringInv, Preparing, Unbacked, Backed, Passed,
       Published, Undoing, Uncommitted, Unmoved, Away, Checked, Rerouting
  <2>13. /\ CommandInv' /\ command' \in LifecycleCommand
         /\ command'.id <= used /\ command'.previous <= used
    BY <1>1, <1>3, <2>4, <2>9, <2>12, ProceedsWell
  <2> QED
    BY <1>1, <2>3, <2>4, <2>6, <2>7, <2>8, <2>13, InvTypes, TagsMove DEF files
<1> QED
  BY <1>2, <1>3 DEF RemoveCandidate

LEMMA ForgetCandidateKeeps ==
    ASSUME DeploymentInv, NEW p \in Policies, ForgetCandidate(p)
    PROVE  DeploymentInv'
<1>1. /\ command.policy = p /\ command.pc = "forget" /\ (Trouble \/ troubles' = troubles)
      /\ End
      /\ UNCHANGED <<alias, tags, transition, owner, journal, policies, states, proven, used>>
  BY DEF ForgetCandidate, Doing
<1>2. CASE UNCHANGED pending
  BY <1>1, <1>2, EndsNumbered, OnlyCommand DEF files
<1>3. CASE pending' = [pending EXCEPT ![p] = @ \ {Candidate(command.id)}]
  <2>1. command.id \in Ids /\ tags[Candidate(command.id)] = Missing
    BY <1>1, RunningFacts DEF StepInv, EndingInv
  <2>2. /\ pending' \in [Policies -> SUBSET Tag]
        /\ pending'[p] = pending[p] \ {Candidate(command.id)}
        /\ \A q \in Policies : q # p => pending'[q] = pending[q]
    BY <1>3, InvTypes
  <2>3. \A i \in Ids : i > used => BackupIs(i, Missing)' /\ Kept(p, i)'
    BY <1>1, <2>2 DEF DeploymentInv, Numbered, BackupIs, Kept
  <2>4. BackupKept(p)
    <3>1. \A t \in Tag : tags'[t] \in {tags[t], Missing}
      BY <1>1
    <3>2. ASSUME Kept(p, journal[p].id)
          PROVE  /\ tags'[Previous(journal[p].id)] = tags[Previous(journal[p].id)]
                 /\ Previous(journal[p].id) \notin pending'[p]
      BY <1>1, <2>2, <3>2 DEF Kept
    <3> QED
      BY <1>1, <3>1, <3>2, BackupStays
  <2>5. ASSUME NEW t \in Tag, tags'[t] # Missing
        PROVE  /\ tags[t] # Missing
               /\ t \in Named(p) => t \in Named(p)'
    BY <1>1, <2>1, <2>2, <2>5, NamedStill
  <2>6. tags' \in [Tag -> Models \cup {Missing}]
    BY <1>1, InvTypes
  <2> QED
    BY <1>1, <2>2, <2>3, <2>4, <2>5, <2>6, EndsNumbered, TagsMove
<1> QED
  BY <1>2, <1>3 DEF ForgetCandidate

-----------------------------------------------------------------------------
LEMMA RunFacts ==
    ASSUME DeploymentInv, NEW p \in Policies, command.policy = p,
           command.pc \in Uncommitted
    PROVE  /\ command.kind = "deploy" /\ Deploys(p) /\ journal[p].id = command.id
           /\ command.id \in Ids /\ Candidate(command.id) \in pending[p]
           /\ ~ Committed(p) /\ journal[p].previous = command.previous
           /\ transition.policy = p /\ ~ Foreign(p) /\ UncommittedInv(p) /\ OwnJournal(p)
           /\ command.pc # "discard" =>
                 command.mutated \/ policies[p].route = journal[p].prior
           /\ command.pc \in Unmoved => policies[p].route = journal[p].prior
           /\ command.pc \in Away => ~ Personal(p)
           /\ BackupInv(p) /\ RunningInv(p)
<1>1. RunningInv(p) /\ BackupInv(p) /\ JournalInv(p)
  BY RunningFacts DEF StepInv
<1>2. OwnJournal(p) /\ ~ Committed(p)
  BY <1>1 DEF RunningInv
<1> QED
  BY <1>1, <1>2, Zenon DEF RunningInv, OwnJournal, JournalInv

\* Where the policy has its prior route and the alias its prior model, the
\* policy is sound.
LEMMA PriorIsSound ==
    ASSUME NEW p \in Policies, UncommittedInv(p), alias = journal[p].previous,
           policies[p].route = journal[p].prior
    PROVE  Sound(p)
BY Zenon DEF UncommittedInv, Sound, Personal

\* A deployment goes on with its journal and its policy as they are.
LEMMA RunsOn ==
    ASSUME DeploymentInv, NEW p \in Policies, command.policy = p,
           command.pc \in Uncommitted \ {"discard"},
           journal' = journal, states' = states, policies' = policies,
           NEW pc \in Uncommitted, Proceed(pc),
           pc \in Unmoved => command.pc \in Unmoved,
           pc \in Away => ~ Personal(p),
           Candidate(command.id) \in pending'[p],
           BackupInv(p)', UndoingInv(p)'
    PROVE  StepInv(p)'
<1>1. pc \in Pcs
  BY SMT DEF Uncommitted, Unbacked, Backed, Published, Passed, Undoing, Pcs, Notes
<1>2. /\ command'.pc = pc /\ command'.policy = p
      /\ command'.kind = command.kind /\ command'.id = command.id
      /\ command'.previous = command.previous /\ command'.mutated = command.mutated
  BY <1>1, CommandGoes, InvTypes
<1>3. /\ OwnJournal(p) /\ ~ Committed(p) /\ journal[p].previous = command.previous
      /\ command.mutated \/ policies[p].route = journal[p].prior
      /\ command.pc \in Unmoved => policies[p].route = journal[p].prior
  BY RunFacts
<1>4. OwnJournal(p)'
  BY <1>2, <1>3, Zenon DEF OwnJournal, Deploys
<1>5. ~ Committed(p)' /\ (Personal(p)' <=> Personal(p))
  BY <1>3, Zenon DEF Committed, Personal
<1>6. RunningInv(p)'
  BY <1>2, <1>3, <1>4, <1>5, Zenon DEF RunningInv
<1>7. PreparingInv(p)'
  BY <1>2, SMT DEF PreparingInv, Preparing, Uncommitted, Unbacked, Backed, Published,
     Passed, Undoing
<1>8. EndingInv(p)'
  BY <1>2, SMT DEF EndingInv, Uncommitted, Unbacked, Backed, Published, Passed, Undoing
<1>9. RecoveringInv(p)'
  BY <1>2, SMT DEF RecoveringInv, Rerouting, Uncommitted, Unbacked, Backed, Published,
     Passed, Undoing
<1> QED
  BY <1>6, <1>7, <1>8, <1>9 DEF StepInv

LEMMA BackUpKeeps ==
    ASSUME DeploymentInv, NEW p \in Policies, BackUp(p)
    PROVE  DeploymentInv'
<1> DEFINE i == command.id
           made == [tags EXCEPT ![Previous(i)] = alias]
<1>1. command.policy = p /\ command.pc = "backup" /\ (Trouble \/ troubles' = troubles)
      /\ UNCHANGED <<alias, transition, owner, journal, policies, states, proven, used>>
  BY DEF BackUp, Doing
<1>2. command.pc \in Uncommitted \ {"discard"} /\ command.pc \in Unbacked /\ command.pc \in Unmoved
      /\ command.pc \in Checked
  BY <1>1 DEF Uncommitted, Unbacked, Unmoved, Checked
<1>3. /\ Deploys(p) /\ journal[p].id = i /\ i \in Ids /\ Candidate(i) \in pending[p]
      /\ ~ Committed(p) /\ journal[p].previous = command.previous
      /\ UncommittedInv(p) /\ BackupInv(p) /\ policies[p].route = journal[p].prior
  BY <1>1, <1>2, RunFacts
<1>4. /\ alias = command.previous /\ alias # i /\ BackupIs(i, Missing) /\ Kept(p, i)
      /\ Sole(p) /\ Acceptable(p, command.previous)
  BY <1>2, <1>3 DEF BackupInv
<1>5. Sound(p)
  BY <1>3, <1>4, PriorIsSound
<1>6. Previous(i) \in Tag /\ Candidate(i) # Previous(i)
  BY <1>3, TagNames
<1>7. i <= used
  BY <1>1, RunningFacts
<1>8. "note_backed_up" \in Pcs \ {"idle"} /\ "clear" \in Pcs \ {"idle"}
      /\ "cleanup" \in Pcs \ {"idle"}
  BY DEF Pcs, Notes
<1>9. /\ made \in [Tag -> Models \cup {Missing}] /\ made[Previous(i)] = alias
      /\ \A t \in Tag : t # Previous(i) => made[t] = tags[t]
  BY <1>6, InvTypes
<1>10. (tags' = made \/ tags' = tags) /\ (pending' = pending \/
          pending' = [pending EXCEPT ![p] = @ \cup {Previous(i)}])
  BY DEF BackUp
<1> HIDE DEF made
<1>11. /\ pending' \in [Policies -> SUBSET Tag] /\ tags' \in [Tag -> Models \cup {Missing}]
       /\ \A q \in Policies : q # p => pending'[q] = pending[q]
       /\ pending[p] \subseteq pending'[p] /\ pending'[p] \subseteq pending[p] \cup {Previous(i)}
       /\ \A t \in Tag : t # Previous(i) => tags'[t] = tags[t]
  BY <1>6, <1>9, <1>10, InvTypes
<1>12. ASSUME NEW j \in Ids, j > used
       PROVE  BackupIs(j, Missing)' /\ Kept(p, j)'
  <2>1. j # i
    BY <1>3, <1>7, <1>12, InvTypes, SMT DEF Ids
  <2>2. Previous(j) \in Tag /\ Previous(j) # Previous(i)
    BY <1>3, <2>1, TagNames
  <2>3. BackupIs(j, Missing) /\ Kept(p, j)
    BY <1>12 DEF DeploymentInv, Numbered
  <2> QED
    BY <1>11, <2>2, <2>3 DEF BackupIs, Kept
<1>13. BackupKept(p)
  BY <1>3, <1>4, Zenon DEF BackupKept
<1>14. ASSUME NEW t \in Tag, tags'[t] # Missing
       PROVE  /\ tags[t] # Missing \/ t \in Named(p)'
              /\ t \in Named(p) => t \in Named(p)'
  <2>1. t \in Named(p) => t \in Named(p)'
    BY <1>1, <1>11, NamedStill
  <2>2. CASE t = Previous(i)
    <3>1. t \in Named(p)
      BY <1>3, <2>2, NamedBy
    <3> QED
      BY <2>1, <3>1
  <2>3. CASE t # Previous(i)
    BY <1>11, <1>14, <2>1, <2>3
  <2> QED
    BY <2>2, <2>3
<1>15. /\ CommandInv' /\ command' \in LifecycleCommand
       /\ command'.id <= used /\ command'.previous <= used
  <2>1. CASE Proceed("note_backed_up") /\ tags' = made /\ pending' = pending
    <3>1. /\ command'.pc = "note_backed_up" /\ command'.id = i
          /\ command'.previous = command.previous
      BY <1>8, <2>1, CommandGoes, InvTypes
    <3>2. BackupIs(i, command.previous)' /\ Kept(p, i)' /\ Sole(p)'
          /\ Acceptable(p, command.previous)'
      <4>1. tags'[Previous(i)] = command.previous
        BY <1>4, <1>9, <2>1
      <4>2. OthersSame(p)
        BY <1>1 DEF OthersSame
      <4>3. Sole(p)'
        BY <1>4, <4>2, SoleStays
      <4> QED
        BY <1>1, <1>4, <2>1, <3>1, <4>1, <4>3 DEF BackupIs, Kept, Acceptable
    <3>3. BackupInv(p)'
      BY <1>1, <1>4, <3>1, <3>2, SMT DEF BackupInv, Unbacked, Backed, Published, Passed, Checked
    <3>4. UndoingInv(p)'
      BY <3>1, SMT DEF UndoingInv
    <3>5. StepInv(p)'
      BY <1>1, <1>2, <1>3, <2>1, <3>3, <3>4, RunsOn DEF Uncommitted, Backed, Unmoved, Away
    <3> QED
      BY <1>1, <1>8, <2>1, <3>5, ProceedsWell
  <2>2. CASE Proceed("clear") /\ (tags' = made => Previous(i) \in pending'[p])
    <3>1. command'.pc = "clear"
      BY <1>8, <2>2, CommandGoes, InvTypes
    <3>2. Sound(p)'
      BY <1>1, <1>5 DEF Sound, Personal
    <3>3. tags'[Previous(i)] # Missing => Previous(i) \in pending'[p]
      BY <1>4, <1>10, <2>2 DEF BackupIs
    <3>4. journal[p].old \in {0, states[p].previous}
      BY <1>3 DEF UncommittedInv
    <3>5. Cleared(p)'
      BY <1>1, <1>3, <1>11, <3>2, <3>3, <3>4 DEF Cleared
    <3>6. StepInv(p)'
      BY <3>1, <3>5, AtClear
    <3> QED
      BY <1>1, <1>8, <2>2, <3>6, ProceedsWell
  <2>3. CASE Proceed("cleanup")
    <3>1. StepInv(p)'
      BY <1>3, <1>8, <2>3, CommandGoes, InvTypes, AtCleanup
    <3> QED
      BY <1>1, <1>8, <2>3, <3>1, ProceedsWell
  <2>4. CASE tags' = tags /\ Proceed("clear")
    <3>1. tags[Previous(i)] = Missing
      BY <1>4 DEF BackupIs
    <3>2. command'.pc = "clear"
      BY <1>8, <2>4, CommandGoes, InvTypes
    <3>3. Sound(p)'
      BY <1>1, <1>5 DEF Sound, Personal
    <3>4. journal[p].old \in {0, states[p].previous}
      BY <1>3 DEF UncommittedInv
    <3>5. Cleared(p)'
      BY <1>1, <1>3, <1>11, <2>4, <3>1, <3>3, <3>4 DEF Cleared
    <3>6. StepInv(p)'
      BY <3>2, <3>5, AtClear
    <3> QED
      BY <1>1, <1>8, <2>4, <3>6, ProceedsWell
  <2>5. pending' = [pending EXCEPT ![p] = @ \cup {Previous(i)}] => Previous(i) \in pending'[p]
    BY InvTypes
  <2> QED
    BY <2>1, <2>2, <2>3, <2>4, <2>5 DEF BackUp, made
<1> QED
  BY <1>1, <1>11, <1>12, <1>13, <1>14, <1>15, TagsMove

\* A removal of tags, or their addition to the ledger of p, where nothing that
\* may be needed is removed.
LEMMA CommittedFacts ==
    ASSUME DeploymentInv, NEW p \in Policies, command.policy = p,
           command.pc \in {"own", "retire"}
    PROVE  /\ OwnJournal(p) /\ Committed(p) /\ CommittedInv(p) /\ Sole(p)
           /\ journal[p].id = command.id /\ command.id \in Ids /\ Deploys(p)
           /\ alias = command.id /\ command.id \in proven[p] /\ Sound(p)
           /\ Candidate(command.id) \in pending[p] /\ command.kind = "deploy"
           /\ transition.policy = p
<1>1. OwnJournal(p) /\ Committed(p) /\ JournalInv(p)
  BY RunningFacts DEF StepInv, EndingInv
<1> QED
  BY <1>1, Zenon DEF OwnJournal, JournalInv, CommittedInv, Sound

LEMMA RetireOldKeeps ==
    ASSUME DeploymentInv, NEW p \in Policies, RetireOld(p)
    PROVE  DeploymentInv'
<1> DEFINE old == journal[p].old
           i == command.id
<1>1. command.policy = p /\ command.pc = "retire" /\ (Trouble \/ troubles' = troubles)
      /\ UNCHANGED <<alias, transition, owner, journal, policies, states, proven, used>>
  BY DEF RetireOld, Doing
<1>2. /\ Committed(p) /\ CommittedInv(p) /\ journal[p].id = i /\ i \in Ids /\ Deploys(p)
      /\ Sound(p) /\ Candidate(i) \in pending[p]
  BY <1>1, CommittedFacts
<1>3. "clear" \in Pcs \ {"idle"} /\ "cleanup" \in Pcs \ {"idle"}
  BY DEF Pcs
<1>4. old \in {0} \cup Ids /\ old <= used
  BY InvTypes, Zenon DEF Journal, DeploymentInv, Numbered
<1>5. CASE Proceed("cleanup") /\ UNCHANGED <<tags, pending>>
  <2>1. StepInv(p)'
    BY <1>2, <1>3, <1>5, CommandGoes, InvTypes, AtCleanup
  <2>2. /\ CommandInv' /\ command' \in LifecycleCommand
        /\ command'.id <= used /\ command'.previous <= used
    BY <1>1, <1>3, <1>5, <2>1, ProceedsWell
  <2> QED
    BY <1>1, <1>5, <2>2, OnlyCommand DEF files
<1>6. CASE /\ Proceed("clear")
           /\ \/ tags' = Without({Previous(old)}) /\ pending' = pending
              \/ /\ old # 0 /\ tags' = tags
                 /\ pending' = [pending EXCEPT ![p] = @ \cup {Previous(old)}]
  <2>1. /\ tags' \in [Tag -> Models \cup {Missing}]
        /\ \A t \in Tag : tags'[t] \in {tags[t], Missing}
        /\ \A t \in Tag : t # Previous(old) => tags'[t] = tags[t]
    BY <1>6, InvTypes, WithoutTags
  <2>2. /\ pending' \in [Policies -> SUBSET Tag]
        /\ \A q \in Policies : q # p => pending'[q] = pending[q]
        /\ pending[p] \subseteq pending'[p] /\ pending'[p] \subseteq pending[p] \cup {Previous(old)}
    <3>1. old # 0 => Previous(old) \in Tag
      BY <1>4, TagNames
    <3> QED
      BY <1>6, <3>1, InvTypes
  <2>3. ASSUME NEW j \in Ids, j > used
        PROVE  BackupIs(j, Missing)' /\ Kept(p, j)'
    <3>1. j # old
      BY <1>4, <2>3, InvTypes, SMT DEF Ids
    <3>2. Previous(j) # Previous(old)
      BY <3>1, SMT DEF Previous
    <3>3. BackupIs(j, Missing) /\ Kept(p, j) /\ Previous(j) \in Tag
      BY <2>3, TagNames DEF DeploymentInv, Numbered
    <3> QED
      BY <2>1, <2>2, <3>2, <3>3 DEF BackupIs, Kept
  <2>4. BackupKept(p)
    BY <1>1, <1>2, <2>1, BackupStays
  <2>5. ASSUME NEW t \in Tag, tags'[t] # Missing
        PROVE  /\ tags[t] # Missing
               /\ t \in Named(p) => t \in Named(p)'
    BY <1>1, <2>1, <2>2, <2>5, NamedStill
  <2>6. Cleared(p)'
    <3>1. Sound(p)'
      BY <1>1, <1>2 DEF Sound, Personal
    <3>2. states'[p].previous = i \/ tags'[Previous(i)] = Missing
      BY <1>1, <1>2, <2>1, TagNames DEF CommittedInv, BackupIs
    <3>3. old # 0 => tags'[Previous(old)] = Missing \/ Previous(old) \in pending'[p]
      BY <1>4, <1>6, InvTypes, TagNames, WithoutTags
    <3> QED
      BY <1>1, <1>2, <2>2, <3>1, <3>2, <3>3 DEF Cleared
  <2>7. StepInv(p)'
    BY <1>3, <1>6, <2>6, CommandGoes, InvTypes, AtClear
  <2>8. /\ CommandInv' /\ command' \in LifecycleCommand
        /\ command'.id <= used /\ command'.previous <= used
    BY <1>1, <1>3, <1>6, <2>7, ProceedsWell
  <2> QED
    BY <1>1, <2>1, <2>2, <2>3, <2>4, <2>5, <2>8, TagsMove
<1> QED
  BY <1>5, <1>6 DEF RetireOld

LEMMA DiscardBackupKeeps ==
    ASSUME DeploymentInv, NEW p \in Policies, DiscardBackup(p)
    PROVE  DeploymentInv'
<1> DEFINE i == command.id
<1>1. command.policy = p /\ command.pc = "discard" /\ (Trouble \/ troubles' = troubles)
      /\ UNCHANGED <<alias, files>>
  BY DEF DiscardBackup, Doing
<1>2. /\ journal[p].id = i /\ i \in Ids /\ Deploys(p) /\ Candidate(i) \in pending[p]
      /\ ~ Committed(p) /\ journal[p].previous = command.previous /\ UncommittedInv(p)
  BY <1>1, RunFacts DEF Uncommitted, Undoing
<1>3. alias = command.previous /\ (command.settled => Sound(p))
  BY <1>1, RunningFacts DEF StepInv, UndoingInv
<1>4. "clear" \in Pcs \ {"idle"} /\ "cleanup" \in Pcs \ {"idle"}
  BY DEF Pcs
<1>5. /\ pending' = pending /\ transition' = transition /\ owner' = owner
      /\ journal' = journal /\ states' = states /\ policies' = policies
      /\ alias' = alias /\ proven' = proven /\ used' = used
  BY <1>1 DEF files
<1>6. tags' = tags \/ tags' = Without({Previous(i)})
  BY DEF DiscardBackup
<1>7. /\ tags' \in [Tag -> Models \cup {Missing}]
      /\ \A t \in Tag : tags'[t] \in {tags[t], Missing}
  BY <1>6, InvTypes, WithoutTags
<1>8. \A j \in Ids : j > used => BackupIs(j, Missing)' /\ Kept(p, j)'
  BY <1>5, <1>7, TagNames DEF DeploymentInv, Numbered, BackupIs, Kept
<1>9. BackupKept(p)
  BY <1>2, <1>3, Zenon DEF BackupKept
<1>10. ASSUME NEW t \in Tag, tags'[t] # Missing
       PROVE  /\ tags[t] # Missing
              /\ t \in Named(p) => t \in Named(p)'
  BY <1>5, <1>7, <1>10, NamedStill
<1>11. /\ CommandInv' /\ command' \in LifecycleCommand
       /\ command'.id <= used /\ command'.previous <= used
  <2>1. CASE Proceed("cleanup")
    <3>1. StepInv(p)'
      BY <1>2, <1>4, <2>1, CommandGoes, InvTypes, AtCleanup
    <3> QED
      BY <1>1, <1>4, <1>5, <2>1, <3>1, ProceedsWell
  <2>2. CASE Proceed("clear") /\ command.settled /\ tags' = Without({Previous(i)})
    <3>1. Sound(p)'
      BY <1>3, <1>5, <2>2 DEF Sound, Personal
    <3>2. tags'[Previous(i)] = Missing
      BY <1>2, <2>2, InvTypes, TagNames, WithoutTags
    <3>3. journal[p].old \in {0, states[p].previous}
      BY <1>2 DEF UncommittedInv
    <3>4. Cleared(p)'
      BY <1>2, <1>5, <3>1, <3>2, <3>3 DEF Cleared
    <3>5. StepInv(p)'
      BY <1>4, <2>2, <3>4, CommandGoes, InvTypes, AtClear
    <3> QED
      BY <1>1, <1>4, <1>5, <2>2, <3>5, ProceedsWell
  <2>3. command.settled \in BOOLEAN
    BY InvTypes, Zenon DEF LifecycleCommand
  <2> QED
    BY <2>1, <2>2, <2>3, Zenon DEF DiscardBackup
<1> QED
  BY <1>1, <1>5, <1>7, <1>8, <1>9, <1>10, <1>11, InvTypes, TagsMove

LEMMA HandOffKeeps ==
    ASSUME DeploymentInv, NEW p \in Policies, HandOff(p)
    PROVE  DeploymentInv'
<1> DEFINE i == journal[p].id
           old == journal[p].old
<1>1. command.policy = p /\ command.pc = "handoff" /\ (Trouble \/ troubles' = troubles)
      /\ UNCHANGED <<alias, transition, owner, journal, policies, states, proven, used>>
  BY DEF HandOff, Doing
<1>2. /\ Deploys(p) /\ Sound(p) /\ (~ Committed(p) => alias = journal[p].previous)
      /\ JournalInv(p) /\ i \in Ids
  BY <1>1, RunningFacts, Zenon DEF StepInv, RecoveringInv, JournalInv
<1>3. old \in {0} \cup Ids /\ old <= used /\ i <= used
  BY InvTypes, Zenon DEF Journal, DeploymentInv, Numbered
<1>4. /\ Useless(p) \subseteq Tag /\ Candidate(i) \in Useless(p)
      /\ ~ Committed(p) => Previous(i) \in Useless(p)
      /\ Committed(p) /\ old # 0 => Previous(old) \in Useless(p)
      /\ \A j \in Ids : Previous(j) \in Useless(p) => j <= used
  <2>1. ASSUME NEW j \in Ids
        PROVE  Previous(j) \in Useless(p) <=> j = IF Committed(p) THEN old ELSE i
    BY <1>2, <1>3, TagNames DEF Useless
  <2>2. Useless(p) \subseteq Tag /\ Candidate(i) \in Useless(p)
    BY <1>2, TagNames DEF Useless
  <2> QED
    BY <1>2, <1>3, <2>1, <2>2
<1>5. CASE End /\ UNCHANGED <<tags, pending>>
  BY <1>1, <1>5, EndsNumbered, OnlyCommand DEF files
<1>6. CASE /\ \/ /\ tags' = Without(Useless(p))
                 /\ pending' = [pending EXCEPT ![p] = @ \ Useless(p)]
                 /\ Proceed("clear")
              \/ /\ tags' = tags
                 /\ pending' = [pending EXCEPT ![p] = @ \cup Useless(p)]
                 /\ command' = [command EXCEPT !.pc = "clear", !.settled = FALSE]
  <2>1. /\ tags' \in [Tag -> Models \cup {Missing}]
        /\ \A t \in Tag : tags'[t] \in {tags[t], Missing}
    BY <1>6, InvTypes, WithoutTags
  <2>2. /\ pending' \in [Policies -> SUBSET Tag]
        /\ \A q \in Policies : q # p => pending'[q] = pending[q]
        /\ pending'[p] \subseteq pending[p] \cup Useless(p)
        /\ \A t \in Tag : t \in pending[p] => t \in pending'[p] \/ tags'[t] = Missing
        /\ \A t \in Useless(p) : t \in pending'[p] \/ tags'[t] = Missing
    <3>1. CASE /\ tags' = Without(Useless(p))
               /\ pending' = [pending EXCEPT ![p] = @ \ Useless(p)]
      <4>1. \A t \in Tag : t \in Useless(p) => tags'[t] = Missing
        BY <3>1, InvTypes, WithoutTags
      <4>2. /\ pending' \in [Policies -> SUBSET Tag]
            /\ \A q \in Policies : q # p => pending'[q] = pending[q]
            /\ pending'[p] = pending[p] \ Useless(p)
        BY <3>1, InvTypes
      <4> QED
        BY <1>4, <4>1, <4>2
    <3>2. CASE pending' = [pending EXCEPT ![p] = @ \cup Useless(p)]
      <4>1. /\ pending' \in [Policies -> SUBSET Tag]
            /\ \A q \in Policies : q # p => pending'[q] = pending[q]
            /\ pending'[p] = pending[p] \cup Useless(p)
        BY <1>4, <3>2, InvTypes
      <4> QED
        BY <4>1
    <3> QED
      BY <1>6, <3>1, <3>2
  <2>3. ASSUME NEW j \in Ids, j > used
        PROVE  BackupIs(j, Missing)' /\ Kept(p, j)'
    <3>1. Previous(j) \notin Useless(p)
      BY <1>3, <1>4, <2>3, InvTypes, SMT DEF Ids
    <3>2. BackupIs(j, Missing) /\ Kept(p, j) /\ Previous(j) \in Tag
      BY <2>3, TagNames DEF DeploymentInv, Numbered
    <3> QED
      BY <2>1, <2>2, <3>1, <3>2 DEF BackupIs, Kept
  <2>4. BackupKept(p)
    BY <1>1, <1>2, <2>1, BackupStays
  <2>5. ASSUME NEW t \in Tag, tags'[t] # Missing
        PROVE  /\ tags[t] # Missing
               /\ t \in Named(p) => t \in Named(p)'
    BY <1>1, <2>1, <2>2, <2>5, NamedStill
  <2>6. Cleared(p)'
    <3>1. Sound(p)'
      BY <1>1, <1>2 DEF Sound, Personal
    <3>2. tags'[Candidate(i)] = Missing \/ Candidate(i) \in pending'[p]
      BY <1>4, <2>2
    <3>3. CASE Committed(p)
      <4>1. states[p].previous = i \/ tags'[Previous(i)] = Missing
        BY <1>2, <2>1, <3>3, TagNames DEF JournalInv, CommittedInv, BackupIs
      <4>2. old # 0 => tags'[Previous(old)] = Missing \/ Previous(old) \in pending'[p]
        BY <1>4, <2>2, <3>3
      <4> QED
        BY <1>1, <3>1, <3>2, <4>1, <4>2 DEF Cleared
    <3>4. CASE ~ Committed(p)
      <4>1. old \in {0, states[p].previous}
        BY <1>2, <3>4 DEF JournalInv, UncommittedInv
      <4>2. tags'[Previous(i)] = Missing \/ Previous(i) \in pending'[p]
        BY <1>4, <2>2, <3>4
      <4> QED
        BY <1>1, <3>1, <3>2, <4>1, <4>2 DEF Cleared
    <3> QED
      BY <3>3, <3>4
  <2>7. /\ command' \in LifecycleCommand /\ command'.pc = "clear"
        /\ command'.policy = p /\ command'.kind = command.kind
        /\ command'.id = command.id /\ command'.previous = command.previous
    <3>1. "clear" \in Pcs
      BY DEF Pcs
    <3>2. ASSUME NEW c \in LifecycleCommand
          PROVE  LET r == [c EXCEPT !.pc = "clear", !.settled = FALSE]
                 IN  /\ r \in LifecycleCommand /\ r.pc = "clear" /\ r.policy = c.policy
                     /\ r.kind = c.kind /\ r.id = c.id /\ r.previous = c.previous
      BY <3>1, Zenon DEF LifecycleCommand
    <3>3. CASE Proceed("clear")
      BY <1>1, <3>1, <3>3, CommandGoes, InvTypes
    <3>4. CASE command' = [command EXCEPT !.pc = "clear", !.settled = FALSE]
      <4>1. command \in LifecycleCommand
        BY InvTypes
      <4> QED
        BY <1>1, <3>2, <3>4, <4>1, Zenon
    <3> QED
      BY <1>6, <3>3, <3>4, Zenon
  <2>8. StepInv(p)'
    BY <2>6, <2>7, AtClear
  <2>9. command'.kind = "deploy" => ~ Foreign(p)'
    BY <1>1, <2>7, RunningFacts DEF Foreign
  <2>10. /\ CommandInv' /\ command'.id <= used /\ command'.previous <= used
    BY <1>1, <2>7, <2>8, <2>9, RunningFacts, GoesOn
  <2> QED
    BY <1>1, <2>1, <2>2, <2>3, <2>4, <2>5, <2>7, <2>10, TagsMove
<1> QED
  BY <1>5, <1>6 DEF HandOff

-----------------------------------------------------------------------------
\* Nothing moves but the transition record, and the number of transitions.
LEMMA TransitionMove ==
    ASSUME DeploymentInv,
           UNCHANGED <<alias, tags, pending, owner, journal, policies, states, proven>>,
           transition' \in AliasTransition, used' \in 0..MaxIds, used <= used',
           \A q \in Policies : Deploys(q) => transition'.policy = q,
           command' \in LifecycleCommand, command'.id <= used',
           command'.previous <= used', Trouble \/ troubles' = troubles, CommandInv'
    PROVE  DeploymentInv'
<1>1. /\ alias' = alias /\ tags' = tags /\ pending' = pending /\ owner' = owner
      /\ journal' = journal /\ policies' = policies /\ states' = states /\ proven' = proven
  OBVIOUS
<1>2. DeploymentTypeOK'
  BY <1>1, InvTypes, TroubleTyped DEF DeploymentTypeOK
<1>3. Numbered'
  <2>1. Numbered
    BY DEF DeploymentInv
  <2>2. /\ alias \in Int /\ used \in Int /\ used' \in Int
        /\ \A q \in Policies : /\ states[q].deployed \in Int /\ states[q].previous \in Int
                               /\ journal[q].id \in Int /\ journal[q].old \in Int
                               /\ journal[q].previous \in Int
        /\ \A i \in Ids : i \in Int
    <3>1. Models \cup {Missing} \subseteq Int /\ {0} \cup Ids \subseteq Int
      BY Numbers, SMT DEF Missing
    <3>2. ASSUME NEW q \in Policies
          PROVE  /\ states[q].deployed \in {0} \cup Ids /\ states[q].previous \in {0} \cup Ids
                 /\ journal[q].id \in {0} \cup Ids /\ journal[q].old \in {0} \cup Ids
                 /\ journal[q].previous \in Models \cup {Missing}
      <4>1. states[q] \in State /\ journal[q] \in Journal
        BY InvTypes
      <4> QED
        BY <4>1, Zenon DEF State, Journal
    <3>3. alias \in Models \cup {Missing} /\ used \in 0..MaxIds
      BY InvTypes
    <3> QED
      BY <3>1, <3>2, <3>3, DeploymentAssumption
  <2> QED
    BY <1>1, <2>1, <2>2 DEF Numbered, BackupIs, Kept, Deploys
<1>4. FilesInv'
  <2>1. FilesInv
    BY DEF DeploymentInv
  <2>2. OwnerInv' /\ TagsAccounted'
    BY <1>1, <2>1, Zenon DEF FilesInv, OwnerInv, TagsAccounted, Named
  <2>3. ASSUME NEW p \in Policies
        PROVE  JournalInv(p)' /\ RouteInv(p)'
    <3>1. JournalInv(p) /\ RouteInv(p)
      BY <2>1 DEF FilesInv
    <3>2. /\ Deploys(p)' = Deploys(p) /\ Foreign(p)' = Foreign(p)
          /\ Committed(p)' = Committed(p) /\ Sole(p)' = Sole(p)
          /\ Personal(p)' = Personal(p) /\ Undoable(p)' = Undoable(p)
          /\ CommittedInv(p)' = CommittedInv(p)
          /\ UncommittedInv(p)' = UncommittedInv(p)
      BY <1>1 DEF Deploys, Foreign, Committed, Sole, Personal, Undoable, Entitled,
         CommittedInv, UncommittedInv, BackupIs, Kept, Acceptable
    <3>3. Deploys(p) => transition'.policy = p
      OBVIOUS
    <3> QED
      BY <1>1, <3>1, <3>2, <3>3 DEF JournalInv, RouteInv
  <2> QED
    BY <2>2, <2>3, Zenon DEF FilesInv
<1> QED
  BY <1>2, <1>3, <1>4 DEF DeploymentInv

\* A journal, a state or the alias changes, and the tags are let alone.
LEMMA FilesMove ==
    ASSUME DeploymentInv, NEW p \in Policies, command.policy = p,
           UNCHANGED <<tags, pending, transition, used>>, OthersSame(p),
           (alias' = alias /\ owner' = owner) \/ Sole(p),
           alias' \in Models \cup {Missing}, alias' <= used, owner' \in AliasOwner,
           journal' \in [Policies -> Journal], policies' \in [Policies -> Policy],
           states' \in [Policies -> State], proven' \in [Policies -> SUBSET Models],
           /\ states'[p].deployed <= used /\ states'[p].previous <= used
           /\ journal'[p].id <= used /\ journal'[p].old <= used
           /\ journal'[p].previous <= used /\ (~ Deploys(p)' => journal'[p].old = 0),
           \A t \in Tag : t \in Named(p) /\ tags[t] # Missing => t \in Named(p)',
           OwnerInv', JournalInv(p)', RouteInv(p)',
           command' \in LifecycleCommand, command'.id <= used,
           command'.previous <= used, Trouble \/ troubles' = troubles, CommandInv'
    PROVE  DeploymentInv'
<1>1. tags' = tags /\ pending' = pending /\ transition' = transition /\ used' = used
  OBVIOUS
<1>2. DeploymentTypeOK'
  BY <1>1, InvTypes, TroubleTyped DEF DeploymentTypeOK
<1>3. Numbered'
  <2>1. Numbered
    BY DEF DeploymentInv
  <2>2. ASSUME NEW q \in Policies, q # p
        PROVE  /\ journal'[q] = journal[q] /\ states'[q] = states[q]
               /\ Deploys(q)' = Deploys(q)
    BY <2>2, Zenon DEF OthersSame, Deploys
  <2>3. ASSUME NEW q \in Policies
        PROVE  /\ states'[q].deployed <= used /\ states'[q].previous <= used
               /\ journal'[q].id <= used /\ journal'[q].old <= used
               /\ journal'[q].previous <= used /\ (~ Deploys(q)' => journal'[q].old = 0)
    <3>1. CASE q = p
      BY <3>1
    <3>2. CASE q # p
      BY <2>1, <2>2, <3>2, Zenon DEF Numbered
    <3> QED
      BY <3>1, <3>2
  <2> QED
    BY <1>1, <2>1, <2>3 DEF Numbered, BackupIs, Kept
<1>4. TagsAccounted'
  <2>1. TagsAccounted
    BY DEF DeploymentInv, FilesInv
  <2> QED
    BY <1>1, <2>1, TagsStay
<1> QED
  BY <1>2, <1>3, <1>4, StepKeeps

\* The numbers that a policy's files hold.
LEMMA NumbersHeld ==
    ASSUME DeploymentInv, NEW p \in Policies
    PROVE  /\ states[p].deployed <= used /\ states[p].previous <= used
           /\ journal[p].id <= used /\ journal[p].old <= used
           /\ journal[p].previous <= used /\ alias <= used
           /\ ~ Deploys(p) => journal[p].old = 0
           /\ states[p] \in State /\ journal[p] \in Journal /\ policies[p] \in Policy
           /\ proven[p] \in SUBSET Models
BY InvTypes DEF DeploymentInv, Numbered

\* A step of a deployment, where it was not committed and is not yet.
LEMMA RunsAt ==
    ASSUME DeploymentInv, NEW p \in Policies, command.policy = p,
           command.pc \in Uncommitted, command'.pc \in Uncommitted,
           command'.kind = command.kind, command'.id = command.id,
           command'.previous = command.previous,
           journal'[p].op = journal[p].op, journal'[p].id = journal[p].id,
           journal'[p].prior = journal[p].prior,
           journal'[p].previous = journal[p].previous,
           states'[p].deployed = states[p].deployed,
           Candidate(command.id) \in pending'[p],
           command'.pc \in Unmoved => policies'[p].route = journal[p].prior,
           command'.pc \in Away => ~ Personal(p)',
           command'.pc # "discard" =>
              command'.mutated \/ policies'[p].route = journal[p].prior,
           BackupInv(p)', UndoingInv(p)'
    PROVE  StepInv(p)'
<1>1. OwnJournal(p) /\ ~ Committed(p) /\ journal[p].previous = command.previous
  BY RunFacts
<1>2. OwnJournal(p)'
  BY <1>1, Zenon DEF OwnJournal, Deploys
<1>3. ~ Committed(p)'
  BY <1>1, Zenon DEF Committed
<1>4. RunningInv(p)'
  BY <1>1, <1>2, <1>3, Zenon DEF RunningInv
<1>5. PreparingInv(p)'
  BY SMT DEF PreparingInv, Preparing, Uncommitted, Unbacked, Backed, Published,
     Passed, Undoing
<1>6. EndingInv(p)'
  BY SMT DEF EndingInv, Uncommitted, Unbacked, Backed, Published, Passed, Undoing
<1>7. RecoveringInv(p)'
  BY SMT DEF RecoveringInv, Rerouting, Uncommitted, Unbacked, Backed, Published,
     Passed, Undoing
<1> QED
  BY <1>4, <1>5, <1>6, <1>7 DEF StepInv

\* A step that fails after the owner was checked goes to `restore'.
LEMMA RunsToRestore ==
    ASSUME DeploymentInv, NEW p \in Policies, command.policy = p,
           command.pc \in Checked \cap (Uncommitted \ {"discard"}), Proceed("restore"),
           UNCHANGED <<tags, files>>
    PROVE  /\ CommandInv' /\ command' \in LifecycleCommand
           /\ command'.id <= used /\ command'.previous <= used
<1>1. /\ pending' = pending /\ transition' = transition /\ owner' = owner
      /\ journal' = journal /\ policies' = policies /\ states' = states /\ proven' = proven
  BY DEF files
<1>2. "restore" \in Pcs \ {"idle"}
  BY DEF Pcs
<1>3. command'.pc = "restore" /\ command'.previous = command.previous
  BY <1>2, CommandGoes, InvTypes
<1>4. BackupInv(p) /\ Candidate(command.id) \in pending[p]
  BY RunFacts
<1>5. Sole(p) /\ Acceptable(p, command.previous)
  BY <1>4, Zenon DEF BackupInv
<1>6. Sole(p)' /\ Acceptable(p, command.previous)'
  <2>1. Sole(p)'
    BY <1>1, <1>5, SoleStays DEF OthersSame
  <2>2. command'.previous \in proven'[p] \cup {Missing}
    BY <1>1, <1>3, <1>5 DEF Acceptable
  <2> QED
    BY <2>1, <2>2 DEF Acceptable
<1>7. BackupInv(p)'
  BY <1>3, <1>6, SMT DEF BackupInv, Unbacked, Backed, Published, Passed, Checked
<1>8. UndoingInv(p)'
  BY <1>3, SMT DEF UndoingInv
<1>9. StepInv(p)'
  BY <1>1, <1>4, <1>7, <1>8, RunsOn DEF Uncommitted, Undoing, Unmoved, Away
<1> QED
  BY <1>1, <1>2, <1>9, ProceedsWell

-----------------------------------------------------------------------------
LEMMA PreparedTransition ==
    ASSUME DeploymentInv, NEW p \in Policies, Prepare(p)
    PROVE  /\ transition' \in AliasTransition /\ transition'.policy \in {p, NoPolicy}
           /\ \A q \in Policies : Deploys(q) => transition'.policy = q
<1>1. NoTransition \in AliasTransition /\ NoTransition.policy = NoPolicy
  BY DEF NoTransition, AliasTransition
<1>2. \A q \in Policies : JournalInv(q)
  BY DEF DeploymentInv, FilesInv
<1>3. \A q \in Policies : Deploys(q) => transition.policy = q
  BY <1>2, Zenon DEF JournalInv
<1>4. CASE UNCHANGED transition
  BY <1>1, <1>3, <1>4, InvTypes, Zenon DEF Prepare
<1>5. CASE transition.policy = p /\ ~ Pending(p) /\ transition' = NoTransition
  <2>1. ~ Deploys(p)
    BY <1>5, SMT DEF Pending, Deploys
  <2> QED
    BY <1>1, <1>3, <1>5, <2>1
<1> QED
  BY <1>4, <1>5, Zenon DEF Prepare

LEMMA StartCommandKeeps ==
    ASSUME DeploymentInv, NEW p \in Policies, NEW kind \in {"deploy", "rollback"},
           StartCommand(p, kind)
    PROVE  DeploymentInv'
<1>1. /\ command' = [NoCommand EXCEPT !.pc = "ledger", !.policy = p, !.kind = kind]
      /\ Prepare(p) /\ (kind = "deploy" => ~ Foreign(p))
      /\ UNCHANGED <<alias, tags, pending, owner, journal, policies, states, proven, used, troubles>>
  BY DEF StartCommand
<1>2. /\ command' \in LifecycleCommand /\ command'.pc = "ledger" /\ command'.policy = p
      /\ command'.kind = kind /\ command'.id = 0 /\ command'.previous = Missing
  <2>1. "ledger" \in Pcs /\ kind \in {"none", "deploy", "rollback"}
    BY DEF Pcs
  <2>2. p \in Policies \cup {NoPolicy}
    OBVIOUS
  <2>3. ASSUME NEW c \in LifecycleCommand
        PROVE  LET r == [c EXCEPT !.pc = "ledger", !.policy = p, !.kind = kind]
               IN  /\ r \in LifecycleCommand /\ r.pc = "ledger" /\ r.policy = p
                   /\ r.kind = kind /\ r.id = c.id /\ r.previous = c.previous
    BY <2>1, <2>2, Zenon DEF LifecycleCommand
  <2> QED
    BY <1>1, <2>3, NoCommandTyped, Zenon
<1>3. /\ transition' \in AliasTransition /\ transition'.policy \in {p, NoPolicy}
      /\ \A q \in Policies : Deploys(q) => transition'.policy = q
  BY <1>1, PreparedTransition
<1>4. CommandInv'
  <2>1. StepInv(p)'
    BY <1>2, Anywhere
  <2>2. command'.kind = "deploy" => ~ Foreign(p)'
    BY <1>1, <1>2 DEF Foreign
  <2>3. command'.pc # "idle" /\ command'.kind # "none"
    BY <1>2
  <2> QED
    BY <1>2, <1>3, <2>1, <2>2, <2>3, GoesOn
<1>5. used \in 0..MaxIds /\ 0 <= used /\ Missing <= used
  BY InvTypes, DeploymentAssumption, SMT DEF Missing
<1> QED
  BY <1>1, <1>2, <1>3, <1>4, <1>5, TransitionMove

LEMMA AtReserve ==
    ASSUME NEW p \in Policies, command'.pc = "reserve", NEW i, command'.id = i,
           command'.kind = "deploy" =>
              /\ Unused(p, i)' /\ Candidate(i) \in pending'[p]
              /\ command'.previous = alias' /\ transition'.policy = p
    PROVE  StepInv(p)'
BY SMT DEF StepInv, PreparingInv, RunningInv, BackupInv, UndoingInv, EndingInv,
   RecoveringInv, Preparing, Unbacked, Backed, Passed, Published, Undoing, Uncommitted,
   Unmoved, Away, Checked, Rerouting

LEMMA CommandNumbered ==
    ASSUME command \in LifecycleCommand, NEW pc \in Pcs, NEW i \in Ids,
           command' = [command EXCEPT !.id = i, !.pc = pc]
    PROVE  /\ command' \in LifecycleCommand /\ command'.pc = pc
           /\ command'.policy = command.policy /\ command'.kind = command.kind
           /\ command'.id = i /\ command'.previous = command.previous
<1>1. ASSUME NEW c \in LifecycleCommand
      PROVE  LET r == [c EXCEPT !.id = i, !.pc = pc]
             IN  /\ r \in LifecycleCommand /\ r.pc = pc /\ r.policy = c.policy
                 /\ r.kind = c.kind /\ r.id = i /\ r.previous = c.previous
  BY Zenon DEF LifecycleCommand
<1> QED
  BY <1>1, Zenon

LEMMA CommandReads ==
    ASSUME command \in LifecycleCommand, NEW pc \in Pcs, NEW m \in Models \cup {Missing},
           command' = [command EXCEPT !.pc = pc, !.previous = m]
    PROVE  /\ command' \in LifecycleCommand /\ command'.pc = pc
           /\ command'.policy = command.policy /\ command'.kind = command.kind
           /\ command'.id = command.id /\ command'.previous = m
<1>1. ASSUME NEW c \in LifecycleCommand
      PROVE  LET r == [c EXCEPT !.pc = pc, !.previous = m]
             IN  /\ r \in LifecycleCommand /\ r.pc = pc /\ r.policy = c.policy
                 /\ r.kind = c.kind /\ r.id = c.id /\ r.previous = m
  BY Zenon DEF LifecycleCommand
<1> QED
  BY <1>1, Zenon

LEMMA BeginTransitionKeeps ==
    ASSUME DeploymentInv, NEW p \in Policies, BeginTransition(p)
    PROVE  DeploymentInv'
<1>1. /\ command.policy = p /\ ~ Pending(p)
      /\ UNCHANGED <<alias, tags, pending, transition, owner, journal, policies, states,
                     proven, troubles>>
  BY DEF BeginTransition, Doing
<1>2. CASE End /\ UNCHANGED used
  BY <1>1, <1>2, EndsNumbered, OnlyCommand DEF files
<1>3. CASE /\ used < MaxIds /\ used' = used + 1
           /\ command' = [command EXCEPT !.id = used + 1, !.pc =
                 IF command.kind = "deploy" THEN "record" ELSE "reserve"]
  <2>1. used + 1 \in Ids /\ used' \in 0..MaxIds /\ used <= used' /\ used + 1 <= used'
        /\ used + 1 > used /\ used \in Nat
    BY <1>3, InvTypes, DeploymentAssumption, SMT DEF Ids
  <2>2. PICK n \in Ids : n = used + 1
    BY <2>1
  <2>3. PICK pc \in {"record", "reserve"} :
           pc = IF command.kind = "deploy" THEN "record" ELSE "reserve"
    OBVIOUS
  <2>4. pc \in Pcs /\ pc # "idle"
    BY DEF Pcs
  <2>5. /\ command' \in LifecycleCommand /\ command'.pc = pc /\ command'.policy = p
        /\ command'.kind = command.kind /\ command'.id = n
        /\ command'.previous = command.previous
    BY <1>1, <1>3, <2>2, <2>3, <2>4, InvTypes, CommandNumbered
  <2>6. Unused(p, n)'
    <3>1. alias <= used /\ states[p].deployed <= used
      BY NumbersHeld
    <3>2. alias # n /\ states[p].deployed # n
      <4>1. alias \in Models \cup {Missing} /\ states[p].deployed \in {0} \cup Ids
        BY InvTypes, NumbersHeld DEF State
      <4> QED
        BY <2>1, <2>2, <3>1, <4>1, Numbers, SMT DEF Missing
    <3>3. BackupIs(n, Missing) /\ Kept(p, n)
      <4>1. n > used
        BY <2>1, <2>2
      <4> QED
        BY <4>1 DEF DeploymentInv, Numbered
    <3> QED
      BY <1>1, <3>2, <3>3 DEF Unused, Pending, BackupIs, Kept
  <2>7. StepInv(p)'
    <3>1. CASE command.kind = "deploy"
      <4>1. command'.pc = "record" /\ command'.kind = "deploy"
        BY <2>3, <2>5, <3>1
      <4> QED
        BY <2>5, <2>6, <4>1, AtPreparing DEF Preparing
    <3>2. CASE command.kind # "deploy"
      <4>1. command'.pc = "reserve" /\ command'.kind # "deploy"
        BY <2>3, <2>5, <3>2
      <4> QED
        BY <2>5, <4>1, AtReserve
    <3> QED
      BY <3>1, <3>2
  <2>8. CommandInv'
    <3>1. Foreign(p)' = Foreign(p) /\ command'.pc # "idle"
      BY <1>1, <2>4, <2>5 DEF Foreign
    <3> QED
      BY <1>1, <2>5, <2>7, <3>1, RunningFacts, GoesOn
  <2>9. \A q \in Policies : Deploys(q) => transition'.policy = q
    BY <1>1, Zenon DEF DeploymentInv, FilesInv, JournalInv
  <2>10. command'.id <= used' /\ command'.previous <= used'
    <3>1. command.previous <= used /\ command.previous \in Models \cup {Missing}
      BY <1>1, RunningFacts, InvTypes, Zenon DEF LifecycleCommand
    <3> QED
      <4>1. command.previous \in Int
        <5>1. Models \cup {Missing} \subseteq Int
          BY Numbers, SMT DEF Missing
        <5>2. command.previous \in Models \cup {Missing}
          BY <3>1
        <5> QED
          BY <5>1, <5>2
      <4> QED
        BY <2>1, <2>2, <2>5, <3>1, <4>1
  <2> QED
    BY <1>1, <2>1, <2>5, <2>8, <2>9, <2>10, InvTypes, TransitionMove
<1> QED
  BY <1>2, <1>3 DEF BeginTransition

\* No policy but p deploys while a command of p runs.
LEMMA OthersDoNotDeploy ==
    ASSUME DeploymentInv, NEW p \in Policies, command.policy = p,
           NEW q \in Policies, Deploys(q)
    PROVE  q = p
<1>1. JournalInv(q) /\ transition.policy \in {p, NoPolicy}
  BY RunningFacts DEF DeploymentInv, FilesInv
<1> QED
  BY <1>1, Numbers, Zenon DEF JournalInv

LEMMA EvaluateKeeps ==
    ASSUME DeploymentInv, NEW p \in Policies, Evaluate(p)
    PROVE  DeploymentInv'
<1>1. /\ command.policy = p /\ command.pc = "evaluate"
      /\ UNCHANGED <<alias, tags, pending, owner, journal, policies, states, proven,
                     used, troubles>>
  BY DEF Evaluate, Doing
<1>2. /\ command.kind = "deploy" /\ Unused(p, command.id) /\ ~ Deploys(p)
      /\ Candidate(command.id) \in pending[p] /\ command.id \in Ids
  BY <1>1, PreparingFacts DEF Preparing, Unused
<1>3. CASE Proceed("cleanup") /\ UNCHANGED transition
  <2>1. "cleanup" \in Pcs \ {"idle"}
    BY DEF Pcs
  <2>2. StepInv(p)'
    BY <1>2, <1>3, <2>1, CommandGoes, InvTypes, AtCleanup
  <2>3. /\ CommandInv' /\ command' \in LifecycleCommand
        /\ command'.id <= used /\ command'.previous <= used
    BY <1>1, <1>3, <2>1, <2>2, ProceedsWell
  <2> QED
    BY <1>1, <1>3, <2>3, OnlyCommand DEF files
<1>4. CASE /\ transition' = [policy |-> p, id |-> command.id, phase |-> "claiming"]
           /\ command' = [command EXCEPT !.pc = "reserve", !.previous = alias]
  <2>1. transition' \in AliasTransition /\ transition'.policy = p
    BY <1>2, <1>4 DEF AliasTransition
  <2>2. PICK i \in Ids : i = command.id
    BY <1>2
  <2>3. "reserve" \in Pcs
    BY DEF Pcs
  <2>4. /\ command' \in LifecycleCommand /\ command'.pc = "reserve" /\ command'.policy = p
        /\ command'.kind = "deploy" /\ command'.id = i /\ command'.previous = alias
    BY <1>1, <1>2, <1>4, <2>2, <2>3, InvTypes, CommandReads
  <2>5. Unused(p, i)'
    BY <1>1, <1>2, <2>2 DEF Unused, Pending, BackupIs, Kept
  <2>6. StepInv(p)'
    BY <1>1, <1>2, <2>1, <2>2, <2>4, <2>5, AtReserve
  <2>7. CommandInv'
    <3>1. Foreign(p)' = Foreign(p)
      BY <1>1 DEF Foreign
    <3> QED
      BY <1>1, <1>2, <2>1, <2>4, <2>6, <3>1, RunningFacts, GoesOn
  <2>8. \A q \in Policies : Deploys(q) => transition'.policy = q
    BY <1>1, <1>2, OthersDoNotDeploy
  <2>9. command'.id <= used /\ command'.previous <= used
    BY <1>1, <2>2, <2>4, RunningFacts, NumbersHeld
  <2> QED
    BY <1>1, <2>1, <2>4, <2>7, <2>8, <2>9, InvTypes, DeploymentAssumption, TransitionMove
<1> QED
  BY <1>3, <1>4 DEF Evaluate

\* A transition that has not changed anything may go.
LEMMA UnbackedClears ==
    ASSUME DeploymentInv, NEW p \in Policies, command.policy = p,
           command.pc \in Unbacked, Proceed("clear"),
           UNCHANGED <<alias, tags, pending, owner, journal, policies, states, proven>>,
           transition' = transition
    PROVE  /\ CommandInv' /\ command' \in LifecycleCommand
           /\ command'.id <= used /\ command'.previous <= used
<1>1. command.pc \in Uncommitted /\ command.pc \in Unmoved /\ "clear" \in Pcs \ {"idle"}
  BY DEF Uncommitted, Unbacked, Unmoved, Pcs
<1>2. /\ Deploys(p) /\ journal[p].id = command.id /\ command.id \in Ids
      /\ Candidate(command.id) \in pending[p] /\ journal[p].previous = command.previous
      /\ UncommittedInv(p) /\ BackupInv(p) /\ policies[p].route = journal[p].prior
  BY <1>1, RunFacts
<1>3. PICK i \in Ids : i = command.id
  BY <1>2
<1>4. alias = command.previous /\ tags[Previous(i)] = Missing
  BY <1>2, <1>3 DEF BackupInv, BackupIs
<1>5. Sound(p)
  BY <1>2, <1>4, PriorIsSound
<1>6. journal[p].old \in {0, states[p].previous}
  BY <1>2 DEF UncommittedInv
<1>7. Sound(p)'
  BY <1>5 DEF Sound, Personal
<1>8. Cleared(p)'
  BY <1>2, <1>3, <1>4, <1>6, <1>7 DEF Cleared
<1>9. StepInv(p)'
  BY <1>1, <1>8, CommandGoes, InvTypes, AtClear
<1> QED
  BY <1>1, <1>9, ProceedsWell

LEMMA AdvanceTransitionKeeps ==
    ASSUME DeploymentInv, NEW p \in Policies, AdvanceTransition(p)
    PROVE  DeploymentInv'
<1>1. /\ command.policy = p /\ command.pc = "advance" /\ (Trouble \/ troubles' = troubles)
      /\ UNCHANGED <<alias, tags, pending, owner, journal, policies, states, proven, used>>
  BY DEF AdvanceTransition, Doing
<1>2. command.pc \in Uncommitted \ {"discard"} /\ command.pc \in Unbacked
      /\ command.pc \in Unmoved
  BY <1>1 DEF Uncommitted, Unbacked, Unmoved
<1>3. CASE Trouble /\ Proceed("clear") /\ UNCHANGED transition
  BY <1>1, <1>2, <1>3, UnbackedClears, OnlyCommand DEF files
<1>4. CASE transition' = [transition EXCEPT !.phase = "reserved"] /\ Proceed("check")
  <2>1. transition' \in AliasTransition /\ transition'.policy = transition.policy
    BY <1>4, InvTypes, Zenon DEF AliasTransition
  <2>2. "check" \in Pcs \ {"idle"} /\ "check" \in Uncommitted /\ "check" \in Unmoved
        /\ "check" \notin Away
    BY DEF Pcs, Uncommitted, Unbacked, Unmoved, Away
  <2>3. /\ command' \in LifecycleCommand /\ command'.pc = "check" /\ command'.policy = p
        /\ command'.id = command.id /\ command'.previous = command.previous
        /\ command'.kind = command.kind
    BY <1>1, <1>4, <2>2, CommandGoes, InvTypes
  <2>4. /\ command.id \in Ids /\ Candidate(command.id) \in pending[p] /\ BackupInv(p)
    BY <1>1, <1>2, RunFacts
  <2>5. BackupInv(p)'
    <3>1. PICK i \in Ids, m \in {command.previous} : i = command.id
      BY <2>4
    <3>2. alias = m /\ alias # i /\ tags[Previous(i)] = Missing /\ Previous(i) \notin pending[p]
      BY <1>2, <2>4, <3>1 DEF BackupInv, BackupIs, Kept
    <3> QED
      BY <1>1, <2>3, <3>1, <3>2, SMT DEF BackupInv, BackupIs, Kept, Unbacked, Backed, Published,
         Passed, Checked
  <2>6. UndoingInv(p)'
    BY <2>3, SMT DEF UndoingInv
  <2>7. StepInv(p)'
    BY <1>1, <1>2, <1>4, <2>2, <2>4, <2>5, <2>6, RunsOn
  <2>8. CommandInv'
    <3>1. Foreign(p)' = Foreign(p)
      BY <1>1 DEF Foreign
    <3> QED
      BY <1>1, <2>1, <2>3, <2>7, <3>1, RunningFacts, GoesOn
  <2>9. \A q \in Policies : Deploys(q) => transition'.policy = q
    BY <2>1, Zenon DEF DeploymentInv, FilesInv, JournalInv
  <2> QED
    BY <1>1, <2>1, <2>3, <2>8, <2>9, RunningFacts, InvTypes, DeploymentAssumption, TransitionMove
<1> QED
  BY <1>3, <1>4 DEF AdvanceTransition

-----------------------------------------------------------------------------
\* The journal of a new transition of p.
LEMMA NewJournalTyped ==
    ASSUME DeploymentInv, NEW p \in Policies
    PROVE  /\ NewJournal(p) \in Journal
           /\ NewJournal(p).op = command.kind /\ NewJournal(p).id = command.id
           /\ NewJournal(p).phase = "reserved" /\ NewJournal(p).old = 0
           /\ NewJournal(p).prior = policies[p].route
           /\ NewJournal(p).previous = command.previous
<1>1. /\ command.kind \in {"none", "deploy", "rollback"} /\ command.id \in {0} \cup Ids
      /\ command.previous \in Models \cup {Missing}
  BY InvTypes, Zenon DEF LifecycleCommand
<1>2. policies[p].route \in Routes /\ policies[p].revision \in Nat
  <2>1. policies[p] \in Policy
    BY InvTypes
  <2> QED
    BY <2>1, Zenon DEF Policy
<1>3. NoJournal \in Journal /\ NoJournal.phase = "reserved" /\ NoJournal.old = 0
  <2>1. /\ "reserved" \in JournalPhases /\ 0 \in {0} \cup Ids /\ 0 \in Nat
        /\ "user" \in Routes /\ "none" \in {"none", "deploy", "rollback"}
    BY DEF JournalPhases, Routes
  <2> QED
    BY <2>1, Zenon DEF NoJournal, Journal
<1>4. ASSUME NEW j \in Journal
      PROVE  LET r == [j EXCEPT !.op = command.kind, !.id = command.id,
                                !.prior = policies[p].route,
                                !.first = policies[p].revision,
                                !.last = policies[p].revision,
                                !.previous = command.previous]
             IN  /\ r \in Journal /\ r.op = command.kind /\ r.id = command.id
                 /\ r.phase = j.phase /\ r.old = j.old
                 /\ r.prior = policies[p].route /\ r.previous = command.previous
  BY <1>1, <1>2, Zenon DEF Journal
<1> QED
  BY <1>3, <1>4, Zenon DEF NewJournal

LEMMA CommandReserves ==
    ASSUME command \in LifecycleCommand, NEW pc \in Pcs, NEW n \in Nat,
           command' = [command EXCEPT !.revision = n, !.pc = pc]
    PROVE  /\ command' \in LifecycleCommand /\ command'.pc = pc
           /\ command'.policy = command.policy /\ command'.kind = command.kind
           /\ command'.id = command.id /\ command'.previous = command.previous
<1>1. ASSUME NEW c \in LifecycleCommand
      PROVE  LET r == [c EXCEPT !.revision = n, !.pc = pc]
             IN  /\ r \in LifecycleCommand /\ r.pc = pc /\ r.policy = c.policy
                 /\ r.kind = c.kind /\ r.id = c.id /\ r.previous = c.previous
  BY Zenon DEF LifecycleCommand
<1> QED
  BY <1>1, Zenon

\* A rollback goes on with its journal.
LEMMA AtRerouting ==
    ASSUME NEW p \in Policies, command'.pc \in Rerouting, command'.kind = "rollback",
           journal'[p].op = "rollback", journal'[p].id = command'.id
    PROVE  StepInv(p)'
BY SMT DEF StepInv, PreparingInv, RunningInv, BackupInv, UndoingInv, EndingInv,
   RecoveringInv, Preparing, Unbacked, Backed, Passed, Published, Undoing, Uncommitted,
   Unmoved, Away, Checked, Rerouting

\* The journal of a deployment that has just reserved its policy.
LEMMA ReserveFiles ==
    ASSUME DeploymentInv, NEW p \in Policies, command.policy = p, ~ Pending(p),
           command.kind \in {"deploy", "rollback"},
           command.kind = "deploy" => Unused(p, command.id) /\ command.previous = alias
                                      /\ transition.policy = p,
           journal'[p] = NewJournal(p),
           UNCHANGED <<alias, tags, pending, transition, owner, policies, states, proven>>
    PROVE  JournalInv(p)' /\ RouteInv(p)'
<1>1. /\ journal'[p].op = command.kind /\ journal'[p].id = command.id
      /\ journal'[p].phase = "reserved" /\ journal'[p].old = 0
      /\ journal'[p].prior = policies[p].route
      /\ journal'[p].previous = command.previous
  BY NewJournalTyped
<1>2. ~ Deploys(p) /\ ~ Undoable(p)
  BY SMT DEF Pending, Deploys, Undoable
<1>3. Personal(p) => alias \in proven[p] /\ ~ Foreign(p)
  BY <1>2, RunningFacts, Zenon DEF RouteInv
<1>4. command.kind = "deploy" => ~ Foreign(p)
  BY RunningFacts
<1>5. PICK i \in {command.id} : command.kind = "deploy" => i \in Ids
  BY DEF Unused
<1>6. JournalInv(p)'
  <2> SUFFICES ASSUME command.kind = "deploy" PROVE JournalInv(p)'
    BY <1>1, Zenon DEF JournalInv, Deploys
  <2>1. alias # i /\ states[p].deployed # i /\ command.previous = alias
    BY <1>5 DEF Unused
  <2>2. ~ Committed(p)'
    BY <1>1, <1>5, <2>1 DEF Committed
  <2>3. UncommittedInv(p)'
    <3>1. journal'[p].prior = "personal" => alias \in proven[p]
      BY <1>1, <1>3 DEF Personal
    <3>2. "reserved" \notin MayHavePublished
      BY DEF MayHavePublished
    <3> QED
      BY <1>1, <1>5, <2>1, <3>1, <3>2 DEF UncommittedInv
  <2>4. alias' # journal'[p].id
    BY <1>1, <1>5, <2>1
  <2>5. ~ Foreign(p)'
    BY <1>4 DEF Foreign
  <2> QED
    BY <1>1, <1>5, <2>2, <2>3, <2>4, <2>5 DEF JournalInv
<1>7. RouteInv(p)'
  <2>1. Personal(p)' = Personal(p) /\ Foreign(p)' = Foreign(p)
    BY DEF Personal, Foreign
  <2>2. Undoable(p)' => Personal(p)
    BY <1>1 DEF Undoable, Personal
  <2> QED
    BY <1>3, <2>1, <2>2, Zenon DEF RouteInv
<1> QED
  BY <1>6, <1>7

LEMMA ReserveKeeps ==
    ASSUME DeploymentInv, NEW p \in Policies, Reserve(p)
    PROVE  DeploymentInv'
<1>1. /\ command.policy = p /\ command.pc = "reserve" /\ (Trouble \/ troubles' = troubles)
      /\ UNCHANGED <<alias, tags, pending, owner, policies, states, proven, used>>
  BY DEF Reserve, Doing
<1>2. /\ command.kind = "deploy" =>
            /\ Unused(p, command.id) /\ Candidate(command.id) \in pending[p]
            /\ command.previous = alias /\ transition.policy = p
      /\ command.kind \in {"deploy", "rollback"}
  <2>1. PreparingInv(p) /\ command.kind # "none"
    BY <1>1, RunningFacts DEF StepInv
  <2>2. command.kind \in {"none", "deploy", "rollback"}
    BY InvTypes, Zenon DEF LifecycleCommand
  <2> QED
    BY <1>1, <2>1, <2>2 DEF PreparingInv
<1>3. "cleanup" \in Pcs \ {"idle"} /\ "advance" \in Pcs \ {"idle"}
      /\ "reroute" \in Pcs \ {"idle"}
  BY DEF Pcs
<1>4. CASE command.kind = "rollback" /\ End /\ UNCHANGED <<transition, journal>>
  BY <1>1, <1>4, EndsNumbered, OnlyCommand DEF files
<1>5. CASE /\ command.kind = "deploy" /\ Proceed("cleanup") /\ UNCHANGED journal
           /\ transition' \in {transition, NoTransition}
  <2>1. command.id \in Ids /\ ~ Deploys(p)
    BY <1>2, <1>5, SMT DEF Unused, Pending, Deploys
  <2>2. /\ command' \in LifecycleCommand /\ command'.pc = "cleanup" /\ command'.policy = p
        /\ command'.kind = command.kind /\ command'.id = command.id
        /\ command'.previous = command.previous
    BY <1>1, <1>3, <1>5, CommandGoes, InvTypes
  <2>3. StepInv(p)'
    BY <2>1, <2>2, AtCleanup
  <2>4. transition' \in AliasTransition /\ transition'.policy \in {p, NoPolicy}
    <3>1. NoTransition \in AliasTransition /\ NoTransition.policy = NoPolicy
      BY DEF NoTransition, AliasTransition
    <3> QED
      BY <1>1, <1>5, <3>1, RunningFacts, InvTypes
  <2>5. CommandInv'
    <3>1. Foreign(p)' = Foreign(p)
      BY <1>1 DEF Foreign
    <3> QED
      BY <1>1, <2>2, <2>3, <2>4, <3>1, RunningFacts, GoesOn
  <2>6. \A q \in Policies : Deploys(q) => transition'.policy = q
    BY <1>1, <2>1, OthersDoNotDeploy
  <2> QED
    BY <1>1, <1>5, <2>2, <2>4, <2>5, <2>6, RunningFacts, InvTypes, DeploymentAssumption,
       TransitionMove
<1>6. CASE /\ ~ Pending(p) /\ UNCHANGED transition
           /\ journal' = [journal EXCEPT ![p] = NewJournal(p)]
           /\ command' = [command EXCEPT
                !.revision = policies[p].revision,
                !.pc = IF command.kind = "deploy" THEN "advance" ELSE "reroute"]
  <2>1. PICK pc \in {"advance", "reroute"} :
           pc = IF command.kind = "deploy" THEN "advance" ELSE "reroute"
    OBVIOUS
  <2>2. pc \in Pcs /\ pc # "idle"
    BY <1>3, <2>1
  <2>3. PICK n \in Nat : n = policies[p].revision
    <3>1. policies[p] \in Policy
      BY InvTypes
    <3> QED
      BY <3>1, Zenon DEF Policy
  <2>4. /\ command' \in LifecycleCommand /\ command'.pc = pc /\ command'.policy = p
        /\ command'.kind = command.kind /\ command'.id = command.id
        /\ command'.previous = command.previous
    BY <1>1, <1>6, <2>1, <2>2, <2>3, InvTypes, CommandReserves
  <2>5. /\ journal' \in [Policies -> Journal] /\ journal'[p] = NewJournal(p)
        /\ \A q \in Policies : q # p => journal'[q] = journal[q]
    BY <1>6, NewJournalTyped, InvTypes
  <2>6. JournalInv(p)' /\ RouteInv(p)'
    BY <1>1, <1>2, <1>6, <2>5, ReserveFiles
  <2>7. /\ journal'[p].op = command.kind /\ journal'[p].id = command.id
        /\ journal'[p].old = 0 /\ journal'[p].prior = policies[p].route
        /\ journal'[p].previous = command.previous
    BY <2>5, NewJournalTyped
  <2>8. ASSUME NEW t \in Named(p)
        PROVE  t \in Named(p)'
    <3>1. ~ Deploys(p) /\ journal[p].old = 0
      BY <1>6, NumbersHeld, SMT DEF Deploys, Pending
    <3>2. t \in pending[p] \/ \E i \in Ids : t = Previous(i) /\ i = states[p].previous
      BY <3>1, NamedBy, Numbers
    <3> QED
      BY <1>1, <3>2, NamedByAfter
  <2>9. StepInv(p)'
    <3>1. CASE command.kind = "rollback"
      BY <2>1, <2>4, <2>7, <3>1, AtRerouting DEF Rerouting
    <3>2. CASE command.kind = "deploy"
      <4>1. PICK i \in Ids, m \in {command.previous} : i = command.id
        BY <1>2, <3>2 DEF Unused
      <4>2. /\ alias = m /\ alias # i /\ tags[Previous(i)] = Missing
            /\ Previous(i) \notin pending[p] /\ states[p].deployed # i
            /\ Candidate(i) \in pending[p]
        BY <1>2, <3>2, <4>1 DEF Unused, BackupIs, Kept
      <4>3. command'.pc = "advance"
        BY <2>1, <2>4, <3>2
      <4>4. OwnJournal(p)' /\ ~ Committed(p)'
        BY <1>1, <2>4, <2>7, <3>2, <4>1, <4>2 DEF OwnJournal, Deploys, Committed
      <4>5. RunningInv(p)'
        BY <1>1, <2>4, <2>7, <4>3, <4>4, SMT DEF RunningInv, Away
      <4>6. BackupInv(p)'
        BY <1>1, <2>4, <4>1, <4>2, <4>3, SMT DEF BackupInv, BackupIs, Kept, Unbacked, Backed,
           Published, Passed, Checked
      <4> QED
        BY <4>3, <4>5, <4>6, SMT DEF StepInv, PreparingInv, UndoingInv, EndingInv,
           RecoveringInv, Preparing, Rerouting
    <3> QED
      BY <1>2, <3>1, <3>2
  <2>10. CommandInv'
    <3>1. Foreign(p)' = Foreign(p)
      BY <1>1 DEF Foreign
    <3> QED
      BY <1>1, <1>6, <2>2, <2>4, <2>9, <3>1, RunningFacts, GoesOn
  <2>11. OthersSame(p)
    BY <1>1, <2>5 DEF OthersSame
  <2>12. /\ journal'[p].id <= used /\ journal'[p].previous <= used /\ 0 <= used
         /\ command'.id <= used /\ command'.previous <= used
    BY <1>1, <2>4, <2>7, RunningFacts, InvTypes, DeploymentAssumption
  <2>13. OwnerInv'
    BY <1>1, Zenon DEF DeploymentInv, FilesInv, OwnerInv
  <2> QED
    BY <1>1, <1>6, <2>4, <2>5, <2>6, <2>7, <2>8, <2>10, <2>11, <2>12, <2>13, NumbersHeld,
       InvTypes, FilesMove
<1> QED
  BY <1>2, <1>4, <1>5, <1>6 DEF Reserve

-----------------------------------------------------------------------------
\* Once the owner is checked, the alias is p's alone: what it names passed p's
\* checks, and nothing entitles another policy to it.
LEMMA OwnerChecked ==
    ASSUME DeploymentInv, NEW p \in Policies, command.policy = p, ~ Foreign(p),
           alias = IF owner = NoAliasOwner THEN Missing ELSE owner.model
    PROVE  Sole(p) /\ Acceptable(p, alias)
<1>1. OwnerInv /\ \A q \in Policies : RouteInv(q)
  BY DEF DeploymentInv, FilesInv
<1>2. owner.policy \in {p, NoPolicy} /\ p # NoPolicy /\ NoAliasOwner.policy = NoPolicy
  BY Numbers DEF Foreign, NoAliasOwner
<1>3. CASE owner.policy = p
  <2>1. alias = owner.model /\ alias \in proven[p]
    BY <1>1, <1>2, <1>3, Zenon DEF OwnerInv
  <2>2. ASSUME NEW q \in Policies, q # p
        PROVE  ~ Entitled(q)
    <3>1. Foreign(q)
      BY <1>2, <1>3, <2>2 DEF Foreign
    <3> QED
      BY <1>1, <3>1, Zenon DEF RouteInv, Entitled
  <2> QED
    BY <2>1, <2>2, Zenon DEF Sole, Acceptable
<1>4. CASE owner.policy = NoPolicy
  <2>1. alias = Missing
    BY <1>1, <1>4, Zenon DEF OwnerInv
  <2>2. ASSUME NEW q \in Policies, q # p
        PROVE  ~ Entitled(q)
    <3>1. ~ Deploys(q)
      BY <2>2, OthersDoNotDeploy
    <3>2. Missing \notin proven[q]
      BY InvTypes, Numbers
    <3> QED
      BY <1>1, <2>1, <3>1, <3>2, Zenon DEF RouteInv, Entitled
  <2> QED
    BY <2>1, <2>2, Zenon DEF Sole, Acceptable
<1> QED
  BY <1>2, <1>3, <1>4

LEMMA CheckOwnerKeeps ==
    ASSUME DeploymentInv, NEW p \in Policies, CheckOwner(p)
    PROVE  DeploymentInv'
<1>1. /\ command.policy = p /\ command.pc = "check" /\ troubles' = troubles
      /\ UNCHANGED <<alias, tags, files>>
  BY DEF CheckOwner, Doing
<1>2. /\ pending' = pending /\ transition' = transition /\ owner' = owner
      /\ journal' = journal /\ policies' = policies /\ states' = states /\ proven' = proven
      /\ alias' = alias /\ tags' = tags
  BY <1>1 DEF files
<1>3. command.pc \in Uncommitted \ {"discard"} /\ command.pc \in Unbacked
      /\ command.pc \in Unmoved
  BY <1>1 DEF Uncommitted, Unbacked, Unmoved
<1>4. /\ ~ Foreign(p) /\ journal[p].previous = command.previous
      /\ policies[p].route = journal[p].prior /\ Candidate(command.id) \in pending[p]
      /\ BackupInv(p) /\ command.id \in Ids
  BY <1>1, <1>3, RunFacts
<1>5. PICK i \in Ids, m \in {command.previous} : i = command.id
  BY <1>4
<1>6. alias = m /\ alias # i /\ tags[Previous(i)] = Missing /\ Previous(i) \notin pending[p]
  BY <1>3, <1>4, <1>5 DEF BackupInv, BackupIs, Kept
<1>7. ASSUME Proceed("clear")
      PROVE  DeploymentInv'
  BY <1>1, <1>2, <1>3, <1>7, UnbackedClears, OnlyCommand
<1>8. ASSUME alias = (IF owner = NoAliasOwner THEN Missing ELSE owner.model),
             NEW pc \in {"backup", "quiesce", "note_publishing"}, Proceed(pc),
             pc = "note_publishing" => policies[p].route # "personal",
             pc # "backup" => alias = Missing
      PROVE  DeploymentInv'
  <2>1. Sole(p) /\ Acceptable(p, m)
    BY <1>1, <1>4, <1>6, <1>8, OwnerChecked
  <2>2. pc \in Pcs \ {"idle"} /\ pc \in Uncommitted /\ (pc \in Away => pc = "note_publishing")
    BY DEF Pcs, Notes, Uncommitted, Unbacked, Backed, Away
  <2>3. /\ command'.pc = pc /\ command'.id = i /\ command'.previous = m
    BY <1>5, <1>8, <2>2, CommandGoes, InvTypes
  <2>4. Sole(p)' /\ m \in proven'[p] \cup {Missing}
    <3>1. OthersSame(p)
      BY <1>2 DEF OthersSame
    <3>2. Sole(p)'
      BY <2>1, <3>1, SoleStays
    <3> QED
      BY <1>2, <2>1, <3>2 DEF Acceptable
  <2>5. BackupInv(p)'
    <3>1. /\ pc \in Unbacked => pc = "backup"
          /\ pc \notin Published /\ pc \notin Passed /\ pc # "copy" /\ pc # "commit"
          /\ pc \in Backed => alias = Missing
      BY <1>8, SMT DEF Unbacked, Backed, Published, Passed
    <3>2. alias' = m /\ alias' # i /\ tags'[Previous(i)] = Missing /\ Previous(i) \notin pending'[p]
      BY <1>2, <1>6
    <3> QED
      BY <1>6, <2>3, <2>4, <3>1, <3>2 DEF BackupInv, BackupIs, Kept, Acceptable
  <2>6. UndoingInv(p)'
    BY <2>3, SMT DEF UndoingInv
  <2>7. pc \in Unmoved => command.pc \in Unmoved
    BY <1>3
  <2>8. pc \in Away => ~ Personal(p)
    BY <1>8, <2>2 DEF Personal
  <2>9. StepInv(p)'
    BY <1>1, <1>2, <1>3, <1>4, <1>8, <2>2, <2>5, <2>6, <2>7, <2>8, RunsOn
  <2>10. /\ CommandInv' /\ command' \in LifecycleCommand
         /\ command'.id <= used /\ command'.previous <= used
    BY <1>1, <1>2, <1>8, <2>2, <2>9, ProceedsWell
  <2> QED
    BY <1>1, <2>10, OnlyCommand
<1>9. AfterBackup(p) \in {"quiesce", "note_publishing"}
      /\ (AfterBackup(p) = "note_publishing" => policies[p].route # "personal")
  BY <1>4 DEF AfterBackup
<1>10. PICK expected \in {IF owner = NoAliasOwner THEN Missing ELSE owner.model} :
          Proceed(IF alias # expected THEN "clear"
                  ELSE IF alias = Missing THEN AfterBackup(p) ELSE "backup")
  BY DEF CheckOwner
<1>11. CASE alias # expected
  <2>1. Proceed("clear")
    BY <1>10, <1>11
  <2> QED
    BY <1>7, <2>1
<1>12. CASE alias = expected /\ alias = Missing
  <2>1. PICK pc \in {"quiesce", "note_publishing"} : pc = AfterBackup(p)
    BY <1>9
  <2>2. Proceed(pc)
    BY <1>10, <1>12, <2>1
  <2> QED
    BY <1>8, <1>9, <1>10, <1>12, <2>1, <2>2
<1>13. CASE alias = expected /\ alias # Missing
  <2>1. Proceed("backup")
    BY <1>10, <1>13
  <2> QED
    BY <1>8, <1>10, <1>13, <2>1
<1> QED
  BY <1>11, <1>12, <1>13

-----------------------------------------------------------------------------
\* advance_journal.
LEMMA AdvanceJournalFiles ==
    ASSUME DeploymentInv, NEW p \in Policies, command.policy = p, command.pc \in Notes,
           /\ journal'[p].op = journal[p].op /\ journal'[p].id = journal[p].id
           /\ journal'[p].prior = journal[p].prior /\ journal'[p].old = journal[p].old
           /\ journal'[p].previous = journal[p].previous
           /\ journal'[p].phase = NotePhase[command.pc],
           \A q \in Policies : q # p => journal'[q] = journal[q],
           UNCHANGED <<alias, tags, pending, transition, owner, policies, states, proven>>
    PROVE  JournalInv(p)' /\ RouteInv(p)'
<1>1. Notes \subseteq Rerouting \cup (Checked \cap Uncommitted \cap (Backed \cup Published))
  BY DEF Notes, Rerouting, Checked, Uncommitted, Backed, Published, Passed
<1>2. Deploys(p)' = Deploys(p) /\ Undoable(p)' = Undoable(p) /\ Foreign(p)' = Foreign(p)
      /\ Personal(p)' = Personal(p) /\ Committed(p)' = Committed(p)
  BY DEF Deploys, Undoable, Foreign, Personal, Committed
<1>3. RouteInv(p)'
  BY <1>2, RunningFacts, Zenon DEF RouteInv
<1>4. CASE command.pc \in Rerouting
  <2>1. ~ Deploys(p)
    BY <1>4, RunningFacts DEF StepInv, RecoveringInv, Deploys
  <2> QED
    BY <1>2, <1>3, <2>1, Zenon DEF JournalInv
<1>5. CASE command.pc \in Checked \cap Uncommitted \cap (Backed \cup Published)
  <2>1. /\ Deploys(p) /\ ~ Committed(p) /\ JournalInv(p) /\ UncommittedInv(p) /\ BackupInv(p)
        /\ journal[p].previous = command.previous /\ journal[p].id = command.id
    BY <1>5, RunFacts, RunningFacts
  <2>2. Sole(p) /\ Acceptable(p, journal[p].previous)
    BY <1>5, <2>1, Zenon DEF BackupInv
  <2>3. OthersSame(p)
    BY DEF OthersSame
  <2>4. Sole(p)'
    BY <2>2, <2>3, SoleStays
  <2>5. alias = journal[p].id => NotePhase[command.pc] \in MayHavePublished
    <3>1. command.pc \in Backed => alias # journal[p].id
      BY <2>1 DEF BackupInv
    <3>2. command.pc \in Notes \cap Published => NotePhase[command.pc] \in MayHavePublished
      <4>1. command.pc \in Notes \cap Published =>
              command.pc \in {"note_published", "note_verified", "note_activated"}
        BY SMT DEF Notes, Published, Passed
      <4> QED
        BY <4>1, SMT DEF NotePhase, MayHavePublished
    <3> QED
      BY <1>5, <3>1, <3>2
  <2>6. UncommittedInv(p)'
    BY <2>1, <2>2, <2>5, SMT DEF UncommittedInv, BackupIs, Kept, Acceptable
  <2> QED
    BY <1>2, <1>3, <2>1, <2>4, <2>6, Zenon DEF JournalInv
<1> QED
  BY <1>1, <1>4, <1>5

LEMMA AdvanceJournalGoes ==
    ASSUME DeploymentInv, NEW p \in Policies, command.policy = p, command.pc \in Notes,
           /\ journal'[p].op = journal[p].op /\ journal'[p].id = journal[p].id
           /\ journal'[p].prior = journal[p].prior /\ journal'[p].old = journal[p].old
           /\ journal'[p].previous = journal[p].previous
           /\ journal'[p].phase = NotePhase[command.pc],
           OthersSame(p),
           UNCHANGED <<alias, tags, pending, transition, owner, policies, states, proven>>,
           command'.pc = AfterNote(p)[command.pc],
           command'.kind = command.kind, command'.id = command.id,
           command'.previous = command.previous, command'.mutated = command.mutated
    PROVE  StepInv(p)' /\ command'.pc # "idle"
<1>1. AfterBackup(p) \in {"quiesce", "note_publishing"}
      /\ (AfterBackup(p) = "note_publishing" => journal[p].prior # "personal")
  BY DEF AfterBackup
<1>2. CASE command.pc \in Rerouting
  <2>1. command.kind = "rollback" /\ journal[p].op = "rollback" /\ journal[p].id = command.id
    BY <1>2, RunningFacts DEF StepInv, RecoveringInv
  <2>2. command'.pc \in {"witness", "clear"}
    BY <1>2, SMT DEF Notes, Rerouting, AfterNote
  <2>3. CASE command'.pc = "witness"
    BY <2>1, <2>3, AtRerouting DEF Rerouting
  <2>4. CASE command'.pc = "clear"
    <3>1. ~ Deploys(p)'
      BY <2>1 DEF Deploys
    <3> QED
      BY <2>4, <3>1, AtClear
  <2> QED
    BY <2>2, <2>3, <2>4
<1>3. CASE command.pc \in Uncommitted
  <2>1. /\ journal[p].previous = command.previous /\ Candidate(command.id) \in pending[p]
        /\ BackupInv(p) /\ command.id \in Ids
        /\ command.pc # "discard" =>
              command.mutated \/ policies[p].route = journal[p].prior
        /\ command.pc \in Unmoved => policies[p].route = journal[p].prior
        /\ command.pc \in Away => ~ Personal(p)
    BY <1>3, RunFacts
  <2>2. PICK i \in Ids, m \in {command.previous} : i = command.id
    BY <2>1
  <2>3. command.pc \in {"note_backed_up", "note_quiesced", "note_publishing", "note_published",
                       "note_verified", "note_activated"}
    BY <1>3, SMT DEF Notes, Uncommitted, Unbacked, Backed, Published, Passed, Undoing
  <2>4. /\ command.pc = "note_backed_up" => command'.pc = AfterBackup(p)
        /\ command.pc = "note_quiesced" => command'.pc = "note_publishing"
        /\ command.pc = "note_publishing" =>
              command'.pc = "copy" /\ journal'[p].phase = "publishing"
        /\ command.pc = "note_published" => command'.pc = "final"
        /\ command.pc = "note_verified" => command'.pc = "activate"
        /\ command.pc = "note_activated" => command'.pc = "snapshot"
    BY SMT DEF AfterNote, NotePhase
  <2>5. /\ Sole(p) /\ m \in proven[p] \cup {Missing}
        /\ command.pc \in Backed =>
              alias = m /\ alias # i /\ tags[Previous(i)] = m /\ Previous(i) \notin pending[p]
        /\ command.pc \in Published =>
              alias = i /\ tags[Previous(i)] = m /\ Previous(i) \notin pending[p]
        /\ command.pc \in Passed => i \in proven[p]
    BY <2>1, <2>2, <2>3, SMT DEF BackupInv, BackupIs, Kept, Backed, Published, Passed, Checked,
       Acceptable
  <2>6. Sole(p)'
    BY <2>5, SoleStays
  <2>7. command'.pc \in Backed \cup Published /\ command'.pc \in Uncommitted
        /\ command'.pc \in Checked
    BY <1>1, <2>3, <2>4, SMT DEF Backed, Published, Passed, Uncommitted, Checked
  <2>8. BackupInv(p)'
    <3>1. command.pc = "note_publishing" => "publishing" \in MayHavePublished
      BY DEF MayHavePublished
    <3>2. command'.id = i /\ command'.previous = m
      BY <2>2
    <3> QED
      BY <1>1, <2>3, <2>4, <2>5, <2>6, <3>1, <3>2, SMT DEF BackupInv, BackupIs, Kept, Unbacked,
         Backed, Published, Passed, Checked, Acceptable
  <2>9. UndoingInv(p)' /\ command'.pc # "idle" /\ command'.pc # "discard"
    BY <2>7, SMT DEF UndoingInv, Backed, Published, Passed
  <2>10. /\ command'.pc \in Unmoved => policies'[p].route = journal[p].prior
         /\ command'.pc \in Away => ~ Personal(p)'
    <3>1. command'.pc \in Unmoved => command.pc = "note_backed_up"
      BY <1>1, <2>3, <2>4, SMT DEF Unmoved
    <3>2. "note_backed_up" \in Unmoved
      BY DEF Unmoved
    <3>3. command'.pc \in Away => command.pc \in Away
            \/ (command.pc = "note_backed_up" /\ journal[p].prior # "personal")
      BY <1>1, <2>3, <2>4, SMT DEF Away
    <3> QED
      BY <2>1, <3>1, <3>2, <3>3 DEF Personal
  <2>11. command'.mutated \/ policies'[p].route = journal[p].prior
    <3>1. command.pc # "discard"
      BY <2>3
    <3>2. command.mutated \/ policies[p].route = journal[p].prior
      BY <2>1, <3>1, Zenon
    <3> QED
      BY <3>2, Zenon
  <2>12. StepInv(p)'
    BY <1>3, <2>1, <2>7, <2>8, <2>9, <2>10, <2>11, RunsAt
  <2> QED
    BY <2>9, <2>12
<1>4. command.pc \in Rerouting \cup Uncommitted
  BY SMT DEF Notes, Rerouting, Uncommitted, Backed, Published, Passed
<1>5. command'.pc # "idle"
  <2>1. command'.pc \in {"quiesce", "note_publishing", "copy", "final", "activate", "snapshot",
                       "witness", "clear"}
    BY <1>1, SMT DEF AfterNote, Notes
  <2> QED
    BY <2>1
<1> QED
  BY <1>2, <1>3, <1>4, <1>5

LEMMA FailsWell ==
    ASSUME DeploymentInv, NEW p \in Policies, command.policy = p,
           command.pc \in Checked \cap (Uncommitted \ {"discard", "backup", "restore"})
              \/ command.pc \in Rerouting,
           Proceed(AfterFailure), UNCHANGED <<alias, tags, files>>,
           Trouble \/ troubles' = troubles
    PROVE  DeploymentInv'
<1>1. "reconcile" \in Pcs \ {"idle"} /\ "cleanup" \in Pcs \ {"idle"}
  BY DEF Pcs
<1>2. transition' = transition /\ owner' = owner
  BY DEF files
<1>3. CASE command.kind = "rollback"
  <2>1. Proceed("reconcile")
    BY <1>3 DEF AfterFailure
  <2>2. StepInv(p)'
    BY <1>1, <2>1, CommandGoes, InvTypes, Anywhere
  <2>3. /\ CommandInv' /\ command' \in LifecycleCommand
        /\ command'.id <= used /\ command'.previous <= used
    BY <1>1, <1>2, <2>1, <2>2, ProceedsWell
  <2> QED
    BY <2>3, OnlyCommand
<1>4. CASE command.kind # "rollback"
  <2>1. command.pc \in Checked \cap (Uncommitted \ {"discard", "backup", "restore"})
    BY <1>4, RunningFacts DEF StepInv, RecoveringInv
  <2>2. CASE command.pc = "note_backed_up"
    <3>1. Proceed("cleanup")
      BY <1>4, <2>2 DEF AfterFailure
    <3>2. command.id \in Ids
      BY <2>1, RunFacts
    <3>3. StepInv(p)'
      BY <1>1, <3>1, <3>2, CommandGoes, InvTypes, AtCleanup
    <3>4. /\ CommandInv' /\ command' \in LifecycleCommand
          /\ command'.id <= used /\ command'.previous <= used
      BY <1>1, <1>2, <3>1, <3>3, ProceedsWell
    <3> QED
      BY <3>4, OnlyCommand
  <2>3. CASE command.pc # "note_backed_up"
    <3>1. Proceed("restore")
      BY <1>4, <2>3 DEF AfterFailure
    <3>2. /\ CommandInv' /\ command' \in LifecycleCommand
          /\ command'.id <= used /\ command'.previous <= used
      BY <2>1, <3>1, RunsToRestore
    <3> QED
      BY <3>2, OnlyCommand
  <2> QED
    BY <2>2, <2>3
<1> QED
  BY <1>3, <1>4

LEMMA NamedSame ==
    ASSUME NEW p \in Policies, pending' = pending,
           states'[p].previous = states[p].previous, journal'[p].old = journal[p].old,
           journal'[p].id = journal[p].id, journal'[p].op = journal[p].op,
           NEW t \in Named(p)
    PROVE  t \in Named(p)'
BY NamedBy, NamedByAfter, Zenon DEF Deploys

LEMMA JournalWritten ==
    ASSUME journal \in [Policies -> Journal], NEW p \in Policies, NEW j \in Journal,
           journal' = [journal EXCEPT ![p] = j]
    PROVE  /\ journal' \in [Policies -> Journal] /\ journal'[p] = j
           /\ \A q \in Policies : q # p => journal'[q] = journal[q]
OBVIOUS

LEMMA AdvanceJournalKeeps ==
    ASSUME DeploymentInv, NEW p \in Policies, AdvanceJournal(p)
    PROVE  DeploymentInv'
<1>1. /\ command.policy = p /\ command.pc \in Notes /\ (Trouble \/ troubles' = troubles)
      /\ UNCHANGED <<alias, tags, pending, transition, owner, policies, states, proven, used>>
  BY DEF AdvanceJournal
<1>2. CASE Proceed(AfterFailure) /\ UNCHANGED journal
  <2>1. command.pc \in Checked \cap (Uncommitted \ {"discard", "backup", "restore"})
           \/ command.pc \in Rerouting
    BY <1>1, SMT DEF Notes, Rerouting, Checked, Uncommitted, Backed, Published, Passed
  <2> QED
    BY <1>1, <1>2, <2>1, FailsWell DEF files
<1>3. CASE /\ journal' = [journal EXCEPT ![p].phase = NotePhase[command.pc],
                                         ![p].last = command.revision]
           /\ Proceed(AfterNote(p)[command.pc])
  <2>1. PICK pc \in {AfterNote(p)[command.pc]} : Proceed(pc)
    BY <1>3
  <2>2. pc \in Pcs
    <3>1. AfterBackup(p) \in {"quiesce", "note_publishing"}
      BY DEF AfterBackup
    <3>2. pc \in {"quiesce", "note_publishing", "copy", "final", "activate", "snapshot",
                  "witness", "clear"}
      BY <1>1, <3>1, SMT DEF AfterNote, Notes
    <3> QED
      BY <3>2 DEF Pcs, Notes
  <2>3. /\ command' \in LifecycleCommand /\ command'.pc = AfterNote(p)[command.pc]
        /\ command'.policy = p
        /\ command'.kind = command.kind /\ command'.id = command.id
        /\ command'.previous = command.previous /\ command'.mutated = command.mutated
    BY <1>1, <2>1, <2>2, CommandGoes, InvTypes
  <2>4. NotePhase[command.pc] \in JournalPhases
    BY <1>1, SMT DEF NotePhase, Notes, JournalPhases
  <2>5. /\ journal' \in [Policies -> Journal]
        /\ \A q \in Policies : q # p => journal'[q] = journal[q]
        /\ journal'[p].op = journal[p].op /\ journal'[p].id = journal[p].id
        /\ journal'[p].prior = journal[p].prior /\ journal'[p].old = journal[p].old
        /\ journal'[p].previous = journal[p].previous
        /\ journal'[p].phase = NotePhase[command.pc]
    <3>1. command.revision \in Nat
      BY InvTypes, Zenon DEF LifecycleCommand
    <3>2. PICK phase \in JournalPhases, n \in Nat :
             phase = NotePhase[command.pc] /\ n = command.revision
      BY <2>4, <3>1
    <3>3. journal' = [journal EXCEPT ![p].phase = phase, ![p].last = n]
      BY <1>3, <3>2, Zenon
    <3>4. ASSUME NEW j \in Journal
          PROVE  LET r == [j EXCEPT !.phase = phase, !.last = n]
                 IN  /\ r \in Journal /\ r.op = j.op /\ r.id = j.id /\ r.prior = j.prior
                     /\ r.old = j.old /\ r.previous = j.previous /\ r.phase = phase
      BY Zenon DEF Journal
    <3>5. journal[p] \in Journal
      BY InvTypes
    <3>6. PICK j \in Journal : j = [journal[p] EXCEPT !.phase = phase, !.last = n]
      BY <3>4, <3>5, Zenon
    <3>7. journal' = [journal EXCEPT ![p] = j]
      BY <3>3, <3>6, InvTypes, Zenon
    <3>8. /\ j.op = journal[p].op /\ j.id = journal[p].id
          /\ j.prior = journal[p].prior /\ j.old = journal[p].old
          /\ j.previous = journal[p].previous /\ j.phase = phase
      BY <3>4, <3>5, <3>6, Zenon
    <3>9. /\ journal' \in [Policies -> Journal] /\ journal'[p] = j
          /\ \A q \in Policies : q # p => journal'[q] = journal[q]
      BY <3>7, InvTypes, JournalWritten
    <3> QED
      BY <3>2, <3>8, <3>9
  <2>6. JournalInv(p)' /\ RouteInv(p)'
    BY <1>1, <2>5, AdvanceJournalFiles
  <2>7. OthersSame(p)
    BY <1>1, <2>5 DEF OthersSame
  <2>8. StepInv(p)' /\ command'.pc # "idle"
    BY <1>1, <2>3, <2>5, <2>7, AdvanceJournalGoes
  <2>9. CommandInv'
    <3>1. Foreign(p)' = Foreign(p)
      BY <1>1 DEF Foreign
    <3> QED
      BY <1>1, <2>3, <2>8, <3>1, RunningFacts, GoesOn
  <2>10. ASSUME NEW t \in Named(p)
         PROVE  t \in Named(p)'
    BY <1>1, <2>5, NamedSame
  <2>11. OwnerInv'
    BY <1>1, Zenon DEF DeploymentInv, FilesInv, OwnerInv
  <2>12. ~ Deploys(p)' => journal'[p].old = 0
    BY <2>5, NumbersHeld DEF Deploys
  <2>13. /\ journal'[p].id <= used /\ journal'[p].old <= used /\ journal'[p].previous <= used
         /\ states'[p].deployed <= used /\ states'[p].previous <= used /\ alias' <= used
         /\ command'.id <= used /\ command'.previous <= used
    BY <1>1, <2>3, <2>5, NumbersHeld, RunningFacts
  <2> QED
    BY <1>1, <2>3, <2>5, <2>6, <2>7, <2>9, <2>10, <2>11, <2>12, <2>13, InvTypes, FilesMove
<1> QED
  BY <1>2, <1>3 DEF AdvanceJournal

-----------------------------------------------------------------------------
\* The policy is written, and what its journal says of its revisions.
LEMMA PolicyWritten ==
    ASSUME policies \in [Policies -> Policy], NEW p \in Policies, NEW route \in Routes,
           NEW source \in Sources, Route(p, route, source)
    PROVE  /\ policies' \in [Policies -> Policy] /\ policies'[p].route = route
           /\ policies'[p].revision = policies[p].revision + 1
           /\ \A q \in Policies : q # p => policies'[q] = policies[q]
<1>1. policies[p] \in Policy
  OBVIOUS
<1>2. policies[p].revision + 1 \in Nat
  <2>1. policies[p].revision \in Nat
    BY <1>1, Zenon DEF Policy
  <2> QED
    BY <2>1
<1>3. PICK r \in Policy : r = [route |-> route, revision |-> policies[p].revision + 1,
                               source |-> source]
  BY <1>2, Zenon DEF Policy
<1>4. policies' = [policies EXCEPT ![p] = r]
  BY <1>3, Zenon DEF Route
<1> QED
  BY <1>3, <1>4

\* What the journal of p says of anything but the revisions of its policy.
SameJournal(p) ==
    /\ journal'[p].op = journal[p].op /\ journal'[p].id = journal[p].id
    /\ journal'[p].phase = journal[p].phase /\ journal'[p].prior = journal[p].prior
    /\ journal'[p].previous = journal[p].previous /\ journal'[p].old = journal[p].old

LEMMA LastWritten ==
    ASSUME journal \in [Policies -> Journal], NEW p \in Policies, NEW n \in Nat,
           journal' = [journal EXCEPT ![p].last = n]
    PROVE  /\ journal' \in [Policies -> Journal] /\ SameJournal(p)
           /\ \A q \in Policies : q # p => journal'[q] = journal[q]
<1>1. ASSUME NEW j \in Journal
      PROVE  LET r == [j EXCEPT !.last = n]
             IN  /\ r \in Journal /\ r.op = j.op /\ r.id = j.id /\ r.prior = j.prior
                 /\ r.old = j.old /\ r.previous = j.previous /\ r.phase = j.phase
  BY Zenon DEF Journal
<1>2. journal[p] \in Journal
  OBVIOUS
<1>3. PICK j \in Journal : j = [journal[p] EXCEPT !.last = n]
  BY <1>1, <1>2, Zenon
<1>4. journal' = [journal EXCEPT ![p] = j]
  BY <1>3, Zenon
<1>5. /\ j.op = journal[p].op /\ j.id = journal[p].id /\ j.prior = journal[p].prior
      /\ j.old = journal[p].old /\ j.previous = journal[p].previous
      /\ j.phase = journal[p].phase
  BY <1>1, <1>2, <1>3, Zenon
<1> QED
  BY <1>4, <1>5, JournalWritten DEF SameJournal

LEMMA PolicyMove ==
    ASSUME DeploymentInv, NEW p \in Policies, command.policy = p,
           UNCHANGED <<alias, tags, pending, transition, owner, states, proven, used>>,
           policies' \in [Policies -> Policy], journal' \in [Policies -> Journal],
           SameJournal(p),
           \A q \in Policies : q # p => policies'[q] = policies[q] /\ journal'[q] = journal[q],
           Personal(p)' => /\ alias \in proven[p] \/ (alias = Missing /\ Deploys(p))
                           /\ ~ Foreign(p),
           command' \in LifecycleCommand, command'.id <= used,
           command'.previous <= used, Trouble \/ troubles' = troubles, CommandInv'
    PROVE  DeploymentInv'
<1>1. OthersSame(p)
  BY DEF OthersSame
<1>2. /\ journal'[p].op = journal[p].op /\ journal'[p].id = journal[p].id
      /\ journal'[p].phase = journal[p].phase /\ journal'[p].prior = journal[p].prior
      /\ journal'[p].previous = journal[p].previous /\ journal'[p].old = journal[p].old
  BY DEF SameJournal
<1>3. /\ Deploys(p)' = Deploys(p) /\ Undoable(p)' = Undoable(p)
      /\ Foreign(p)' = Foreign(p) /\ Committed(p)' = Committed(p)
  BY <1>2 DEF Deploys, Undoable, Foreign, Committed
<1>4. RouteInv(p)'
  BY <1>3, RunningFacts, Zenon DEF RouteInv
<1>5. JournalInv(p)'
  <2>1. JournalInv(p)
    BY RunningFacts
  <2>2. Sole(p) => Sole(p)'
    BY <1>1, SoleStays
  <2>3. UncommittedInv(p) => UncommittedInv(p)'
    BY <1>2, SMT DEF UncommittedInv, BackupIs, Kept, Acceptable
  <2>4. CommittedInv(p) => CommittedInv(p)'
    BY <1>2, SMT DEF CommittedInv, BackupIs
  <2> QED
    BY <1>2, <1>3, <2>1, <2>2, <2>3, <2>4, Zenon DEF JournalInv
<1>6. ASSUME NEW t \in Named(p)
      PROVE  t \in Named(p)'
  BY <1>2, NamedSame
<1>7. OwnerInv'
  BY Zenon DEF DeploymentInv, FilesInv, OwnerInv
<1>8. ~ Deploys(p)' => journal'[p].old = 0
  BY <1>2, <1>3, NumbersHeld
<1>9. /\ journal'[p].id <= used /\ journal'[p].old <= used /\ journal'[p].previous <= used
      /\ states'[p].deployed <= used /\ states'[p].previous <= used /\ alias' <= used
  BY <1>2, NumbersHeld
<1> QED
  BY <1>1, <1>4, <1>5, <1>6, <1>7, <1>8, <1>9, InvTypes, FilesMove

LEMMA CommandUpdates ==
    ASSUME command \in LifecycleCommand, NEW pc \in Pcs,
           command' = [command EXCEPT !.revision = @ + 1, !.mutated = TRUE, !.pc = pc]
    PROVE  /\ command' \in LifecycleCommand /\ command'.pc = pc /\ command'.mutated
           /\ command'.policy = command.policy /\ command'.kind = command.kind
           /\ command'.id = command.id /\ command'.previous = command.previous
<1>1. command.revision + 1 \in Nat
  <2>1. command.revision \in Nat
    BY Zenon DEF LifecycleCommand
  <2> QED
    BY <2>1
<1>2. PICK n \in Nat : n = command.revision + 1
  BY <1>1
<1>3. ASSUME NEW c \in LifecycleCommand
      PROVE  LET r == [c EXCEPT !.revision = n, !.mutated = TRUE, !.pc = pc]
             IN  /\ r \in LifecycleCommand /\ r.pc = pc /\ r.mutated = TRUE
                 /\ r.policy = c.policy
                 /\ r.kind = c.kind /\ r.id = c.id /\ r.previous = c.previous
  BY Zenon DEF LifecycleCommand
<1>4. command' = [command EXCEPT !.revision = n, !.mutated = TRUE, !.pc = pc]
  BY <1>2, Zenon
<1> QED
  BY <1>3, <1>4, Zenon

LEMMA UpdateKeeps ==
    ASSUME DeploymentInv, NEW p \in Policies, Update(p)
    PROVE  DeploymentInv'
<1>1. /\ command.policy = p /\ troubles' = troubles
      /\ UNCHANGED <<alias, tags, pending, transition, owner, journal, states, proven, used>>
      /\ \/ command.pc = "quiesce" /\ Route(p, "rollback", "deployment")
         \/ command.pc = "activate" /\ Route(p, "personal", "deployment")
         \/ command.pc = "reroute" /\ Route(p, "rollback", "rollback")
  BY DEF Update, Doing
<1>2. PICK route \in {"rollback", "personal"}, source \in {"deployment", "rollback"} :
         /\ Route(p, route, source)
         /\ route = IF command.pc = "activate" THEN "personal" ELSE "rollback"
  <2>1. CASE command.pc = "activate"
    BY <1>1, <2>1, Zenon
  <2>2. CASE command.pc # "activate"
    BY <1>1, <2>2, Zenon
  <2> QED
    BY <2>1, <2>2
<1>3. /\ policies' \in [Policies -> Policy] /\ policies'[p].route = route
      /\ \A q \in Policies : q # p => policies'[q] = policies[q]
  <2>1. route \in Routes /\ source \in Sources
    BY DEF Routes, Sources
  <2> QED
    BY <1>2, <2>1, InvTypes, PolicyWritten
<1>4. PICK pc \in {"note_quiesced", "note_activated", "note_policy_updated"} :
         /\ command' = [command EXCEPT !.revision = @ + 1, !.mutated = TRUE, !.pc = pc]
         /\ command.pc = "quiesce" => pc = "note_quiesced"
         /\ command.pc = "activate" => pc = "note_activated"
         /\ command.pc = "reroute" => pc = "note_policy_updated"
  <2>1. PICK pc \in {CASE command.pc = "quiesce" -> "note_quiesced"
                     [] command.pc = "activate" -> "note_activated"
                     [] command.pc = "reroute" -> "note_policy_updated"} :
           command' = [command EXCEPT !.revision = @ + 1, !.mutated = TRUE, !.pc = pc]
    BY Zenon DEF Update
  <2>2. /\ command.pc = "quiesce" => pc = "note_quiesced"
        /\ command.pc = "activate" => pc = "note_activated"
        /\ command.pc = "reroute" => pc = "note_policy_updated"
    BY SMT
  <2>3. pc \in {"note_quiesced", "note_activated", "note_policy_updated"}
    BY <1>1, <2>2
  <2> QED
    BY <2>1, <2>2, <2>3, Zenon
<1>5. pc \in Pcs
  BY DEF Pcs, Notes
<1>6. /\ command' \in LifecycleCommand /\ command'.pc = pc /\ command'.mutated
      /\ command'.policy = p /\ command'.kind = command.kind
      /\ command'.id = command.id /\ command'.previous = command.previous
  BY <1>1, <1>4, <1>5, InvTypes, CommandUpdates
<1>7. Personal(p)' <=> command.pc = "activate"
  BY <1>2, <1>3 DEF Personal
<1>8. OthersSame(p) /\ SameJournal(p)
  BY <1>1, <1>3 DEF OthersSame, SameJournal
<1>9. /\ StepInv(p)'
      /\ Personal(p)' => alias \in proven[p] /\ ~ Foreign(p)
  <2>1. CASE command.pc = "reroute"
    <3>1. command.kind = "rollback" /\ journal[p].op = "rollback" /\ journal[p].id = command.id
      BY <1>1, <2>1, RunningFacts DEF StepInv, RecoveringInv, Rerouting
    <3>2. StepInv(p)'
      BY <1>1, <1>4, <1>6, <2>1, <3>1, AtRerouting DEF Rerouting
    <3> QED
      BY <1>7, <2>1, <3>2
  <2>2. CASE command.pc \in {"quiesce", "activate"}
    <3>1. command.pc \in Uncommitted /\ command.pc \in Checked
          /\ (command.pc = "quiesce" => command.pc \in Backed)
          /\ (command.pc = "activate" => command.pc \in Published /\ command.pc \in Passed)
      BY <2>2, SMT DEF Uncommitted, Checked, Backed, Published, Passed
    <3>2. /\ BackupInv(p) /\ Candidate(command.id) \in pending[p] /\ ~ Foreign(p)
          /\ command.id \in Ids
      BY <1>1, <3>1, RunFacts
    <3>3. PICK i \in Ids, m \in {command.previous} : i = command.id
      BY <3>2
    <3>4. /\ Sole(p) /\ m \in proven[p] \cup {Missing}
          /\ tags[Previous(i)] = m /\ Previous(i) \notin pending[p]
          /\ command.pc = "quiesce" => alias = m /\ alias # i
          /\ command.pc = "activate" => alias = i /\ i \in proven[p]
      BY <2>2, <3>1, <3>2, <3>3 DEF BackupInv, BackupIs, Kept, Acceptable
    <3>5. Sole(p)'
      BY <1>8, <3>4, SoleStays
    <3>6. /\ pc \in Uncommitted /\ pc \notin Unmoved /\ pc # "discard"
          /\ pc \in Away => pc = "note_quiesced"
          /\ pc \notin Unbacked /\ pc # "copy" /\ pc # "commit"
          /\ pc \in Backed => pc = "note_quiesced"
          /\ pc \in Published => pc = "note_activated"
          /\ pc \in {"note_quiesced", "note_activated"}
      BY <1>4, <2>2, SMT DEF Uncommitted, Unmoved, Away, Unbacked, Backed, Published, Passed
    <3>7. BackupInv(p)'
      <4>1. command'.id = i /\ command'.previous = m /\ command'.pc = pc
        BY <1>6, <3>3
      <4>2. /\ pc = "note_quiesced" => command.pc = "quiesce"
            /\ pc = "note_activated" => command.pc = "activate"
        BY <1>4, <2>2
      <4>3. pc \notin Published => pc \notin Passed
        BY SMT DEF Published
      <4>4. alias' = alias /\ tags' = tags /\ pending' = pending /\ proven' = proven
        BY <1>1
      <4> QED
        BY <3>4, <3>5, <3>6, <4>1, <4>2, <4>3, <4>4 DEF BackupInv, BackupIs, Kept, Acceptable
    <3>8. UndoingInv(p)'
      BY <1>6, <3>6, SMT DEF UndoingInv
    <3>9. command'.pc \in Away => ~ Personal(p)'
      BY <1>4, <1>6, <1>7, <2>2, <3>6
    <3>10. StepInv(p)'
      BY <1>1, <1>6, <3>1, <3>2, <3>6, <3>7, <3>8, <3>9, RunsAt
    <3> QED
      BY <1>7, <3>2, <3>4, <3>10
  <2> QED
    BY <1>1, <2>1, <2>2
<1>10. CommandInv'
  <2>1. Foreign(p)' = Foreign(p) /\ pc # "idle"
    BY <1>1 DEF Foreign
  <2> QED
    BY <1>1, <1>6, <1>9, <2>1, RunningFacts, GoesOn
<1> QED
  BY <1>1, <1>3, <1>6, <1>8, <1>9, <1>10, RunningFacts, InvTypes, PolicyMove

LEMMA UpdateFailsKeeps ==
    ASSUME DeploymentInv, NEW p \in Policies, UpdateFails(p)
    PROVE  DeploymentInv'
<1>1. /\ command.policy = p /\ command.pc \in {"quiesce", "activate", "reroute"}
      /\ Trouble /\ Proceed(AfterFailure) /\ UNCHANGED <<alias, tags, files>>
  BY DEF UpdateFails
<1>2. command.pc \in Checked \cap (Uncommitted \ {"discard", "backup", "restore"})
         \/ command.pc \in Rerouting
  BY <1>1, SMT DEF Rerouting, Checked, Uncommitted, Backed, Published, Passed
<1> QED
  BY <1>1, <1>2, FailsWell

-----------------------------------------------------------------------------
\* The alias is replaced, or put back, while nothing entitles another policy to
\* it and what the journal would put back is acceptable.
LEMMA AliasMove ==
    ASSUME DeploymentInv, NEW p \in Policies, command.policy = p,
           UNCHANGED <<tags, files>>, Deploys(p), ~ Committed(p),
           alias' # alias => Sole(p) /\ Acceptable(p, journal[p].previous),
           alias' \in {journal[p].previous, journal[p].id},
           alias' = journal[p].id => journal[p].phase \in MayHavePublished,
           alias' = journal[p].id /\ Personal(p) => alias' = alias,
           alias' # journal[p].previous =>
              BackupIs(journal[p].id, journal[p].previous) /\ Kept(p, journal[p].id),
           command' \in LifecycleCommand, command'.id <= used,
           command'.previous <= used, Trouble \/ troubles' = troubles, CommandInv'
    PROVE  DeploymentInv'
<1>1. /\ tags' = tags /\ pending' = pending /\ transition' = transition /\ owner' = owner
      /\ journal' = journal /\ policies' = policies /\ states' = states /\ proven' = proven
      /\ used' = used
  BY DEF files
<1>2. OthersSame(p)
  BY <1>1 DEF OthersSame
<1>3. /\ Deploys(p)' = Deploys(p) /\ Undoable(p)' = Undoable(p) /\ Personal(p)' = Personal(p)
      /\ Foreign(p)' = Foreign(p) /\ Committed(p)' = Committed(p)
  BY <1>1 DEF Deploys, Undoable, Foreign, Committed, Personal
<1>4. JournalInv(p) /\ RouteInv(p) /\ UncommittedInv(p)
  BY RunningFacts, Zenon DEF JournalInv
<1>5. RouteInv(p)'
  <2>1. ~ Undoable(p)
    BY SMT DEF Undoable, Deploys
  <2>2. ASSUME Personal(p)
        PROVE  alias' \in proven[p] \/ alias' = Missing
    <3>1. CASE alias' = alias
      BY <1>4, <2>2, <3>1, Zenon DEF RouteInv
    <3>2. CASE alias' # alias
      BY <2>2, <3>2 DEF Acceptable
    <3> QED
      BY <3>1, <3>2
  <2> QED
    BY <1>1, <1>3, <1>4, <2>1, <2>2, Zenon DEF RouteInv
<1>6. JournalInv(p)'
  <2>1. alias' = journal[p].id => Sole(p)
    BY <1>4, Zenon DEF JournalInv
  <2>2. Sole(p) => Sole(p)'
    BY <1>2, SoleStays
  <2>3. UncommittedInv(p)'
    BY <1>1, <1>4, SMT DEF UncommittedInv, BackupIs, Kept, Acceptable
  <2> QED
    BY <1>1, <1>3, <1>4, <2>1, <2>2, <2>3, Zenon DEF JournalInv
<1>7. (alias' = alias /\ owner' = owner) \/ Sole(p)
  BY <1>1
<1>8. ASSUME NEW t \in Named(p)
      PROVE  t \in Named(p)'
  BY <1>1, NamedSame
<1>9. OwnerInv'
  BY <1>1, Zenon DEF DeploymentInv, FilesInv, OwnerInv
<1>10. ~ Deploys(p)' => journal'[p].old = 0
  BY <1>3
<1>11. /\ journal'[p].id <= used /\ journal'[p].old <= used /\ journal'[p].previous <= used
       /\ states'[p].deployed <= used /\ states'[p].previous <= used /\ alias' <= used
  BY <1>1, NumbersHeld
<1>12. alias' \in Models \cup {Missing}
  <2>1. journal[p].id \in Ids /\ Ids \subseteq Models
    BY <1>4, Numbers, Zenon DEF JournalInv
  <2>2. journal[p].previous \in Models \cup {Missing}
    BY NumbersHeld, Zenon DEF Journal
  <2> QED
    BY <2>1, <2>2
<1> QED
  BY <1>1, <1>2, <1>5, <1>6, <1>7, <1>8, <1>9, <1>10, <1>11, <1>12, InvTypes, FilesMove

\* To `restore', whatever the alias was before.
LEMMA AtRestore ==
    ASSUME DeploymentInv, NEW p \in Policies, command.policy = p,
           command.pc \in Uncommitted \ {"discard"}, Proceed("restore"),
           UNCHANGED <<tags, files>>, Sole(p), Acceptable(p, command.previous)
    PROVE  /\ CommandInv' /\ command' \in LifecycleCommand
           /\ command'.id <= used /\ command'.previous <= used
<1>1. /\ pending' = pending /\ transition' = transition /\ owner' = owner
      /\ journal' = journal /\ policies' = policies /\ states' = states /\ proven' = proven
  BY DEF files
<1>2. "restore" \in Pcs \ {"idle"}
  BY DEF Pcs
<1>3. command'.pc = "restore" /\ command'.previous = command.previous
  BY <1>2, CommandGoes, InvTypes
<1>4. Candidate(command.id) \in pending[p]
  BY RunFacts
<1>5. Sole(p)' /\ Acceptable(p, command.previous)'
  <2>1. Sole(p)'
    BY <1>1, SoleStays DEF OthersSame
  <2>2. command'.previous \in proven'[p] \cup {Missing}
    BY <1>1, <1>3 DEF Acceptable
  <2> QED
    BY <2>1, <2>2 DEF Acceptable
<1>6. BackupInv(p)'
  BY <1>3, <1>5, SMT DEF BackupInv, Unbacked, Backed, Published, Passed, Checked
<1>7. UndoingInv(p)'
  BY <1>3, SMT DEF UndoingInv
<1>8. StepInv(p)'
  BY <1>1, <1>4, <1>6, <1>7, RunsOn DEF Uncommitted, Undoing, Unmoved, Away
<1> QED
  BY <1>1, <1>2, <1>8, ProceedsWell

LEMMA PublishKeeps ==
    ASSUME DeploymentInv, NEW p \in Policies, Publish(p)
    PROVE  DeploymentInv'
<1>1. /\ command.policy = p /\ command.pc = "copy" /\ (Trouble \/ troubles' = troubles)
      /\ UNCHANGED <<tags, files>> /\ alias' \in {alias, command.id}
      /\ \/ alias' = command.id /\ Proceed("note_published")
         \/ Proceed("restore")
  BY DEF Publish, Doing
<1>2. /\ command.pc \in Uncommitted \ {"discard"} /\ command.pc \in Backed
      /\ command.pc \in Away /\ command.pc \in Checked
  BY <1>1 DEF Uncommitted, Backed, Away, Checked
<1>3. /\ Deploys(p) /\ ~ Committed(p) /\ journal[p].id = command.id /\ BackupInv(p)
      /\ journal[p].previous = command.previous /\ command.id \in Ids /\ ~ Personal(p)
      /\ Candidate(command.id) \in pending[p]
  BY <1>1, <1>2, RunFacts
<1>4. /\ Sole(p) /\ Acceptable(p, command.previous) /\ alias = command.previous
      /\ BackupIs(command.id, command.previous) /\ Kept(p, command.id)
      /\ journal[p].phase \in MayHavePublished
  BY <1>1, <1>2, <1>3, Zenon DEF BackupInv
<1>5. /\ CommandInv' /\ command' \in LifecycleCommand
      /\ command'.id <= used /\ command'.previous <= used
  <2>1. CASE Proceed("restore")
    BY <1>1, <1>2, <1>4, <2>1, AtRestore
  <2>2. CASE alias' = command.id /\ Proceed("note_published")
    <3>1. /\ pending' = pending /\ transition' = transition /\ owner' = owner /\ tags' = tags
          /\ journal' = journal /\ policies' = policies /\ states' = states /\ proven' = proven
      BY <1>1 DEF files
    <3>2. "note_published" \in Pcs \ {"idle"} /\ "note_published" \in Uncommitted
          /\ "note_published" \notin Unmoved
      BY DEF Pcs, Notes, Uncommitted, Published, Unmoved
    <3>3. PICK i \in Ids, m \in {command.previous} : i = command.id
      BY <1>3
    <3>4. /\ command'.pc = "note_published" /\ command'.id = i /\ command'.previous = m
      BY <2>2, <3>2, <3>3, CommandGoes, InvTypes
    <3>5. Sole(p)'
      BY <1>4, <3>1, SoleStays DEF OthersSame
    <3>6. /\ tags'[Previous(i)] = m /\ Previous(i) \notin pending'[p] /\ alias' = i
          /\ m \in proven'[p] \cup {Missing}
      BY <1>4, <2>2, <3>1, <3>3 DEF BackupIs, Kept, Acceptable
    <3>7. BackupInv(p)'
      BY <3>4, <3>5, <3>6, SMT DEF BackupInv, BackupIs, Kept, Unbacked, Backed, Published, Passed,
         Acceptable
    <3>8. UndoingInv(p)'
      BY <3>4, SMT DEF UndoingInv
    <3>9. StepInv(p)'
      BY <1>1, <1>2, <1>3, <2>2, <3>1, <3>2, <3>7, <3>8, RunsOn
    <3> QED
      BY <1>1, <2>2, <3>1, <3>2, <3>9, ProceedsWell
  <2> QED
    BY <1>1, <2>1, <2>2
<1>6. alias' \in {journal[p].previous, journal[p].id}
  BY <1>1, <1>3, <1>4
<1> QED
  BY <1>1, <1>3, <1>4, <1>5, <1>6, AliasMove

LEMMA CommandRestores ==
    ASSUME command \in LifecycleCommand, NEW pc \in Pcs, NEW b \in BOOLEAN,
           command' = [command EXCEPT !.pc = pc, !.restored = b]
    PROVE  /\ command' \in LifecycleCommand /\ command'.pc = pc /\ command'.restored = b
           /\ command'.policy = command.policy /\ command'.kind = command.kind
           /\ command'.id = command.id /\ command'.previous = command.previous
           /\ command'.mutated = command.mutated
<1>1. ASSUME NEW c \in LifecycleCommand
      PROVE  LET r == [c EXCEPT !.pc = pc, !.restored = b]
             IN  /\ r \in LifecycleCommand /\ r.pc = pc /\ r.restored = b
                 /\ r.policy = c.policy /\ r.kind = c.kind /\ r.id = c.id
                 /\ r.previous = c.previous /\ r.mutated = c.mutated
  BY Zenon DEF LifecycleCommand
<1> QED
  BY <1>1, Zenon

LEMMA RestoreAliasKeeps ==
    ASSUME DeploymentInv, NEW p \in Policies, RestoreAlias(p)
    PROVE  DeploymentInv'
<1>1. /\ command.policy = p /\ command.pc = "restore" /\ (Trouble \/ troubles' = troubles)
      /\ UNCHANGED <<tags, files>> /\ alias' \in {alias, command.previous}
  BY DEF RestoreAlias, Doing, ServerFails
<1>2. PICK b \in BOOLEAN :
         /\ command' = [command EXCEPT !.pc = "repolicy", !.restored = b]
         /\ b => alias' = command.previous
  BY Zenon DEF RestoreAlias
<1>3. command.pc \in Uncommitted /\ command.pc # "discard" /\ command.pc \in Checked
  BY <1>1 DEF Uncommitted, Undoing, Checked
<1>4. /\ Deploys(p) /\ ~ Committed(p) /\ journal[p].id = command.id /\ BackupInv(p)
      /\ journal[p].previous = command.previous /\ UncommittedInv(p)
      /\ Candidate(command.id) \in pending[p]
      /\ command.mutated \/ policies[p].route = journal[p].prior
  BY <1>1, <1>3, RunFacts
<1>5. Sole(p) /\ Acceptable(p, command.previous)
  BY <1>3, <1>4, Zenon DEF BackupInv
<1>6. "repolicy" \in Pcs /\ "repolicy" \in Uncommitted /\ "repolicy" \notin Unmoved
      /\ "repolicy" \notin Away
  BY DEF Pcs, Uncommitted, Undoing, Unmoved, Away
<1>7. /\ command' \in LifecycleCommand /\ command'.pc = "repolicy" /\ command'.restored = b
      /\ command'.policy = p /\ command'.kind = command.kind /\ command'.id = command.id
      /\ command'.previous = command.previous /\ command'.mutated = command.mutated
  BY <1>1, <1>2, <1>6, CommandRestores, InvTypes
<1>8. /\ pending' = pending /\ transition' = transition /\ owner' = owner /\ tags' = tags
      /\ journal' = journal /\ policies' = policies /\ states' = states /\ proven' = proven
  BY <1>1 DEF files
<1>9. BackupInv(p)'
  BY <1>7, SMT DEF BackupInv, Unbacked, Backed, Published, Passed, Checked
<1>10. UndoingInv(p)'
  <2>1. command'.restored => alias' = command'.previous
    BY <1>2, <1>7
  <2> QED
    BY <1>7, <2>1, SMT DEF UndoingInv
<1>11. StepInv(p)'
  <2>1. command'.mutated \/ policies'[p].route = journal[p].prior
    BY <1>4, <1>7, <1>8, Zenon
  <2> QED
    BY <1>1, <1>3, <1>4, <1>6, <1>7, <1>8, <1>9, <1>10, <2>1, RunsAt
<1>12. CommandInv'
  <2>1. Foreign(p)' = Foreign(p)
    BY <1>8 DEF Foreign
  <2> QED
    BY <1>1, <1>7, <1>8, <1>11, <2>1, RunningFacts, GoesOn
<1>13. /\ alias' \in {journal[p].previous, journal[p].id}
       /\ alias' = journal[p].id => alias' = alias /\ journal[p].phase \in MayHavePublished
       /\ alias' # journal[p].previous =>
             BackupIs(journal[p].id, journal[p].previous) /\ Kept(p, journal[p].id)
  <2>1. journal[p].previous # journal[p].id
    BY <1>4, Zenon DEF UncommittedInv
  <2> QED
    BY <1>1, <1>4, <2>1, Zenon DEF UncommittedInv
<1> QED
  BY <1>1, <1>4, <1>5, <1>7, <1>12, <1>13, RunningFacts, AliasMove

-----------------------------------------------------------------------------
\* A step that fails before the commit, with its files as they are.
LEMMA FailsToRestore ==
    ASSUME DeploymentInv, NEW p \in Policies, command.policy = p,
           command.pc \in Checked \cap (Uncommitted \ {"discard"}), Proceed("restore"),
           UNCHANGED <<alias, tags, files>>, Trouble \/ troubles' = troubles
    PROVE  DeploymentInv'
<1>1. /\ CommandInv' /\ command' \in LifecycleCommand
      /\ command'.id <= used /\ command'.previous <= used
  BY RunsToRestore
<1> QED
  BY <1>1, OnlyCommand

LEMMA FinalEvaluationKeeps ==
    ASSUME DeploymentInv, NEW p \in Policies, FinalEvaluation(p)
    PROVE  DeploymentInv'
<1>1. /\ command.policy = p /\ command.pc = "final"
      /\ UNCHANGED <<alias, tags, pending, transition, owner, journal, policies, states, used,
                     troubles>>
  BY DEF FinalEvaluation, Doing
<1>2. /\ command.pc \in Uncommitted \ {"discard"} /\ command.pc \in Checked
      /\ command.pc \in Published /\ command.pc \in Away
  BY <1>1 DEF Uncommitted, Checked, Published, Away
<1>3. CASE Proceed("restore") /\ UNCHANGED proven
  BY <1>1, <1>2, <1>3, FailsToRestore DEF files
<1>4. CASE Proceed("note_verified") /\ proven' = [proven EXCEPT ![p] = @ \cup {command.id}]
  <2>1. /\ Deploys(p) /\ ~ Committed(p) /\ journal[p].id = command.id /\ BackupInv(p)
        /\ journal[p].previous = command.previous /\ command.id \in Ids /\ ~ Personal(p)
        /\ Candidate(command.id) \in pending[p] /\ UncommittedInv(p)
    BY <1>1, <1>2, RunFacts
  <2>2. PICK i \in Ids, m \in {command.previous} : i = command.id
    BY <2>1
  <2>3. /\ Sole(p) /\ m \in proven[p] \cup {Missing} /\ alias = i
        /\ tags[Previous(i)] = m /\ Previous(i) \notin pending[p]
    BY <1>2, <2>1, <2>2 DEF BackupInv, BackupIs, Kept, Acceptable
  <2>4. /\ proven' \in [Policies -> SUBSET Models] /\ proven'[p] = proven[p] \cup {i}
        /\ \A q \in Policies : q # p => proven'[q] = proven[q]
        /\ \A q \in Policies : proven[q] \subseteq proven'[q]
    BY <1>4, <2>2, Numbers, InvTypes
  <2>5. OthersSame(p)
    BY <1>1, <2>4 DEF OthersSame
  <2>6. Sole(p)'
    BY <2>3, <2>5, SoleStays
  <2>7. OwnerInv'
    <3>1. OwnerInv
      BY DEF DeploymentInv, FilesInv
    <3>2. ASSUME NEW q \in Policies, owner.policy = q
          PROVE  owner.model \in proven'[q]
      BY <2>4, <3>1, <3>2 DEF OwnerInv
    <3> QED
      BY <1>1, <3>1, <3>2 DEF OwnerInv
  <2>8. JournalInv(p)'
    <3>1. JournalInv(p)
      BY <1>1, RunningFacts
    <3>2. UncommittedInv(p)'
      BY <1>1, <2>1, <2>4, SMT DEF UncommittedInv, BackupIs, Kept, Acceptable
    <3>3. /\ Deploys(p)' = Deploys(p) /\ Foreign(p)' = Foreign(p)
          /\ Committed(p)' = Committed(p)
      BY <1>1 DEF Deploys, Foreign, Committed
    <3> QED
      BY <1>1, <2>1, <2>6, <3>1, <3>2, <3>3, Zenon DEF JournalInv
  <2>9. RouteInv(p)'
    <3>1. ~ Personal(p)' /\ ~ Undoable(p)'
      BY <1>1, <2>1 DEF Personal, Undoable, Deploys
    <3> QED
      BY <3>1, Zenon DEF RouteInv
  <2>10. "note_verified" \in Pcs \ {"idle"} /\ "note_verified" \in Uncommitted
         /\ "note_verified" \notin Unmoved
    BY DEF Pcs, Notes, Uncommitted, Published, Passed, Unmoved
  <2>11. /\ command'.pc = "note_verified" /\ command'.id = i /\ command'.previous = m
    BY <1>4, <2>2, <2>10, CommandGoes, InvTypes
  <2>12. BackupInv(p)'
    <3>1. alias' = i /\ tags'[Previous(i)] = m /\ Previous(i) \notin pending'[p]
          /\ m \in proven'[p] \cup {Missing} /\ i \in proven'[p]
      BY <1>1, <2>3, <2>4
    <3> QED
      BY <2>6, <2>11, <3>1, SMT DEF BackupInv, BackupIs, Kept, Unbacked, Backed, Published, Passed,
         Acceptable
  <2>13. UndoingInv(p)'
    BY <2>11, SMT DEF UndoingInv
  <2>14. StepInv(p)'
    BY <1>1, <1>2, <1>4, <2>1, <2>10, <2>12, <2>13, RunsOn
  <2>15. /\ CommandInv' /\ command' \in LifecycleCommand
         /\ command'.id <= used /\ command'.previous <= used
    BY <1>1, <1>4, <2>10, <2>14, ProceedsWell
  <2>16. ASSUME NEW t \in Named(p)
         PROVE  t \in Named(p)'
    BY <1>1, NamedSame
  <2>17. ~ Deploys(p)' => journal'[p].old = 0
    BY <1>1, <2>1 DEF Deploys
  <2> QED
    BY <1>1, <2>4, <2>5, <2>7, <2>8, <2>9, <2>15, <2>16, <2>17, NumbersHeld, InvTypes, FilesMove
<1> QED
  BY <1>3, <1>4 DEF FinalEvaluation

LEMMA OldWritten ==
    ASSUME journal \in [Policies -> Journal], NEW p \in Policies, NEW n \in {0} \cup Ids,
           journal' = [journal EXCEPT ![p].old = n]
    PROVE  /\ journal' \in [Policies -> Journal]
           /\ journal'[p].op = journal[p].op /\ journal'[p].id = journal[p].id
           /\ journal'[p].phase = journal[p].phase /\ journal'[p].prior = journal[p].prior
           /\ journal'[p].previous = journal[p].previous /\ journal'[p].old = n
           /\ \A q \in Policies : q # p => journal'[q] = journal[q]
<1>1. ASSUME NEW j \in Journal
      PROVE  LET r == [j EXCEPT !.old = n]
             IN  /\ r \in Journal /\ r.op = j.op /\ r.id = j.id /\ r.prior = j.prior
                 /\ r.old = n /\ r.previous = j.previous /\ r.phase = j.phase
  BY Zenon DEF Journal
<1>2. journal[p] \in Journal
  OBVIOUS
<1>3. PICK j \in Journal : j = [journal[p] EXCEPT !.old = n]
  BY <1>1, <1>2, Zenon
<1>4. journal' = [journal EXCEPT ![p] = j]
  BY <1>3, Zenon
<1>5. /\ j.op = journal[p].op /\ j.id = journal[p].id /\ j.prior = journal[p].prior
      /\ j.old = n /\ j.previous = journal[p].previous
      /\ j.phase = journal[p].phase
  BY <1>1, <1>2, <1>3, Zenon
<1> QED
  BY <1>4, <1>5, JournalWritten

LEMMA SnapshotOldKeeps ==
    ASSUME DeploymentInv, NEW p \in Policies, SnapshotOld(p)
    PROVE  DeploymentInv'
<1>1. /\ command.policy = p /\ command.pc = "snapshot" /\ (Trouble \/ troubles' = troubles)
      /\ UNCHANGED <<alias, tags, pending, transition, owner, policies, states, proven, used>>
  BY DEF SnapshotOld, Doing
<1>2. /\ command.pc \in Uncommitted \ {"discard"} /\ command.pc \in Checked
      /\ command.pc \in Published /\ command.pc \in Passed
  BY <1>1 DEF Uncommitted, Checked, Published, Passed
<1>3. CASE Proceed("restore") /\ UNCHANGED journal
  BY <1>1, <1>2, <1>3, FailsToRestore DEF files
<1>4. CASE Proceed("commit") /\ journal' = [journal EXCEPT ![p].old = states[p].previous]
  <2>1. /\ Deploys(p) /\ ~ Committed(p) /\ journal[p].id = command.id /\ BackupInv(p)
        /\ journal[p].previous = command.previous /\ command.id \in Ids
        /\ Candidate(command.id) \in pending[p] /\ UncommittedInv(p)
        /\ command.mutated \/ policies[p].route = journal[p].prior
    BY <1>1, <1>2, RunFacts
  <2>2. PICK i \in Ids, m \in {command.previous} : i = command.id
    BY <2>1
  <2>3. /\ Sole(p) /\ m \in proven[p] \cup {Missing} /\ alias = i /\ i \in proven[p]
        /\ tags[Previous(i)] = m /\ Previous(i) \notin pending[p]
    BY <1>2, <2>1, <2>2 DEF BackupInv, BackupIs, Kept, Acceptable
  <2>4. PICK n \in {0} \cup Ids : n = states[p].previous
    BY NumbersHeld, Zenon DEF State
  <2>5. /\ journal' \in [Policies -> Journal]
        /\ journal'[p].op = journal[p].op /\ journal'[p].id = journal[p].id
        /\ journal'[p].phase = journal[p].phase /\ journal'[p].prior = journal[p].prior
        /\ journal'[p].previous = journal[p].previous /\ journal'[p].old = states[p].previous
        /\ \A q \in Policies : q # p => journal'[q] = journal[q]
    BY <1>4, <2>4, OldWritten, InvTypes
  <2>6. OthersSame(p)
    BY <1>1, <2>5 DEF OthersSame
  <2>7. Sole(p)'
    BY <2>3, <2>6, SoleStays
  <2>8. OwnerInv'
    BY <1>1, Zenon DEF DeploymentInv, FilesInv, OwnerInv
  <2>9. /\ Deploys(p)' = Deploys(p) /\ Foreign(p)' = Foreign(p) /\ Personal(p)' = Personal(p)
        /\ Committed(p)' = Committed(p) /\ Undoable(p)' = Undoable(p)
    BY <1>1, <2>5 DEF Deploys, Foreign, Committed, Personal, Undoable
  <2>10. JournalInv(p)'
    <3>1. JournalInv(p)
      BY <1>1, RunningFacts
    <3>2. UncommittedInv(p)'
      BY <1>1, <2>1, <2>5, SMT DEF UncommittedInv, BackupIs, Kept, Acceptable
    <3> QED
      BY <1>1, <2>1, <2>5, <2>7, <2>9, <3>1, <3>2, Zenon DEF JournalInv
  <2>11. RouteInv(p)'
    BY <1>1, <2>9, RunningFacts, Zenon DEF RouteInv
  <2>12. "commit" \in Pcs \ {"idle"} /\ "commit" \in Uncommitted
         /\ "commit" \notin Unmoved /\ "commit" \notin Away
    BY DEF Pcs, Notes, Uncommitted, Published, Passed, Unmoved, Away
  <2>13. /\ command'.pc = "commit" /\ command'.id = i /\ command'.previous = m
         /\ command'.kind = command.kind /\ command'.mutated = command.mutated
    BY <1>4, <2>2, <2>12, CommandGoes, InvTypes
  <2>14. BackupInv(p)'
    BY <1>1, <2>3, <2>5, <2>7, <2>13, SMT DEF BackupInv, BackupIs, Kept, Unbacked, Backed,
       Published, Passed, Acceptable
  <2>15. UndoingInv(p)'
    BY <2>13, SMT DEF UndoingInv
  <2>16. StepInv(p)'
    <3>1. command'.mutated \/ policies'[p].route = journal[p].prior
      BY <1>1, <2>1, <2>13, Zenon
    <3> QED
      BY <1>1, <1>2, <2>1, <2>2, <2>5, <2>12, <2>13, <2>14, <2>15, <3>1, RunsAt
  <2>17. /\ CommandInv' /\ command' \in LifecycleCommand
         /\ command'.id <= used /\ command'.previous <= used
    BY <1>1, <1>4, <2>12, <2>16, ProceedsWell
  <2>18. ASSUME NEW t \in Named(p)
         PROVE  t \in Named(p)'
    <3>1. journal[p].old \in {0, states[p].previous}
      BY <2>1 DEF UncommittedInv
    <3>2. \/ t \in pending[p]
          \/ \E j \in Ids : t = Previous(j) /\ j = states[p].previous
          \/ Deploys(p) /\ t \in {Candidate(journal[p].id), Previous(journal[p].id)}
      BY <3>1, NamedBy, Numbers
    <3> QED
      BY <1>1, <2>5, <2>9, <3>2, NamedByAfter
  <2>19. ~ Deploys(p)' => journal'[p].old = 0
    BY <2>1, <2>9
  <2>20. /\ journal'[p].id <= used /\ journal'[p].old <= used /\ journal'[p].previous <= used
         /\ states'[p].deployed <= used /\ states'[p].previous <= used /\ alias' <= used
    BY <1>1, <2>5, NumbersHeld
  <2> QED
    BY <1>1, <2>5, <2>6, <2>8, <2>10, <2>11, <2>17, <2>18, <2>19, <2>20, InvTypes, FilesMove
<1> QED
  BY <1>3, <1>4 DEF SnapshotOld

-----------------------------------------------------------------------------
LEMMA StateWritten ==
    ASSUME states \in [Policies -> State], NEW p \in Policies, NEW s \in State,
           states' = [states EXCEPT ![p] = s]
    PROVE  /\ states' \in [Policies -> State] /\ states'[p] = s
           /\ \A q \in Policies : q # p => states'[q] = states[q]
OBVIOUS

LEMMA CommandCommits ==
    ASSUME command \in LifecycleCommand, NEW pc \in Pcs,
           command' = [command EXCEPT !.pc = pc, !.mutated = FALSE]
    PROVE  /\ command' \in LifecycleCommand /\ command'.pc = pc
           /\ command'.mutated = FALSE /\ command'.settled = command.settled
           /\ command'.policy = command.policy /\ command'.kind = command.kind
           /\ command'.id = command.id /\ command'.previous = command.previous
<1>1. ASSUME NEW c \in LifecycleCommand
      PROVE  LET r == [c EXCEPT !.pc = pc, !.mutated = FALSE]
             IN  /\ r \in LifecycleCommand /\ r.pc = pc /\ r.mutated = FALSE
                 /\ r.settled = c.settled /\ r.policy = c.policy /\ r.kind = c.kind
                 /\ r.id = c.id /\ r.previous = c.previous
  BY Zenon DEF LifecycleCommand
<1> QED
  BY <1>1, Zenon

LEMMA CommitKeeps ==
    ASSUME DeploymentInv, NEW p \in Policies, Commit(p)
    PROVE  DeploymentInv'
<1>1. /\ command.policy = p /\ command.pc = "commit" /\ (Trouble \/ troubles' = troubles)
      /\ UNCHANGED <<alias, tags, pending, transition, owner, journal, policies, proven, used>>
  BY DEF Commit, Doing
<1>2. /\ command.pc \in Uncommitted \ {"discard"} /\ command.pc \in Checked
      /\ command.pc \in Published /\ command.pc \in Passed
  BY <1>1 DEF Uncommitted, Checked, Published, Passed
<1>3. CASE Proceed("restore") /\ UNCHANGED states
  BY <1>1, <1>2, <1>3, FailsToRestore DEF files
<1>4. CASE /\ states' = [states EXCEPT ![p] =
                [@ EXCEPT !.deployed = command.id,
                          !.revision = command.revision,
                          !.previous = IF command.previous = Missing THEN 0
                                       ELSE command.id]]
           /\ command' = [command EXCEPT !.pc = "own", !.mutated = FALSE]
  <2>1. /\ Deploys(p) /\ ~ Committed(p) /\ journal[p].id = command.id /\ BackupInv(p)
        /\ journal[p].previous = command.previous /\ command.id \in Ids
        /\ Candidate(command.id) \in pending[p] /\ UncommittedInv(p) /\ OwnJournal(p)
    BY <1>1, <1>2, RunFacts
  <2>2. PICK i \in Ids, m \in {command.previous} : i = command.id
    BY <2>1
  <2>3. /\ Sole(p) /\ alias = i /\ i \in proven[p]
        /\ tags[Previous(i)] = m /\ journal[p].old = states[p].previous
    BY <1>1, <1>2, <2>1, <2>2 DEF BackupInv, BackupIs, Kept, Acceptable
  <2>4. PICK n \in {0, i} : n = IF command.previous = Missing THEN 0 ELSE command.id
    BY <2>2
  <2>5. PICK v \in Nat : v = command.revision
    BY InvTypes, Zenon DEF LifecycleCommand
  <2>6. ASSUME NEW c \in State
        PROVE  LET r == [c EXCEPT !.deployed = i, !.revision = v, !.previous = n]
               IN  /\ r \in State /\ r.deployed = i /\ r.previous = n /\ r.witness = c.witness
    <3>1. i \in {0} \cup Ids /\ n \in {0} \cup Ids
      BY <2>2, <2>4
    <3> QED
      BY <3>1, Zenon DEF State
  <2>7. states[p] \in State
    BY InvTypes
  <2>8. PICK s \in State : /\ s = [states[p] EXCEPT !.deployed = i, !.revision = v, !.previous = n]
                           /\ s.deployed = i /\ s.previous = n /\ s.witness = states[p].witness
    BY <2>6, <2>7, Zenon
  <2>9. states' = [states EXCEPT ![p] = s]
    BY <1>4, <2>2, <2>4, <2>5, <2>8, Zenon
  <2>10. /\ states' \in [Policies -> State] /\ states'[p] = s
         /\ \A q \in Policies : q # p => states'[q] = states[q]
    BY <2>9, InvTypes, StateWritten
  <2>11. OthersSame(p)
    BY <1>1, <2>10 DEF OthersSame
  <2>12. Sole(p)'
    BY <2>3, <2>11, SoleStays
  <2>13. OwnerInv'
    BY <1>1, Zenon DEF DeploymentInv, FilesInv, OwnerInv
  <2>14. /\ Deploys(p)' /\ Foreign(p)' = Foreign(p) /\ Personal(p)' = Personal(p)
         /\ Committed(p)' /\ ~ Undoable(p)'
    BY <1>1, <2>1, <2>2, <2>8, <2>10 DEF Deploys, Foreign, Committed, Personal, Undoable
  <2>15. JournalInv(p)'
    <3>1. JournalInv(p)
      BY <1>1, RunningFacts
    <3>2. s.previous = i \/ tags[Previous(i)] = Missing
      BY <2>2, <2>3, <2>4, <2>8
    <3>3. CommittedInv(p)'
      BY <1>1, <2>1, <2>2, <2>3, <2>10, <3>2 DEF CommittedInv, BackupIs
    <3> QED
      BY <1>1, <2>1, <2>12, <2>14, <3>1, <3>3, Zenon DEF JournalInv
  <2>16. RouteInv(p)'
    BY <1>1, <2>1, <2>14, RunningFacts, Zenon DEF RouteInv
  <2>17. "own" \in Pcs
    BY DEF Pcs
  <2>18. /\ command' \in LifecycleCommand /\ command'.pc = "own" /\ command'.policy = p
         /\ command'.kind = command.kind /\ command'.id = i /\ command'.previous = m
    BY <1>1, <1>4, <2>2, <2>17, InvTypes, CommandCommits
  <2>19. OwnJournal(p)'
    BY <1>1, <2>1, <2>2, <2>18 DEF OwnJournal, Deploys
  <2>20. StepInv(p)'
    BY <2>14, <2>18, <2>19, SMT DEF StepInv, PreparingInv, RunningInv, BackupInv,
       UndoingInv, EndingInv, RecoveringInv, Preparing, Unbacked, Backed, Passed,
       Published, Undoing, Uncommitted, Unmoved, Away, Checked, Rerouting
  <2>21. CommandInv'
    BY <1>1, <2>14, <2>18, <2>20, RunningFacts, GoesOn
  <2>22. ASSUME NEW t \in Named(p)
         PROVE  t \in Named(p)'
    <3>1. \/ t \in pending[p]
          \/ \E j \in Ids : t = Previous(j) /\ j = journal[p].old
          \/ t \in {Candidate(journal[p].id), Previous(journal[p].id)}
      BY <2>3, NamedBy
    <3> QED
      BY <1>1, <2>14, <3>1, NamedByAfter
  <2>23. /\ journal'[p].id <= used /\ journal'[p].old <= used /\ journal'[p].previous <= used
         /\ states'[p].deployed <= used /\ states'[p].previous <= used /\ alias' <= used
         /\ command'.id <= used /\ command'.previous <= used
    <3>1. 0 <= used /\ i <= used
      BY <1>1, <2>2, InvTypes, DeploymentAssumption, RunningFacts
    <3> QED
      BY <1>1, <2>2, <2>4, <2>8, <2>10, <2>18, <3>1, NumbersHeld, RunningFacts
  <2> QED
    BY <1>1, <2>10, <2>11, <2>13, <2>14, <2>15, <2>16, <2>18, <2>21, <2>22, <2>23, InvTypes,
       FilesMove
<1> QED
  BY <1>3, <1>4 DEF Commit

\* The owner record follows what is committed.
LEMMA OwnerMove ==
    ASSUME DeploymentInv, NEW p \in Policies, command.policy = p,
           UNCHANGED <<alias, tags, pending, transition, journal, policies, states, proven, used>>,
           Deploys(p), Committed(p), owner' = [policy |-> p, model |-> journal[p].id],
           command' \in LifecycleCommand, command'.id <= used,
           command'.previous <= used, Trouble \/ troubles' = troubles, CommandInv'
    PROVE  DeploymentInv'
<1>1. JournalInv(p) /\ RouteInv(p)
  BY RunningFacts
<1>2. /\ alias = journal[p].id /\ journal[p].id \in proven[p] /\ journal[p].id \in Ids
      /\ Sole(p) /\ CommittedInv(p)
  BY <1>1, Zenon DEF JournalInv, CommittedInv
<1>3. OthersSame(p)
  BY DEF OthersSame
<1>4. Sole(p)'
  BY <1>2, <1>3, SoleStays
<1>5. owner'.policy = p /\ owner'.model = journal[p].id /\ owner' \in AliasOwner
  BY <1>2, Numbers DEF AliasOwner
<1>6. OwnerInv'
  BY <1>2, <1>5, Numbers DEF OwnerInv
<1>7. /\ Deploys(p)' /\ ~ Foreign(p)' /\ Personal(p)' = Personal(p)
      /\ Committed(p)' /\ ~ Undoable(p)'
  BY <1>5 DEF Deploys, Foreign, Committed, Personal, Undoable
<1>8. JournalInv(p)'
  <2>1. CommittedInv(p)'
    BY <1>2, SMT DEF CommittedInv, BackupIs
  <2> QED
    BY <1>1, <1>4, <1>7, <2>1, Zenon DEF JournalInv
<1>9. RouteInv(p)'
  BY <1>1, <1>7, Zenon DEF RouteInv
<1>10. ASSUME NEW t \in Named(p)
       PROVE  t \in Named(p)'
  BY NamedSame
<1>11. /\ journal'[p].id <= used /\ journal'[p].old <= used /\ journal'[p].previous <= used
       /\ states'[p].deployed <= used /\ states'[p].previous <= used /\ alias' <= used
  BY NumbersHeld
<1> QED
  BY <1>2, <1>3, <1>5, <1>6, <1>7, <1>8, <1>9, <1>10, <1>11, InvTypes, FilesMove

LEMMA WriteOwnerKeeps ==
    ASSUME DeploymentInv, NEW p \in Policies, WriteOwner(p)
    PROVE  DeploymentInv'
<1>1. /\ command.policy = p /\ command.pc = "own" /\ (Trouble \/ troubles' = troubles)
      /\ UNCHANGED <<alias, tags, pending, transition, journal, policies, states, proven, used>>
  BY DEF WriteOwner, Doing
<1>2. /\ OwnJournal(p) /\ Committed(p) /\ Deploys(p) /\ journal[p].id = command.id
      /\ command.id \in Ids
  BY <1>1, CommittedFacts
<1>3. "cleanup" \in Pcs \ {"idle"} /\ "retire" \in Pcs \ {"idle"}
  BY DEF Pcs
<1>4. CASE Proceed("cleanup") /\ UNCHANGED owner
  <2>1. StepInv(p)'
    BY <1>2, <1>3, <1>4, CommandGoes, InvTypes, AtCleanup
  <2>2. /\ CommandInv' /\ command' \in LifecycleCommand
        /\ command'.id <= used /\ command'.previous <= used
    BY <1>1, <1>3, <1>4, <2>1, ProceedsWell
  <2> QED
    BY <1>1, <1>4, <2>2, OnlyCommand DEF files
<1>5. CASE Proceed("retire") /\ owner' = [policy |-> p, model |-> command.id]
  <2>1. /\ command' \in LifecycleCommand /\ command'.pc = "retire" /\ command'.policy = p
        /\ command'.kind = command.kind /\ command'.id = command.id
        /\ command'.previous = command.previous
    BY <1>1, <1>3, <1>5, CommandGoes, InvTypes
  <2>2. OwnJournal(p)' /\ Committed(p)' /\ ~ Foreign(p)'
    BY <1>1, <1>2, <1>5, <2>1 DEF OwnJournal, Deploys, Committed, Foreign
  <2>3. StepInv(p)'
    BY <2>1, <2>2, SMT DEF StepInv, PreparingInv, RunningInv, BackupInv,
       UndoingInv, EndingInv, RecoveringInv, Preparing, Unbacked, Backed, Passed,
       Published, Undoing, Uncommitted, Unmoved, Away, Checked, Rerouting
  <2>4. CommandInv'
    BY <1>1, <2>1, <2>2, <2>3, RunningFacts, GoesOn
  <2> QED
    BY <1>1, <1>2, <1>5, <2>1, <2>4, RunningFacts, OwnerMove
<1> QED
  BY <1>4, <1>5 DEF WriteOwner

-----------------------------------------------------------------------------
\* Where a command goes after a journal is gone, its transition too or not.
LEMMA AfterClearGoes ==
    ASSUME DeploymentInv, NEW p \in Policies, command.policy = p,
           transition'.policy \in {p, NoPolicy}, owner' = owner,
           \/ AfterClear \/ End
           \/ Proceed("cleanup") /\ command.id # 0
           \/ Proceed("unclaim") /\ ~ Pending(p)'
    PROVE  /\ CommandInv' /\ command' \in LifecycleCommand
           /\ command'.id <= used /\ command'.previous <= used
<1>1. /\ "reconcile" \in Pcs \ {"idle"} /\ "cleanup" \in Pcs \ {"idle"}
      /\ "unclaim" \in Pcs \ {"idle"}
  BY DEF Pcs
<1>2. command.id \in {0} \cup Ids
  BY InvTypes, Zenon DEF LifecycleCommand
<1>3. ASSUME NEW pc \in Pcs \ {"idle"}, Proceed(pc), StepInv(p)'
      PROVE  /\ CommandInv' /\ command' \in LifecycleCommand
             /\ command'.id <= used /\ command'.previous <= used
  <2>1. /\ command' \in LifecycleCommand /\ command'.pc = pc /\ command'.policy = p
        /\ command'.kind = command.kind /\ command'.id = command.id
        /\ command'.previous = command.previous
    BY <1>3, CommandGoes, InvTypes
  <2>2. Foreign(p)' = Foreign(p)
    BY DEF Foreign
  <2> QED
    BY <1>3, <2>1, <2>2, RunningFacts, GoesOn
<1>4. CASE End
  BY <1>4, EndsNumbered
<1>5. CASE Proceed("reconcile")
  <2>1. StepInv(p)'
    BY <1>1, <1>5, CommandGoes, InvTypes, Anywhere
  <2> QED
    BY <1>1, <1>3, <1>5, <2>1
<1>6. CASE Proceed("cleanup") /\ command.id # 0
  <2>1. StepInv(p)'
    BY <1>1, <1>2, <1>6, CommandGoes, InvTypes, AtCleanup
  <2> QED
    BY <1>1, <1>3, <1>6, <2>1
<1>7. CASE Proceed("unclaim") /\ ~ Pending(p)'
  <2>1. command'.pc = "unclaim"
    BY <1>1, <1>7, CommandGoes, InvTypes
  <2>2. StepInv(p)'
    BY <1>7, <2>1, SMT DEF StepInv, PreparingInv, RunningInv, BackupInv,
       UndoingInv, EndingInv, RecoveringInv, Preparing, Unbacked, Backed, Passed,
       Published, Undoing, Uncommitted, Unmoved, Away, Checked, Rerouting
  <2> QED
    BY <1>1, <1>3, <1>7, <2>2
<1>8. AfterClear => End \/ Proceed("reconcile") \/ (Proceed("cleanup") /\ command.id # 0)
  BY Zenon DEF AfterClear
<1> QED
  BY <1>4, <1>5, <1>6, <1>7, <1>8

LEMMA MarkClearingKeeps ==
    ASSUME DeploymentInv, NEW p \in Policies, MarkClearing(p)
    PROVE  DeploymentInv'
<1>1. /\ command.policy = p /\ command.pc = "clear" /\ Deploys(p) /\ Proceed("finish")
      /\ transition' = [transition EXCEPT !.phase = "clearing"]
      /\ UNCHANGED <<alias, tags, pending, owner, journal, policies, states, proven, used,
                     troubles>>
  BY DEF MarkClearing, Doing, Deploys
<1>2. Cleared(p)
  BY <1>1, RunningFacts DEF StepInv, EndingInv
<1>3. transition' \in AliasTransition /\ transition'.policy = transition.policy
  BY <1>1, InvTypes, Zenon DEF AliasTransition
<1>4. "finish" \in Pcs
  BY DEF Pcs
<1>5. /\ command' \in LifecycleCommand /\ command'.pc = "finish" /\ command'.policy = p
      /\ command'.kind = command.kind /\ command'.id = command.id
      /\ command'.previous = command.previous
  BY <1>1, <1>4, CommandGoes, InvTypes
<1>6. Deploys(p)' /\ Cleared(p)' /\ Foreign(p)' = Foreign(p)
  <2>1. Sound(p)'
    BY <1>1, <1>2 DEF Cleared, Sound, Personal
  <2> QED
    BY <1>1, <1>2, <2>1 DEF Cleared, Deploys, Foreign
<1>7. StepInv(p)'
  BY <1>5, <1>6, SMT DEF StepInv, PreparingInv, RunningInv, BackupInv,
     UndoingInv, EndingInv, RecoveringInv, Preparing, Unbacked, Backed, Passed,
     Published, Undoing, Uncommitted, Unmoved, Away, Checked, Rerouting
<1>8. CommandInv'
  BY <1>1, <1>3, <1>5, <1>6, <1>7, RunningFacts, GoesOn
<1>9. \A q \in Policies : Deploys(q) => transition'.policy = q
  BY <1>3, Zenon DEF DeploymentInv, FilesInv, JournalInv
<1> QED
  BY <1>1, <1>3, <1>5, <1>8, <1>9, RunningFacts, InvTypes, DeploymentAssumption, TransitionMove

LEMMA ClearTransitionKeeps ==
    ASSUME DeploymentInv, NEW p \in Policies, ClearTransition(p)
    PROVE  DeploymentInv'
<1>1. /\ command.policy = p /\ command.pc = "unclaim" /\ transition' = NoTransition /\ AfterClear
      /\ UNCHANGED <<alias, tags, pending, owner, journal, policies, states, proven, used,
                     troubles>>
  BY DEF ClearTransition, Doing
<1>2. ~ Deploys(p)
  <2>1. ~ Pending(p)
    BY <1>1, RunningFacts DEF StepInv, EndingInv
  <2> QED
    BY <2>1, SMT DEF Pending, Deploys
<1>3. transition' \in AliasTransition /\ transition'.policy = NoPolicy
  BY <1>1 DEF NoTransition, AliasTransition
<1>4. /\ CommandInv' /\ command' \in LifecycleCommand
      /\ command'.id <= used /\ command'.previous <= used
  BY <1>1, <1>3, AfterClearGoes
<1>5. \A q \in Policies : Deploys(q) => transition'.policy = q
  BY <1>1, <1>2, OthersDoNotDeploy
<1> QED
  BY <1>1, <1>3, <1>4, <1>5, InvTypes, DeploymentAssumption, TransitionMove

LEMMA ClearFailsKeeps ==
    ASSUME DeploymentInv, NEW p \in Policies, ClearFails(p)
    PROVE  DeploymentInv'
<1>1. /\ command.policy = p /\ Trouble /\ UNCHANGED <<alias, tags, files>>
      /\ (Proceed("cleanup") /\ command.id # 0) \/ End
  BY DEF ClearFails
<1>2. transition' = transition /\ owner' = owner
  BY <1>1 DEF files
<1>3. /\ CommandInv' /\ command' \in LifecycleCommand
      /\ command'.id <= used /\ command'.previous <= used
  BY <1>1, <1>2, RunningFacts, AfterClearGoes
<1> QED
  BY <1>1, <1>3, OnlyCommand

\* The journal goes: what it entitled its policy to is there, or not needed.
LEMMA FinishTransitionKeeps ==
    ASSUME DeploymentInv, NEW p \in Policies, FinishTransition(p)
    PROVE  DeploymentInv'
<1>1. /\ command.policy = p /\ journal' = [journal EXCEPT ![p] = NoJournal]
      /\ UNCHANGED <<alias, tags, pending, transition, owner, policies, states, proven, used,
                     troubles>>
      /\ \/ command.pc = "finish" /\ Proceed("unclaim")
         \/ command.pc = "clear" /\ journal[p].op = "rollback" /\ AfterClear
  BY DEF FinishTransition, Doing
<1>2. NoJournal \in Journal
  BY DEF NoJournal, Journal, JournalPhases, Routes
<1>3. /\ journal' \in [Policies -> Journal] /\ journal'[p] = NoJournal
      /\ \A q \in Policies : q # p => journal'[q] = journal[q]
  BY <1>1, <1>2, InvTypes, JournalWritten
<1>4. OthersSame(p)
  BY <1>1, <1>3 DEF OthersSame
<1>5. ~ Pending(p)' /\ ~ Deploys(p)' /\ ~ Undoable(p)' /\ journal'[p].old = 0
      /\ journal'[p].id = 0 /\ journal'[p].previous = Missing
  BY <1>3 DEF Pending, Deploys, Undoable, NoJournal
<1>6. (Deploys(p) /\ Cleared(p)) \/ (journal[p].op = "rollback" /\ ~ Deploys(p))
  <2>1. CASE command.pc = "finish"
    BY <1>1, <2>1, RunningFacts DEF StepInv, EndingInv
  <2>2. CASE journal[p].op = "rollback"
    BY <2>2 DEF Deploys
  <2> QED
    BY <1>1, <2>1, <2>2
<1>7. RouteInv(p)'
  <2>1. Personal(p)' = Personal(p) /\ Foreign(p)' = Foreign(p)
    BY <1>1 DEF Personal, Foreign
  <2>2. Personal(p) => alias \in proven[p] /\ ~ Foreign(p)
    BY <1>1, <1>6, RunningFacts, Zenon DEF RouteInv, Cleared, Sound
  <2> QED
    BY <1>1, <1>5, <2>1, <2>2, Zenon DEF RouteInv
<1>8. JournalInv(p)'
  BY <1>5, Zenon DEF JournalInv
<1>9. OwnerInv'
  BY <1>1, Zenon DEF DeploymentInv, FilesInv, OwnerInv
<1>10. ASSUME NEW t \in Tag, t \in Named(p), tags[t] # Missing
       PROVE  t \in Named(p)'
  <2>1. ASSUME t \in pending[p] \/ \E j \in Ids : t = Previous(j) /\ j = states[p].previous
        PROVE  t \in Named(p)'
    BY <1>1, <2>1, NamedByAfter
  <2>2. CASE Deploys(p) /\ Cleared(p)
    <3>1. t = Candidate(journal[p].id) => t \in pending[p]
      BY <1>10, <2>2 DEF Cleared
    <3>2. t = Previous(journal[p].id) /\ states[p].previous # journal[p].id => t \in pending[p]
      BY <1>10, <2>2 DEF Cleared
    <3>3. journal[p].old # 0 /\ t = Previous(journal[p].old)
             /\ states[p].previous # journal[p].old => t \in pending[p]
      BY <1>10, <2>2 DEF Cleared
    <3>4. journal[p].id \in Ids /\ 0 \notin Ids
      BY <1>1, <2>2, RunningFacts, Numbers, Zenon DEF JournalInv
    <3> QED
      BY <1>10, <2>1, <3>1, <3>2, <3>3, <3>4, NamedBy
  <2>3. CASE ~ Deploys(p)
    <3>1. journal[p].old = 0 /\ 0 \notin Ids
      BY <2>3, NumbersHeld, Numbers
    <3> QED
      BY <1>10, <2>1, <2>3, <3>1, NamedBy
  <2> QED
    BY <1>6, <2>2, <2>3
<1>11. /\ CommandInv' /\ command' \in LifecycleCommand
       /\ command'.id <= used /\ command'.previous <= used
  BY <1>1, <1>5, RunningFacts, AfterClearGoes
<1>12. /\ journal'[p].id <= used /\ journal'[p].old <= used /\ journal'[p].previous <= used
       /\ states'[p].deployed <= used /\ states'[p].previous <= used /\ alias' <= used
  <2>1. 0 <= used /\ Missing <= used
    BY InvTypes, DeploymentAssumption, SMT DEF Missing
  <2> QED
    BY <1>1, <1>5, <2>1, NumbersHeld
<1> QED
  BY <1>1, <1>3, <1>4, <1>5, <1>7, <1>8, <1>9, <1>10, <1>11, <1>12, InvTypes, FilesMove

-----------------------------------------------------------------------------
LEMMA CommandUnsettles ==
    ASSUME command \in LifecycleCommand, NEW pc \in Pcs,
           command' = [command EXCEPT !.pc = pc, !.settled = FALSE]
    PROVE  /\ command' \in LifecycleCommand /\ command'.pc = pc
           /\ command'.settled = FALSE /\ command'.mutated = command.mutated
           /\ command'.policy = command.policy /\ command'.kind = command.kind
           /\ command'.id = command.id /\ command'.previous = command.previous
<1>1. ASSUME NEW c \in LifecycleCommand
      PROVE  LET r == [c EXCEPT !.pc = pc, !.settled = FALSE]
             IN  /\ r \in LifecycleCommand /\ r.pc = pc /\ r.settled = FALSE
                 /\ r.mutated = c.mutated /\ r.policy = c.policy /\ r.kind = c.kind
                 /\ r.id = c.id /\ r.previous = c.previous
  BY Zenon DEF LifecycleCommand
<1> QED
  BY <1>1, Zenon

\* The policy has its prior route and the alias its prior model, or the policy is
\* moved off an alias that could not be restored.
LEMMA RecoverPolicyKeeps ==
    ASSUME DeploymentInv, NEW p \in Policies, RecoverPolicy(p)
    PROVE  DeploymentInv'
<1>1. /\ command.policy = p /\ command.pc = "repolicy" /\ (Trouble \/ troubles' = troubles)
      /\ UNCHANGED <<alias, tags, pending, transition, owner, journal, states, proven, used>>
  BY DEF RecoverPolicy, Doing
<1>2. command.pc \in Uncommitted /\ command.pc # "discard"
  BY <1>1 DEF Uncommitted, Undoing
<1>3. /\ Deploys(p) /\ ~ Committed(p) /\ journal[p].id = command.id /\ ~ Foreign(p)
      /\ journal[p].previous = command.previous /\ UncommittedInv(p) /\ command.id \in Ids
      /\ Candidate(command.id) \in pending[p]
      /\ command.mutated \/ policies[p].route = journal[p].prior
  BY <1>1, <1>2, RunFacts
<1>4. command.restored => alias = command.previous
  BY <1>1, RunningFacts DEF StepInv, UndoingInv
<1>5. command.restored \in BOOLEAN /\ command.mutated \in BOOLEAN /\ command.settled \in BOOLEAN
      /\ command \in LifecycleCommand
  BY InvTypes, Zenon DEF LifecycleCommand
<1>6. journal[p].prior \in Routes /\ "rollback" \in Routes /\ "other" \in Sources
  BY NumbersHeld, Zenon DEF Journal, Routes, Sources
<1>7. PICK pc \in {"discard", "cleanup"} :
         pc = IF command.restored THEN "discard" ELSE "cleanup"
  OBVIOUS
<1>8. PICK target \in Routes :
         target = IF command.restored THEN journal[p].prior ELSE "rollback"
  BY <1>5, <1>6, Zenon
<1>9. pc \in Pcs /\ pc # "idle"
  BY DEF Pcs
\* What was written, and whether it was.
<1>10. /\ policies' = policies \/ Route(p, target, "other")
       /\ \/ /\ command' = [command EXCEPT !.pc = pc, !.mutated = FALSE]
             /\ policies' = policies => ~ (command.mutated /\ command.restored)
                                          \/ Route(p, target, "other")
          \/ /\ command' = [command EXCEPT !.pc = pc, !.settled = FALSE]
             /\ policies' = policies
  BY <1>7, <1>8, Zenon DEF RecoverPolicy
<1>11. /\ policies' \in [Policies -> Policy]
       /\ policies'[p].route \in {policies[p].route, target}
       /\ Route(p, target, "other") => policies'[p].route = target
       /\ \A q \in Policies : q # p => policies'[q] = policies[q]
  <2>1. CASE policies' = policies /\ ~ Route(p, target, "other")
    BY <2>1, InvTypes
  <2>2. CASE Route(p, target, "other")
    BY <1>6, <2>2, InvTypes, PolicyWritten
  <2> QED
    BY <1>10, <2>1, <2>2
<1>12. /\ command' \in LifecycleCommand /\ command'.pc = pc /\ command'.policy = p
       /\ command'.kind = command.kind /\ command'.id = command.id
       /\ command'.previous = command.previous
       /\ command'.settled /\ command.restored => policies'[p].route = journal[p].prior
  <2>1. CASE /\ command' = [command EXCEPT !.pc = pc, !.mutated = FALSE]
             /\ policies' = policies => ~ (command.mutated /\ command.restored)
                                          \/ Route(p, target, "other")
    <3>1. ASSUME command.restored
          PROVE  policies'[p].route = journal[p].prior
      <4>1. target = journal[p].prior
        BY <1>8, <3>1
      <4>2. CASE Route(p, target, "other")
        BY <1>11, <4>1, <4>2
      <4>3. CASE ~ Route(p, target, "other")
        <5>1. policies' = policies /\ ~ command.mutated
          BY <1>10, <2>1, <3>1, <4>3, Zenon
        <5> QED
          BY <1>3, <5>1, Zenon
      <4> QED
        BY <4>2, <4>3
    <3> QED
      BY <1>1, <1>5, <1>9, <2>1, <3>1, CommandCommits
  <2>2. CASE command' = [command EXCEPT !.pc = pc, !.settled = FALSE]
    <3>1. /\ command' \in LifecycleCommand /\ command'.pc = pc /\ command'.policy = p
          /\ command'.kind = command.kind /\ command'.id = command.id
          /\ command'.previous = command.previous /\ command'.settled = FALSE
      BY <1>1, <1>5, <1>9, <2>2, CommandUnsettles
    <3> QED
      BY <3>1, Zenon
  <2> QED
    BY <1>10, <2>1, <2>2
<1>13. OthersSame(p) /\ SameJournal(p)
  BY <1>1, <1>11 DEF OthersSame, SameJournal
<1>14. Personal(p)' => (alias \in proven[p] \/ (alias = Missing /\ Deploys(p))) /\ ~ Foreign(p)
  <2> SUFFICES ASSUME policies'[p].route = "personal"
               PROVE  alias \in proven[p] \/ alias = Missing
    BY <1>3 DEF Personal
  <2>1. CASE policies'[p].route = policies[p].route
    BY <1>1, <2>1, RunningFacts, Zenon DEF RouteInv, Personal
  <2>2. CASE policies'[p].route = target
    <3>1. command.restored /\ journal[p].prior = "personal"
      BY <1>8, <2>2
    <3>2. alias \in proven[p]
      BY <1>3, <1>4, <3>1 DEF UncommittedInv
    <3> QED
      BY <3>2
  <2> QED
    BY <1>11, <2>1, <2>2
<1>15. StepInv(p)'
  <2>1. CASE command.restored
    <3>1. pc = "discard" /\ "discard" \in Uncommitted /\ "discard" \notin Unmoved
          /\ "discard" \notin Away
      BY <1>7, <2>1 DEF Uncommitted, Undoing, Unmoved, Away
    <3>2. BackupInv(p)'
      BY <1>12, <3>1, SMT DEF BackupInv, Unbacked, Backed, Published, Passed, Checked
    <3>3. UndoingInv(p)'
      <4>1. alias' = command'.previous
        BY <1>1, <1>4, <1>12, <2>1
      <4>2. command'.settled => Sound(p)'
        <5>1. ASSUME policies'[p].route = journal[p].prior
              PROVE  Sound(p)'
          <6>1. journal[p].prior = "personal" => alias \in proven[p]
            BY <1>3, <1>4, <2>1 DEF UncommittedInv
          <6> QED
            BY <1>1, <5>1, <6>1 DEF Sound, Personal
        <5> QED
          BY <1>12, <2>1, <5>1, Zenon
      <4> QED
        BY <1>12, <3>1, <4>1, <4>2, Zenon DEF UndoingInv
    <3> QED
      BY <1>1, <1>2, <1>3, <1>12, <3>1, <3>2, <3>3, RunsAt
  <2>2. CASE ~ command.restored
    <3>1. pc = "cleanup"
      BY <1>7, <2>2
    <3> QED
      BY <1>3, <1>12, <3>1, AtCleanup
  <2> QED
    BY <1>5, <2>1, <2>2
<1>16. CommandInv'
  <2>1. Foreign(p)' = Foreign(p)
    BY <1>1 DEF Foreign
  <2> QED
    BY <1>1, <1>9, <1>12, <1>15, <2>1, RunningFacts, GoesOn
<1> QED
  BY <1>1, <1>11, <1>12, <1>13, <1>14, <1>16, RunningFacts, InvTypes, PolicyMove

LEMMA WriteWitnessKeeps ==
    ASSUME DeploymentInv, NEW p \in Policies, WriteWitness(p)
    PROVE  DeploymentInv'
<1>1. /\ command.policy = p /\ command.pc = "witness" /\ (Trouble \/ troubles' = troubles)
      /\ UNCHANGED <<alias, tags, pending, transition, owner, journal, policies, proven, used>>
  BY DEF WriteWitness, Doing
<1>2. command.kind = "rollback" /\ journal[p].op = "rollback" /\ journal[p].id = command.id
  BY <1>1, RunningFacts DEF StepInv, RecoveringInv, Rerouting
<1>3. "reconcile" \in Pcs \ {"idle"} /\ "note_committed" \in Pcs \ {"idle"}
  BY DEF Pcs, Notes
<1>4. CASE Proceed("reconcile") /\ UNCHANGED states
  <2>1. StepInv(p)'
    BY <1>3, <1>4, CommandGoes, InvTypes, Anywhere
  <2>2. /\ CommandInv' /\ command' \in LifecycleCommand
        /\ command'.id <= used /\ command'.previous <= used
    BY <1>1, <1>3, <1>4, <2>1, ProceedsWell
  <2> QED
    BY <1>1, <1>4, <2>2, OnlyCommand DEF files
<1>5. CASE /\ states' = [states EXCEPT ![p].witness = command.id,
                                      ![p].revision = command.revision]
           /\ Proceed("note_committed")
  <2>1. PICK i \in {0} \cup Ids, v \in Nat : i = command.id /\ v = command.revision
    BY InvTypes, Zenon DEF LifecycleCommand
  <2>2. ASSUME NEW c \in State
        PROVE  LET r == [c EXCEPT !.witness = i, !.revision = v]
               IN  /\ r \in State /\ r.deployed = c.deployed /\ r.previous = c.previous
                   /\ r.witness = i
    BY Zenon DEF State
  <2>3. states[p] \in State
    BY InvTypes
  <2>4. PICK s \in State : /\ s = [states[p] EXCEPT !.witness = i, !.revision = v]
                           /\ s.deployed = states[p].deployed /\ s.previous = states[p].previous
                           /\ s.witness = i
    BY <2>2, <2>3, Zenon
  <2>5. states' = [states EXCEPT ![p] = s]
    <3>1. states' = [states EXCEPT ![p].witness = i, ![p].revision = v]
      BY <1>5, <2>1, Zenon
    <3> QED
      BY <2>4, <3>1, InvTypes, Zenon
  <2>6. /\ states' \in [Policies -> State] /\ states'[p] = s
        /\ \A q \in Policies : q # p => states'[q] = states[q]
    BY <2>5, InvTypes, StateWritten
  <2>7. OthersSame(p)
    BY <1>1, <2>6 DEF OthersSame
  <2>8. ~ Deploys(p)' /\ ~ Undoable(p)' /\ Personal(p)' = Personal(p)
        /\ Foreign(p)' = Foreign(p) /\ ~ Deploys(p)
    BY <1>1, <1>2, <2>1, <2>4, <2>6 DEF Deploys, Undoable, Personal, Foreign
  <2>9. JournalInv(p)' /\ RouteInv(p)'
    BY <1>1, <2>8, RunningFacts, Zenon DEF JournalInv, RouteInv
  <2>10. OwnerInv'
    BY <1>1, Zenon DEF DeploymentInv, FilesInv, OwnerInv
  <2>11. command'.pc = "note_committed" /\ command'.kind = "rollback"
         /\ command'.id = command.id
    BY <1>2, <1>3, <1>5, CommandGoes, InvTypes
  <2>12. StepInv(p)'
    BY <1>1, <1>2, <2>11, AtRerouting DEF Rerouting
  <2>13. /\ CommandInv' /\ command' \in LifecycleCommand
         /\ command'.id <= used /\ command'.previous <= used
    BY <1>1, <1>3, <1>5, <2>12, ProceedsWell
  <2>14. ASSUME NEW t \in Named(p)
         PROVE  t \in Named(p)'
    BY <1>1, <2>4, <2>6, NamedSame
  <2>15. /\ journal'[p].id <= used /\ journal'[p].old <= used /\ journal'[p].previous <= used
         /\ states'[p].deployed <= used /\ states'[p].previous <= used /\ alias' <= used
         /\ journal'[p].old = 0
    BY <1>1, <2>4, <2>6, <2>8, NumbersHeld
  <2> QED
    BY <1>1, <2>6, <2>7, <2>9, <2>10, <2>13, <2>14, <2>15, InvTypes, FilesMove
<1> QED
  BY <1>4, <1>5 DEF WriteWitness

-----------------------------------------------------------------------------
\* A rollback that its witness does not commit is undone.
LEMMA RecoverRollbackKeeps ==
    ASSUME DeploymentInv, NEW p \in Policies, RecoverRollback(p)
    PROVE  DeploymentInv'
<1>1. /\ command.policy = p /\ command.pc = "reconcile" /\ journal[p].op = "rollback"
      /\ Proceed("clear")
      /\ UNCHANGED <<alias, tags, pending, transition, owner, states, proven, used, troubles>>
  BY DEF RecoverRollback, Doing
<1>2. "clear" \in Pcs \ {"idle"}
  BY DEF Pcs
<1>3. /\ command' \in LifecycleCommand /\ command'.pc = "clear" /\ command'.policy = p
      /\ command'.kind = command.kind /\ command'.id = command.id
      /\ command'.previous = command.previous
  BY <1>1, <1>2, CommandGoes, InvTypes
<1>4. ~ Deploys(p)
  BY <1>1 DEF Deploys
<1>5. ASSUME journal'[p].op = journal[p].op
      PROVE  CommandInv'
  <2>1. ~ Deploys(p)' /\ Foreign(p)' = Foreign(p)
    BY <1>1, <1>5 DEF Deploys, Foreign
  <2>2. StepInv(p)'
    BY <1>3, <2>1, AtClear
  <2> QED
    BY <1>1, <1>3, <2>1, <2>2, RunningFacts, GoesOn
<1>6. CASE UNCHANGED <<journal, policies>>
  <2>1. CommandInv'
    BY <1>5, <1>6
  <2> QED
    BY <1>1, <1>3, <1>6, <2>1, RunningFacts, OnlyCommand DEF files
<1>7. CASE /\ states[p].witness # journal[p].id
           /\ Route(p, journal[p].prior, "other")
           /\ journal' = [journal EXCEPT ![p].last = policies[p].revision + 1]
  <2>1. journal[p].prior \in Routes /\ "other" \in Sources
    BY NumbersHeld, Zenon DEF Journal, Sources
  <2>2. /\ policies' \in [Policies -> Policy] /\ policies'[p].route = journal[p].prior
        /\ \A q \in Policies : q # p => policies'[q] = policies[q]
    BY <1>7, <2>1, InvTypes, PolicyWritten
  <2>3. PICK n \in Nat : n = policies[p].revision + 1
    <3>1. policies[p].revision \in Nat
      BY NumbersHeld, Zenon DEF Policy
    <3> QED
      BY <3>1
  <2>4. /\ journal' \in [Policies -> Journal] /\ SameJournal(p)
        /\ \A q \in Policies : q # p => journal'[q] = journal[q]
    BY <1>7, <2>3, InvTypes, LastWritten
  <2>5. CommandInv'
    BY <1>5, <2>4 DEF SameJournal
  <2>6. Personal(p)' => alias \in proven[p] /\ ~ Foreign(p)
    <3>1. Personal(p)' => Undoable(p)
      BY <1>1, <1>7, <2>2 DEF Personal, Undoable
    <3> QED
      BY <1>1, <3>1, RunningFacts, Zenon DEF RouteInv
  <2> QED
    BY <1>1, <1>3, <2>2, <2>4, <2>5, <2>6, RunningFacts, PolicyMove
<1> QED
  BY <1>1, <1>6, <1>7 DEF RecoverRollback

LEMMA RecoverCommittedKeeps ==
    ASSUME DeploymentInv, NEW p \in Policies, RecoverCommitted(p)
    PROVE  DeploymentInv'
<1>1. /\ command.policy = p /\ command.pc = "reconcile" /\ Deploys(p) /\ Committed(p)
      /\ UNCHANGED <<alias, tags, pending, transition, states, proven, used>>
  BY DEF RecoverCommitted, RecoversDeployment, Doing, Deploys
<1>2. Trouble \/ troubles' = troubles
  BY DEF RecoverCommitted, ServerFails
<1>3. /\ alias = journal[p].id /\ journal[p].id \in proven[p]
  BY <1>1, RunningFacts, Zenon DEF JournalInv, CommittedInv
<1>4. CASE /\ owner' = [policy |-> p, model |-> journal[p].id]
           /\ Proceed("handoff") /\ UNCHANGED <<journal, policies>>
  <2>1. "handoff" \in Pcs \ {"idle"}
    BY DEF Pcs
  <2>2. /\ command' \in LifecycleCommand /\ command'.pc = "handoff" /\ command'.policy = p
        /\ command'.kind = command.kind /\ command'.id = command.id
        /\ command'.previous = command.previous
    BY <1>1, <1>4, <2>1, CommandGoes, InvTypes
  <2>3. Deploys(p)' /\ Sound(p)' /\ Committed(p)' /\ ~ Foreign(p)'
    BY <1>1, <1>3, <1>4 DEF Deploys, Sound, Committed, Foreign
  <2>4. StepInv(p)'
    BY <2>2, <2>3, SMT DEF StepInv, PreparingInv, RunningInv, BackupInv,
       UndoingInv, EndingInv, RecoveringInv, Preparing, Unbacked, Backed, Passed,
       Published, Undoing, Uncommitted, Unmoved, Away, Checked, Rerouting
  <2>5. CommandInv'
    BY <1>1, <2>2, <2>3, <2>4, RunningFacts, GoesOn
  <2> QED
    BY <1>1, <1>2, <1>4, <2>2, <2>5, RunningFacts, OwnerMove
<1>5. CASE End /\ UNCHANGED owner /\ UNCHANGED <<journal, policies>>
  BY <1>1, <1>2, <1>5, EndsNumbered, OnlyCommand DEF files
<1>6. CASE /\ End /\ UNCHANGED owner /\ Route(p, "rollback", "other")
           /\ journal' = [journal EXCEPT ![p].last = policies[p].revision + 1]
  <2>1. "rollback" \in Routes /\ "other" \in Sources
    BY DEF Routes, Sources
  <2>2. /\ policies' \in [Policies -> Policy] /\ policies'[p].route = "rollback"
        /\ \A q \in Policies : q # p => policies'[q] = policies[q]
    BY <1>6, <2>1, InvTypes, PolicyWritten
  <2>3. PICK n \in Nat : n = policies[p].revision + 1
    <3>1. policies[p].revision \in Nat
      BY NumbersHeld, Zenon DEF Policy
    <3> QED
      BY <3>1
  <2>4. /\ journal' \in [Policies -> Journal] /\ SameJournal(p)
        /\ \A q \in Policies : q # p => journal'[q] = journal[q]
    BY <1>6, <2>3, InvTypes, LastWritten
  <2>5. ~ Personal(p)'
    BY <2>2 DEF Personal
  <2> QED
    BY <1>1, <1>2, <1>6, <2>2, <2>4, <2>5, EndsNumbered, PolicyMove
<1> QED
  BY <1>4, <1>5, <1>6 DEF RecoverCommitted

LEMMA RecoverAliasKeeps ==
    ASSUME DeploymentInv, NEW p \in Policies, RecoverAlias(p)
    PROVE  DeploymentInv'
<1> DEFINE before == journal[p].previous
<1>1. /\ command.policy = p /\ command.pc = "reconcile" /\ Deploys(p) /\ ~ Committed(p)
      /\ UNCHANGED <<tags, files>> /\ (Trouble \/ troubles' = troubles)
  BY DEF RecoverAlias, RecoversDeployment, Doing, Deploys, ServerFails
<1>2. JournalInv(p) /\ UncommittedInv(p) /\ ~ Foreign(p)
  BY <1>1, RunningFacts, Zenon DEF JournalInv
<1>3. PICK b \in BOOLEAN :
         /\ command' = [command EXCEPT !.pc = "resettle", !.restored = b]
         /\ alias' \in {alias, IF journal[p].phase \in MayHavePublished /\ alias = journal[p].id
                               THEN before ELSE alias}
         /\ b => alias' = before
  <2>1. PICK put \in {IF journal[p].phase \in MayHavePublished /\ alias = journal[p].id
                      THEN before ELSE alias} :
            \/ /\ alias' = put
               /\ command' = [command EXCEPT !.pc = "resettle", !.restored = (put = before)]
            \/ /\ alias' \in {alias, put}
               /\ command' = [command EXCEPT !.pc = "resettle", !.restored = FALSE]
    BY Zenon DEF RecoverAlias
  <2>2. (put = before) \in BOOLEAN /\ FALSE \in BOOLEAN
    OBVIOUS
  <2>3. CASE /\ alias' = put
             /\ command' = [command EXCEPT !.pc = "resettle", !.restored = (put = before)]
    BY <2>2, <2>3, Zenon
  <2>4. CASE /\ alias' \in {alias, put}
             /\ command' = [command EXCEPT !.pc = "resettle", !.restored = FALSE]
    BY <2>2, <2>4, Zenon
  <2> QED
    BY <2>1, <2>3, <2>4
<1>4. "resettle" \in Pcs
  BY DEF Pcs
<1>5. /\ command' \in LifecycleCommand /\ command'.pc = "resettle" /\ command'.restored = b
      /\ command'.policy = p /\ command'.kind = command.kind /\ command'.id = command.id
      /\ command'.previous = command.previous
  BY <1>1, <1>3, <1>4, CommandRestores, InvTypes
<1>6. /\ journal' = journal /\ states' = states /\ transition' = transition /\ owner' = owner
  BY <1>1 DEF files
<1>7. StepInv(p)'
  <2>1. Deploys(p)' /\ ~ Committed(p)'
    BY <1>1, <1>6 DEF Deploys, Committed
  <2>2. command'.restored => alias' = journal'[p].previous
    BY <1>3, <1>5, <1>6
  <2> QED
    BY <1>5, <2>1, <2>2, SMT DEF StepInv, PreparingInv, RunningInv, BackupInv,
       UndoingInv, EndingInv, RecoveringInv, Preparing, Unbacked, Backed, Passed,
       Published, Undoing, Uncommitted, Unmoved, Away, Checked, Rerouting
<1>8. CommandInv'
  <2>1. Foreign(p)' = Foreign(p)
    BY <1>6 DEF Foreign
  <2> QED
    BY <1>1, <1>5, <1>6, <1>7, <2>1, RunningFacts, GoesOn
<1>9. alias' # alias =>
         /\ journal[p].phase \in MayHavePublished /\ alias = journal[p].id /\ alias' = before
  BY <1>3
<1>10. alias' # alias => Sole(p) /\ Acceptable(p, before)
  <2>1. alias' # alias => Sole(p)
    BY <1>1, <1>2, <1>9, Zenon DEF JournalInv
  <2>2. alias' # alias => Acceptable(p, before)
    BY <1>2, <1>9, Zenon DEF UncommittedInv
  <2> QED
    BY <2>1, <2>2
<1>11. alias' \in {before, journal[p].id} /\ before # journal[p].id
  BY <1>2, <1>9, Zenon DEF UncommittedInv
<1>12. alias' = journal[p].id => alias' = alias /\ journal[p].phase \in MayHavePublished
  BY <1>2, <1>9, <1>11, Zenon DEF UncommittedInv
<1>13. alias' # before => BackupIs(journal[p].id, before) /\ Kept(p, journal[p].id)
  BY <1>2, <1>9, Zenon DEF UncommittedInv
<1> QED
  BY <1>1, <1>5, <1>8, <1>10, <1>11, <1>12, <1>13, RunningFacts, AliasMove

LEMMA ResettleKeeps ==
    ASSUME DeploymentInv, NEW p \in Policies, Resettle(p)
    PROVE  DeploymentInv'
<1>1. /\ command.policy = p /\ command.pc = "resettle" /\ (Trouble \/ troubles' = troubles)
      /\ UNCHANGED <<alias, tags, pending, transition, owner, journal, states, proven, used>>
  BY DEF Resettle, Doing
<1>2. /\ Deploys(p) /\ ~ Committed(p) /\ (command.restored => alias = journal[p].previous)
      /\ JournalInv(p) /\ UncommittedInv(p) /\ ~ Foreign(p)
  BY <1>1, RunningFacts, Zenon DEF StepInv, RecoveringInv, JournalInv
<1>3. PICK target \in Routes :
         target = IF command.restored THEN journal[p].prior ELSE "rollback"
  <2>1. journal[p].prior \in Routes /\ "rollback" \in Routes
    BY NumbersHeld, Zenon DEF Journal, Routes
  <2> QED
    BY <2>1, Zenon
<1>4. "handoff" \in Pcs \ {"idle"} /\ "other" \in Sources
  BY DEF Pcs, Sources
<1>5. \/ End /\ UNCHANGED policies
      \/ /\ End \/ (Proceed("handoff") /\ command.restored)
         /\ policies[p].route = target /\ UNCHANGED policies
      \/ /\ End \/ (Proceed("handoff") /\ command.restored)
         /\ Route(p, target, "other")
  BY <1>3, Zenon DEF Resettle
<1>6. /\ policies' \in [Policies -> Policy]
      /\ policies'[p].route \in {policies[p].route, target}
      /\ \A q \in Policies : q # p => policies'[q] = policies[q]
      /\ Proceed("handoff") => End \/ policies'[p].route = target
  <2>1. CASE UNCHANGED policies
    BY <1>5, <2>1, InvTypes, PolicyWritten, <1>4
  <2>2. CASE Route(p, target, "other")
    BY <1>4, <2>2, InvTypes, PolicyWritten
  <2> QED
    BY <1>5, <2>1, <2>2
<1>7. Personal(p)' => (alias \in proven[p] \/ (alias = Missing /\ Deploys(p))) /\ ~ Foreign(p)
  <2> SUFFICES ASSUME policies'[p].route = "personal"
               PROVE  alias \in proven[p] \/ alias = Missing
    BY <1>2 DEF Personal
  <2>1. CASE policies'[p].route = policies[p].route
    BY <1>1, <2>1, RunningFacts, Zenon DEF RouteInv, Personal
  <2>2. CASE policies'[p].route = target
    <3>1. command.restored /\ journal[p].prior = "personal"
      BY <1>3, <2>2
    <3> QED
      BY <1>2, <3>1 DEF UncommittedInv
  <2> QED
    BY <1>6, <2>1, <2>2
<1>8. /\ CommandInv' /\ command' \in LifecycleCommand
      /\ command'.id <= used /\ command'.previous <= used
  <2>1. CASE End
    BY <2>1, EndsNumbered
  <2>2. CASE Proceed("handoff") /\ command.restored /\ ~ End
    <3>1. /\ command' \in LifecycleCommand /\ command'.pc = "handoff" /\ command'.policy = p
          /\ command'.kind = command.kind /\ command'.id = command.id
          /\ command'.previous = command.previous
      BY <1>1, <1>4, <2>2, CommandGoes, InvTypes
    <3>2. policies'[p].route = journal[p].prior
      BY <1>3, <1>6, <2>2
    <3>3. journal[p].prior = "personal" => alias \in proven[p]
      BY <1>2, <2>2 DEF UncommittedInv
    <3>4. Sound(p)'
      BY <1>1, <3>2, <3>3 DEF Sound, Personal
    <3>5. Deploys(p)' /\ alias' = journal'[p].previous /\ Foreign(p)' = Foreign(p)
      BY <1>1, <1>2, <2>2 DEF Deploys, Foreign
    <3>6. StepInv(p)'
      BY <3>1, <3>4, <3>5, SMT DEF StepInv, PreparingInv, RunningInv, BackupInv,
         UndoingInv, EndingInv, RecoveringInv, Preparing, Unbacked, Backed, Passed,
         Published, Undoing, Uncommitted, Unmoved, Away, Checked, Rerouting
    <3> QED
      BY <1>1, <3>1, <3>5, <3>6, RunningFacts, GoesOn
  <2> QED
    BY <1>5, <2>1, <2>2
<1>9. SameJournal(p)
  BY <1>1 DEF SameJournal
<1> QED
  BY <1>1, <1>6, <1>7, <1>8, <1>9, InvTypes, PolicyMove

-----------------------------------------------------------------------------
\* A user's update of a policy which has no journal.
LEMMA UserUpdateEntitles ==
    ASSUME NEW p \in Policies, NEW route \in Routes, route # "personal",
           ~ Pending(p), policies'[p].route = route,
           \A q \in Policies : q # p => policies'[q] = policies[q],
           journal' = journal, states' = states
    PROVE  /\ ~ Deploys(p) /\ ~ Personal(p)' /\ ~ Undoable(p)' /\ ~ Undoable(p)
           /\ \A q \in Policies : Sole(q) => Sole(q)'
<1>1. journal[p].op = "none" /\ journal'[p].op = "none"
  BY DEF Pending
<1>2. ~ Deploys(p) /\ ~ Undoable(p)' /\ ~ Undoable(p) /\ ~ Personal(p)'
  BY <1>1, SMT DEF Deploys, Undoable, Personal
<1>3. ASSUME NEW q \in Policies
      PROVE  Entitled(q)' => Entitled(q)
  <2>1. CASE q = p
    BY <1>2, <2>1, Zenon DEF Entitled
  <2>2. CASE q # p
    BY <2>2, Zenon DEF Entitled, Personal, Undoable
  <2> QED
    BY <2>1, <2>2
<1>4. ASSUME NEW q \in Policies, Sole(q)
      PROVE  Sole(q)'
  BY <1>3, <1>4, Zenon DEF Sole
<1> QED
  BY <1>2, <1>4

\* The step a running command is at asks nothing of it.
LEMMA UserUpdateSpares ==
    ASSUME DeploymentInv, NEW p \in Policies, ~ Deploys(p), ~ Pending(p),
           Sole(command.policy) => Sole(command.policy)',
           \A q \in Policies : q # p => policies'[q] = policies[q],
           UNCHANGED <<alias, tags, pending, transition, owner, journal, states, proven,
                       used, command>>
    PROVE  CommandInv'
<1>1. CommandInv
  BY DEF DeploymentInv
<1>2. CASE command.pc = "idle"
  BY <1>1, <1>2, Zenon DEF CommandInv
<1>3. CASE command.pc # "idle"
  <2>1. PICK c \in Policies : c = command.policy
    BY <1>1, <1>3, Zenon DEF CommandInv
  <2>2. /\ StepInv(c) /\ transition.policy \in {c, NoPolicy} /\ command.kind # "none"
        /\ command.kind = "deploy" => ~ Foreign(c)
    BY <2>1, RunningFacts
  <2>3. CASE c # p
    <3>1. policies'[c] = policies[c] /\ (Sole(c) => Sole(c)')
      BY <2>1, <2>3
    <3>2. /\ OwnJournal(c)' = OwnJournal(c) /\ Committed(c)' = Committed(c)
          /\ Deploys(c)' = Deploys(c) /\ Pending(c)' = Pending(c)
          /\ Cleared(c)' = Cleared(c) /\ Sound(c)' = Sound(c)
          /\ Personal(c)' = Personal(c)
      BY <3>1 DEF OwnJournal, Committed, Deploys, Pending, Cleared, Sound, Personal
    <3>3. PreparingInv(c)'
      BY <2>2, <3>2 DEF StepInv, PreparingInv, Unused, BackupIs, Kept
    <3>4. RunningInv(c)'
      BY <2>2, <3>1, <3>2 DEF StepInv, RunningInv
    <3>5. BackupInv(c)'
      BY <2>2, <3>1 DEF StepInv, BackupInv, BackupIs, Kept, Acceptable
    <3>6. UndoingInv(c)' /\ EndingInv(c)' /\ RecoveringInv(c)'
      BY <2>2, <3>2 DEF StepInv, UndoingInv, EndingInv, RecoveringInv
    <3>7. StepInv(c)'
      BY <3>3, <3>4, <3>5, <3>6 DEF StepInv
    <3> QED
      BY <1>3, <2>1, <2>2, <3>7, GoesOn DEF Foreign
  <2>4. CASE c = p
    <3>1. ~ OwnJournal(p) /\ ~ Deploys(p)' /\ ~ Pending(p)' /\ journal[p].op # "rollback"
      BY DEF OwnJournal, Deploys, Pending
    <3>2. command.pc \notin Uncommitted
      BY <2>2, <2>4, <3>1 DEF StepInv, RunningInv
    <3>3. PreparingInv(p)'
      BY <2>2, <2>4, <3>1 DEF StepInv, PreparingInv, Unused, BackupIs, Kept, Pending
    <3>4. RunningInv(p)' /\ BackupInv(p)' /\ UndoingInv(p)'
      BY <3>2, SMT DEF RunningInv, BackupInv, UndoingInv, Uncommitted, Unbacked,
         Backed, Published, Passed, Undoing, Checked
    <3>5. EndingInv(p)' /\ RecoveringInv(p)'
      BY <2>2, <2>4, <3>1, SMT DEF StepInv, EndingInv, RecoveringInv
    <3>6. StepInv(p)'
      BY <3>3, <3>4, <3>5 DEF StepInv
    <3> QED
      BY <1>3, <2>1, <2>2, <2>4, <3>6, GoesOn DEF Foreign
  <2> QED
    BY <2>3, <2>4
<1> QED
  BY <1>2, <1>3

LEMMA UserUpdateKeeps ==
    ASSUME DeploymentInv, NEW p \in Policies, NEW route \in Routes, UserUpdate(p, route)
    PROVE  DeploymentInv'
<1>1. /\ ~ Pending(p) /\ route # "personal" /\ Trouble /\ Route(p, route, "other")
      /\ UNCHANGED <<alias, tags, pending, transition, owner, journal, states, proven,
                     used, command>>
  BY DEF UserUpdate
<1>2. /\ policies' \in [Policies -> Policy] /\ policies'[p].route = route
      /\ \A q \in Policies : q # p => policies'[q] = policies[q]
  <2>1. "other" \in Sources
    BY DEF Sources
  <2> QED
    BY <1>1, <2>1, InvTypes, PolicyWritten
<1>3. /\ ~ Deploys(p) /\ ~ Personal(p)' /\ ~ Undoable(p)'
      /\ \A q \in Policies : Sole(q) => Sole(q)'
  BY <1>1, <1>2, UserUpdateEntitles
<1>4. DeploymentTypeOK'
  BY <1>1, <1>2, InvTypes, TroubleTyped DEF DeploymentTypeOK
<1>5. Numbered'
  BY <1>1, Zenon DEF DeploymentInv, Numbered, BackupIs, Kept, Deploys
<1>6. OwnerInv' /\ TagsAccounted'
  BY <1>1, Zenon DEF DeploymentInv, FilesInv, OwnerInv, TagsAccounted, Named
<1>7. ASSUME NEW q \in Policies
      PROVE  JournalInv(q)' /\ RouteInv(q)'
  <2>1. JournalInv(q) /\ RouteInv(q)
    BY DEF DeploymentInv, FilesInv
  <2>2. CASE q = p
    <3>1. ~ Deploys(p)'
      BY <1>1, <1>3 DEF Deploys
    <3> QED
      BY <1>3, <2>2, <3>1, Zenon DEF JournalInv, RouteInv
  <2>3. CASE q # p
    <3>1. /\ Deploys(q)' = Deploys(q) /\ Foreign(q)' = Foreign(q)
          /\ Committed(q)' = Committed(q) /\ Personal(q)' = Personal(q)
          /\ Undoable(q)' = Undoable(q) /\ CommittedInv(q)' = CommittedInv(q)
          /\ UncommittedInv(q)' = UncommittedInv(q)
      BY <1>1, <1>2, <2>3 DEF Deploys, Foreign, Committed, Personal, Undoable,
         CommittedInv, UncommittedInv, BackupIs, Kept, Acceptable
    <3> QED
      BY <1>1, <1>3, <2>1, <3>1 DEF JournalInv, RouteInv
  <2> QED
    BY <2>2, <2>3
<1>8. CommandInv'
  <2>1. CASE command.pc = "idle"
    BY <1>1, <2>1, Zenon DEF DeploymentInv, CommandInv
  <2>2. CASE command.pc # "idle"
    <3>1. command.policy \in Policies
      BY <2>2, Zenon DEF DeploymentInv, CommandInv
    <3>2. Sole(command.policy) => Sole(command.policy)'
      <4>1. PICK c \in Policies : c = command.policy
        BY <3>1
      <4>2. Sole(c) => Sole(c)'
        BY <1>3
      <4>3. command'.policy = c
        BY <1>1, <4>1
      <4> QED
        BY <4>1, <4>2, <4>3
    <3> QED
      BY <1>1, <1>2, <1>3, <3>2, UserUpdateSpares
  <2> QED
    BY <2>1, <2>2
<1> QED
  BY <1>4, <1>5, <1>6, <1>7, <1>8, Zenon DEF DeploymentInv, FilesInv

-----------------------------------------------------------------------------
\* An operator's step, while no command runs.
LEMMA IdleCommand ==
    ASSUME command = NoCommand, command' = command
    PROVE  CommandInv'
<1>1. command' = NoCommand /\ command'.pc = "idle"
  BY NoCommandTyped
<1> QED
  BY <1>1, Zenon DEF CommandInv

LEMMA AdoptLegacyKeeps ==
    ASSUME Careful, DeploymentInv, NEW p \in Policies, AdoptLegacy(p)
    PROVE  DeploymentInv'
<1>1. /\ command = NoCommand /\ Prepare(p) /\ alias # Missing
      /\ \A q \in Policies : ~ Pending(q) /\ (q # p => ~ Personal(q))
      /\ owner' = [policy |-> p, model |-> alias]
      /\ proven' = [proven EXCEPT ![p] = @ \cup {alias}]
      /\ UNCHANGED <<alias, tags, pending, journal, policies, states, used, command, troubles>>
  BY DEF AdoptLegacy, Recovered, Personal
<1>2. transition' \in AliasTransition
  BY <1>1, PreparedTransition
<1>3. alias \in Models
  BY <1>1, InvTypes
<1>4. owner' \in AliasOwner /\ owner'.policy = p /\ owner'.model = alias
  BY <1>1, <1>3 DEF AliasOwner
<1>5. /\ proven' \in [Policies -> SUBSET Models] /\ alias \in proven'[p]
      /\ \A q \in Policies : proven[q] \subseteq proven'[q]
  BY <1>1, <1>3, InvTypes
<1>6. DeploymentTypeOK'
  BY <1>1, <1>2, <1>4, <1>5, InvTypes DEF DeploymentTypeOK
<1>7. Numbered'
  BY <1>1, Zenon DEF DeploymentInv, Numbered, BackupIs, Kept, Deploys
<1>8. OwnerInv'
  BY <1>1, <1>4, <1>5, Numbers, Zenon DEF OwnerInv
<1>9. TagsAccounted'
  BY <1>1, Zenon DEF DeploymentInv, FilesInv, TagsAccounted, Named
<1>10. ASSUME NEW q \in Policies
       PROVE  JournalInv(q)' /\ RouteInv(q)'
  <2>1. journal'[q].op = "none"
    BY <1>1 DEF Pending
  <2>2. ~ Deploys(q)' /\ ~ Undoable(q)'
    BY <2>1, SMT DEF Deploys, Undoable
  <2>3. Personal(q)' => q = p
    BY <1>1 DEF Personal
  <2>4. Personal(q)' => alias' \in proven'[q] /\ ~ Foreign(q)'
    BY <1>1, <1>4, <1>5, <2>3 DEF Foreign
  <2> QED
    BY <2>2, <2>4, Zenon DEF JournalInv, RouteInv
<1>11. CommandInv'
  BY <1>1, IdleCommand
<1> QED
  BY <1>6, <1>7, <1>8, <1>9, <1>10, <1>11, Zenon DEF DeploymentInv, FilesInv

LEMMA ReleaseOwnerKeeps ==
    ASSUME Careful, DeploymentInv, NEW p \in Policies, ReleaseOwner(p)
    PROVE  DeploymentInv'
<1>1. /\ command = NoCommand /\ ~ Pending(p) /\ Prepare(p)
      /\ owner.policy = p /\ ~ Personal(p) /\ owner' = NoAliasOwner
      /\ UNCHANGED <<alias, tags, pending, journal, policies, states, proven, used, command,
                     troubles>>
  BY DEF ReleaseOwner, Recovered, Personal
<1>2. transition' \in AliasTransition
  BY <1>1, PreparedTransition
<1>3. owner' \in AliasOwner /\ owner'.policy = NoPolicy
  BY <1>1 DEF AliasOwner, NoAliasOwner, Models
<1>4. DeploymentTypeOK'
  BY <1>1, <1>2, <1>3, InvTypes DEF DeploymentTypeOK
<1>5. Numbered'
  BY <1>1, Zenon DEF DeploymentInv, Numbered, BackupIs, Kept, Deploys
<1>6. OwnerInv'
  BY <1>1, <1>3, Numbers DEF OwnerInv
<1>7. TagsAccounted'
  BY <1>1, Zenon DEF DeploymentInv, FilesInv, TagsAccounted, Named
<1>8. ASSUME NEW q \in Policies
      PROVE  ~ Deploys(q) /\ ~ Personal(q) /\ ~ Undoable(q)
  <2>1. CASE q = p
    <3>1. journal[p].op = "none"
      BY <1>1 DEF Pending
    <3>2. ~ Deploys(p) /\ ~ Undoable(p)
      BY <3>1, SMT DEF Deploys, Undoable
    <3> QED
      BY <1>1, <2>1, <3>2
  <2>2. CASE q # p
    <3>1. Foreign(q)
      BY <1>1, <2>2, Numbers DEF Foreign
    <3>2. JournalInv(q) /\ RouteInv(q)
      BY DEF DeploymentInv, FilesInv
    <3> QED
      BY <3>1, <3>2, Zenon DEF JournalInv, RouteInv
  <2> QED
    BY <2>1, <2>2
<1>9. ASSUME NEW q \in Policies
      PROVE  JournalInv(q)' /\ RouteInv(q)'
  <2>1. ~ Deploys(q)' /\ ~ Personal(q)' /\ ~ Undoable(q)'
    BY <1>1, <1>8, Zenon DEF Deploys, Personal, Undoable
  <2> QED
    BY <2>1, Zenon DEF JournalInv, RouteInv
<1>10. CommandInv'
  BY <1>1, IdleCommand
<1> QED
  BY <1>4, <1>5, <1>6, <1>7, <1>9, <1>10, Zenon DEF DeploymentInv, FilesInv

\* A new training state names no model of before, and the old one named none.
LEMMA StartTrainingKeeps ==
    ASSUME Careful, DeploymentInv, NEW p \in Policies, StartTraining(p)
    PROVE  DeploymentInv'
<1>1. /\ command = NoCommand /\ Prepare(p) /\ ~ Pending(p) /\ states[p].previous = 0
      /\ states' = [states EXCEPT ![p] = NewState]
      /\ UNCHANGED <<alias, tags, pending, owner, journal, policies, proven, used, command,
                     troubles>>
  BY DEF StartTraining
<1>2. /\ transition' \in AliasTransition
      /\ \A q \in Policies : Deploys(q) => transition'.policy = q
  BY <1>1, PreparedTransition
<1>3. NewState \in State /\ NewState.previous = 0 /\ NewState.deployed = 0
  BY DEF NewState, State
<1>4. /\ states' \in [Policies -> State] /\ states'[p] = NewState
      /\ \A q \in Policies : q # p => states'[q] = states[q]
  BY <1>1, <1>3, InvTypes, StateWritten
<1>5. DeploymentTypeOK'
  BY <1>1, <1>2, <1>4, InvTypes DEF DeploymentTypeOK
<1>6. Numbered'
  <2>1. Numbered /\ used \in Nat
    BY InvTypes, Numbers DEF DeploymentInv
  <2>2. ASSUME NEW q \in Policies
        PROVE  states'[q].deployed <= used /\ states'[q].previous <= used
    <3>1. CASE q = p
      BY <1>3, <1>4, <2>1, <3>1
    <3>2. CASE q # p
      BY <1>4, <2>1, <3>2 DEF Numbered
    <3> QED
      BY <3>1, <3>2
  <2> QED
    BY <1>1, <2>1, <2>2 DEF Numbered, BackupIs, Kept, Deploys
<1>7. OwnerInv'
  BY <1>1, Zenon DEF DeploymentInv, FilesInv, OwnerInv
<1>8. TagsAccounted'
  <2>1. ASSUME NEW q \in Policies, NEW t \in Named(q)
        PROVE  t \in Named(q)'
    <3>1. states'[q].previous = states[q].previous
      BY <1>1, <1>3, <1>4
    <3> QED
      BY <1>1, <2>1, <3>1, NamedSame
  <2>2. TagsAccounted
    BY DEF DeploymentInv, FilesInv
  <2>3. ASSUME NEW t \in Tag, tags'[t] # Missing
        PROVE  \E q \in Policies : t \in Named(q)'
    <3>1. PICK q \in Policies : t \in Named(q)
      BY <1>1, <2>2, <2>3, Zenon DEF TagsAccounted
    <3> QED
      BY <2>1, <3>1
  <2> QED
    BY <2>3, Zenon DEF TagsAccounted
<1>9. journal'[p].op = "none" /\ journal[p].op = "none"
  BY <1>1 DEF Pending
<1>10. ~ Deploys(p)' /\ ~ Undoable(p)'
  BY <1>9, SMT DEF Deploys, Undoable
<1>11. ASSUME NEW q \in Policies, Sole(q)
       PROVE  Sole(q)'
  <2>1. ASSUME NEW r \in Policies, Entitled(r)'
        PROVE  Entitled(r)
    <3>1. Personal(r)' = Personal(r)
      BY <1>1 DEF Personal
    <3>2. CASE r = p
      BY <1>10, <2>1, <3>1, <3>2, Zenon DEF Entitled
    <3>3. CASE r # p
      BY <1>1, <1>4, <2>1, <3>3, Zenon DEF Entitled, Personal, Undoable
    <3> QED
      BY <3>2, <3>3
  <2> QED
    BY <1>11, <2>1, Zenon DEF Sole
<1>12. ASSUME NEW q \in Policies
       PROVE  JournalInv(q)' /\ RouteInv(q)'
  <2>1. JournalInv(q) /\ RouteInv(q)
    BY DEF DeploymentInv, FilesInv
  <2>2. Personal(q)' = Personal(q) /\ Foreign(q)' = Foreign(q) /\ Deploys(q)' = Deploys(q)
    BY <1>1 DEF Personal, Foreign, Deploys
  <2>3. CASE q = p
    BY <1>1, <1>10, <2>1, <2>2, <2>3, Zenon DEF JournalInv, RouteInv
  <2>4. CASE q # p
    <3>1. /\ Committed(q)' = Committed(q) /\ Undoable(q)' = Undoable(q)
          /\ CommittedInv(q)' = CommittedInv(q)
          /\ UncommittedInv(q)' = UncommittedInv(q)
      BY <1>1, <1>4, <2>4 DEF Committed, Undoable, CommittedInv, UncommittedInv, BackupIs,
         Kept, Acceptable
    <3> QED
      BY <1>1, <1>2, <1>11, <2>1, <2>2, <3>1 DEF JournalInv, RouteInv
  <2> QED
    BY <2>3, <2>4
<1>13. CommandInv'
  BY <1>1, IdleCommand
<1> QED
  BY <1>5, <1>6, <1>7, <1>8, <1>12, <1>13, Zenon DEF DeploymentInv, FilesInv

LEMMA CommandDiesKeeps ==
    ASSUME DeploymentInv, CommandDies
    PROVE  DeploymentInv'
<1>1. End /\ Trouble /\ UNCHANGED <<alias, tags, files>>
  BY DEF CommandDies
<1> QED
  BY <1>1, EndsNumbered, OnlyCommand

-----------------------------------------------------------------------------
LEMMA DeploymentStarts ==
    ASSUME DeploymentInit
    PROVE  DeploymentInv
<1>1. /\ alias \in {Missing, Legacy} /\ tags = [t \in Tag |-> Missing]
      /\ pending = [p \in Policies |-> {}] /\ transition = NoTransition
      /\ owner = NoAliasOwner /\ journal = [p \in Policies |-> NoJournal]
      /\ states = [p \in Policies |-> NewState] /\ proven = [p \in Policies |-> {Legacy}]
      /\ used = 0 /\ command = NoCommand /\ troubles = 0
  BY DEF DeploymentInit
<1>2. PICK legacy \in SUBSET Policies :
        /\ legacy # {} => alias = Legacy
        /\ policies = [p \in Policies |->
              [route |-> IF p \in legacy THEN "personal" ELSE "user",
               revision |-> 0, source |-> "other"]]
  BY DEF DeploymentInit
<1>3. /\ NoJournal \in Journal /\ NoJournal.op = "none" /\ NoJournal.id = 0
      /\ NoJournal.old = 0 /\ NoJournal.previous = Missing
  BY DEF NoJournal, Journal, JournalPhases, Routes
<1>4. NewState \in State /\ NewState.deployed = 0 /\ NewState.previous = 0
  BY DEF NewState, State
<1>5. /\ NoTransition \in AliasTransition /\ NoAliasOwner \in AliasOwner
      /\ NoAliasOwner.policy = NoPolicy
  BY DEF NoTransition, AliasTransition, NoAliasOwner, AliasOwner, Models
<1>6. ASSUME NEW p \in Policies
      PROVE  /\ policies[p] \in Policy
             /\ policies[p].route = "personal" => alias = Legacy
  BY <1>2 DEF Policy, Routes, Sources
<1>7. policies \in [Policies -> Policy]
  BY <1>2, <1>6
<1>8. Legacy \in Models /\ used \in 0..MaxIds /\ troubles \in 0..MaxTroubles
  BY <1>1, Numbers DEF Models
<1>9. DeploymentTypeOK
  <2>1. alias \in Models \cup {Missing} /\ tags \in [Tag -> Models \cup {Missing}]
    BY <1>1, <1>8
  <2>2. pending \in [Policies -> SUBSET Tag] /\ journal \in [Policies -> Journal]
    BY <1>1, <1>3
  <2>3. states \in [Policies -> State] /\ proven \in [Policies -> SUBSET Models]
    BY <1>1, <1>4, <1>8
  <2> QED
    BY <1>1, <1>5, <1>7, <1>8, <2>1, <2>2, <2>3, NoCommandTyped DEF DeploymentTypeOK
<1>10. Numbered
  <2>1. alias <= used /\ Missing <= used
    BY <1>1, SMT DEF Missing, Legacy
  <2>2. command.id <= used /\ command.previous <= used
    BY <1>1, <2>1, NoCommandTyped
  <2>3. ASSUME NEW p \in Policies
        PROVE  /\ states[p].deployed <= used /\ states[p].previous <= used
               /\ journal[p].id <= used /\ journal[p].old <= used
               /\ journal[p].previous <= used /\ journal[p].old = 0
    BY <1>1, <1>3, <1>4, <2>1
  <2>4. ASSUME NEW i \in Ids
        PROVE  BackupIs(i, Missing) /\ \A p \in Policies : Kept(p, i)
    BY <1>1, TagNames DEF BackupIs, Kept
  <2> QED
    BY <2>1, <2>2, <2>3, <2>4, Zenon DEF Numbered
<1>11. OwnerInv /\ TagsAccounted
  BY <1>1, <1>5, Numbers DEF OwnerInv, TagsAccounted
<1>12. ASSUME NEW p \in Policies
       PROVE  JournalInv(p) /\ RouteInv(p)
  <2>1. journal[p].op = "none"
    BY <1>1, <1>3
  <2>2. ~ Deploys(p) /\ ~ Undoable(p)
    BY <2>1, SMT DEF Deploys, Undoable
  <2>3. Personal(p) => alias \in proven[p] /\ ~ Foreign(p)
    BY <1>1, <1>5, <1>6 DEF Personal, Foreign
  <2> QED
    BY <2>2, <2>3, Zenon DEF JournalInv, RouteInv
<1>13. CommandInv
  BY <1>1, NoCommandTyped, Zenon DEF CommandInv
<1> QED
  BY <1>9, <1>10, <1>11, <1>12, <1>13, Zenon DEF DeploymentInv, FilesInv

LEMMA DeploymentRests ==
    ASSUME DeploymentInv, UNCHANGED deploymentVars
    PROVE  DeploymentInv'
<1>1. /\ UNCHANGED <<alias, tags, files>> /\ command' = command /\ troubles' = troubles
      /\ transition' = transition /\ owner' = owner
  BY DEF deploymentVars, files
<1>2. CommandInv'
  <2>1. CASE command.pc = "idle"
    BY <1>1, <2>1, Zenon DEF DeploymentInv, CommandInv
  <2>2. CASE command.pc # "idle"
    <3>1. PICK c \in Policies : c = command.policy
      BY <2>2, Zenon DEF DeploymentInv, CommandInv
    <3>2. /\ StepInv(c) /\ transition.policy \in {c, NoPolicy} /\ command.kind # "none"
          /\ command.kind = "deploy" => ~ Foreign(c)
      BY <3>1, RunningFacts
    <3>3. /\ alias' = alias /\ tags' = tags /\ pending' = pending
          /\ journal' = journal /\ policies' = policies /\ states' = states
          /\ proven' = proven
      BY <1>1 DEF files
    <3>4. /\ PreparingInv(c)' = PreparingInv(c) /\ RunningInv(c)' = RunningInv(c)
          /\ EndingInv(c)' = EndingInv(c)
      BY <1>1, <3>3 DEF PreparingInv, RunningInv, EndingInv, Unused, BackupIs, Kept,
         OwnJournal, Deploys, Pending, Committed, Cleared, Sound, Personal
    <3>5. /\ BackupInv(c)' = BackupInv(c) /\ UndoingInv(c)' = UndoingInv(c)
          /\ RecoveringInv(c)' = RecoveringInv(c)
      BY <1>1, <3>3 DEF BackupInv, UndoingInv, RecoveringInv, BackupIs, Kept,
         Acceptable, Sole, Entitled, Personal, Undoable, Deploys, Committed, Sound
    <3>6. StepInv(c)'
      BY <3>2, <3>4, <3>5 DEF StepInv
    <3> QED
      BY <1>1, <2>2, <3>1, <3>2, <3>6, GoesOn DEF Foreign
  <2> QED
    BY <2>1, <2>2
<1>3. command \in LifecycleCommand /\ command.id <= used /\ command.previous <= used
  BY InvTypes DEF DeploymentInv, Numbered
<1> QED
  BY <1>1, <1>2, <1>3, OnlyCommand

LEMMA CommandStepKeeps ==
    ASSUME DeploymentInv, NEW p \in Policies, CommandStep(p)
    PROVE  DeploymentInv'
BY CleanLedgerKeeps, BeginTransitionKeeps, RecordCandidateKeeps, CreateCandidateKeeps,
   EvaluateKeeps, ReserveKeeps, AdvanceTransitionKeeps, CheckOwnerKeeps, BackUpKeeps,
   AdvanceJournalKeeps, UpdateKeeps, UpdateFailsKeeps, PublishKeeps, FinalEvaluationKeeps,
   SnapshotOldKeeps, CommitKeeps, WriteOwnerKeeps, RetireOldKeeps, MarkClearingKeeps,
   FinishTransitionKeeps, ClearTransitionKeeps, ClearFailsKeeps, RemoveCandidateKeeps,
   ForgetCandidateKeeps, RestoreAliasKeeps, RecoverPolicyKeeps, DiscardBackupKeeps,
   WriteWitnessKeeps, RecoverRollbackKeeps, RecoverCommittedKeeps, RecoverAliasKeeps,
   ResettleKeeps, HandOffKeeps, Zenon DEF CommandStep

LEMMA DeploymentSteps ==
    ASSUME Careful, DeploymentInv, [DeploymentNext]_deploymentVars
    PROVE  DeploymentInv'
<1>1. CASE UNCHANGED deploymentVars
  BY <1>1, DeploymentRests
<1>2. CASE CommandDies
  BY <1>2, CommandDiesKeeps
<1>3. ASSUME NEW p \in Policies,
             \/ CommandStep(p)
             \/ \E kind \in {"deploy", "rollback"} : StartCommand(p, kind)
             \/ \E route \in Routes : UserUpdate(p, route)
             \/ AdoptLegacy(p) \/ ReleaseOwner(p) \/ StartTraining(p)
      PROVE  DeploymentInv'
  BY <1>3, CommandStepKeeps, StartCommandKeeps, UserUpdateKeeps, AdoptLegacyKeeps,
     ReleaseOwnerKeeps, StartTrainingKeeps, Zenon
<1> QED
  BY <1>1, <1>2, <1>3, Zenon DEF DeploymentNext

LEMMA DeploymentShows ==
    ASSUME DeploymentInv
    PROVE  RoutedValidated /\ ModelsAccounted
<1>1. /\ DeploymentTypeOK /\ TagsAccounted
      /\ \A p \in Policies : JournalInv(p) /\ RouteInv(p)
  BY DEF DeploymentInv, FilesInv
<1>2. RoutedValidated
  BY <1>1, Zenon DEF RoutedValidated, RouteInv, Personal, Deploys
<1>3. PreviousKept
  <2> SUFFICES ASSUME NEW p \in Policies, Deploys(p), ~ Committed(p)
               PROVE  journal[p].previous \in {alias, tags[Previous(journal[p].id)]}
    BY Zenon DEF PreviousKept, Deploys
  <2>1. UncommittedInv(p)
    BY <1>1, Zenon DEF JournalInv
  <2> QED
    BY <2>1, Zenon DEF UncommittedInv, BackupIs
<1> QED
  BY <1>1, <1>2, <1>3 DEF ModelsAccounted

\* Whatever commands run, fail, die and are recovered, in whatever order with
\* the updates of users, a policy routes to the personal alias only while it
\* names a model that the policy's checks passed, and no other policy owns it
\* (adaptive_training.py: _deploy_locked, _reconcile_pending_deployment).
THEOREM RoutesStayValidated ==
    ASSUME Careful PROVE DeploymentSpec => []RoutedValidated
<1>1. DeploymentInit => DeploymentInv
  BY DeploymentStarts
<1>2. DeploymentInv /\ [DeploymentNext]_deploymentVars => DeploymentInv'
  BY DeploymentSteps
<1>3. DeploymentInv => RoutedValidated
  BY DeploymentShows
<1> QED
  BY <1>1, <1>2, <1>3, PTL DEF DeploymentSpec

\* The model a deployment replaces is under the alias or its backup tag until
\* the deployment is committed, and every temporary tag of the model server is
\* named by some file of a policy.
THEOREM ModelsStayAccounted ==
    ASSUME Careful PROVE DeploymentSpec => []ModelsAccounted
<1>1. DeploymentInit => DeploymentInv
  BY DeploymentStarts
<1>2. DeploymentInv /\ [DeploymentNext]_deploymentVars => DeploymentInv'
  BY DeploymentSteps
<1>3. DeploymentInv => ModelsAccounted
  BY DeploymentShows
<1> QED
  BY <1>1, <1>2, <1>3, PTL DEF DeploymentSpec
=============================================================================
