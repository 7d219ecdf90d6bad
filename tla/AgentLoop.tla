------------------------------ MODULE AgentLoop ------------------------------
(***************************************************************************)
(* One run of the tool-using agent (_agent_impl of server.py).  The model  *)
(* chooses a tool call or a final answer, in any order; the host decides   *)
(* which calls run, what they prove, and when an answer may be final.      *)
(* What a call finds is open; what the host concludes from it is not.      *)
(***************************************************************************)
EXTENDS Naturals, FiniteSets

CONSTANTS
    Paths,       \* files and folders of the workspace
    Documents,   \* those a reading can validate
    NoPath,
    MaxSteps     \* max_steps

ASSUME AgentAssumption ==
    Documents \subseteq Paths /\ NoPath \notin Paths /\ MaxSteps \in Nat \ {0}

VARIABLES
    task,        \* the options of the run
    step,
    phase,       \* the tool-step loop or the finalization loop
    used,        \* tools that succeeded
    evidence,    \* file_evidence
    inspected,
    changed,     \* mutations, by path
    mutated, attempted, validated,
    failures,    \* failed_call_counts
    webDone,     \* successful_web_calls
    reviews,     \* claim_review_requests
    boxes,       \* the persistent checklist
    outcome,     \* what the run returned
    passed,      \* history: checks that passed since the files changed
    hidden,      \* history: a call that failed had changed files
    tries        \* history: failed executions of a call since it could recover

agentVars == <<task, step, phase, used, evidence, inspected, changed, mutated,
               attempted, validated, failures, webDone, reviews, boxes, outcome,
               passed, hidden, tries>>

flags == <<used, evidence, inspected, changed, mutated, attempted, validated>>

\* checklist, read_only, require_file_evidence and required_tool_names.
Task(checklist, readOnly, grounded, required) ==
    [checklist |-> checklist, readOnly |-> readOnly, grounded |-> grounded,
     required |-> required]

\* The callers: the workbench, Autopilot (which may only observe), a worker of
\* the fleet, self-modification; a question to the web; the plain agent.
Tasks ==
    {Task(TRUE, readOnly, grounded, FALSE) :
        readOnly \in BOOLEAN, grounded \in BOOLEAN}
      \cup {Task(FALSE, FALSE, FALSE, required) : required \in BOOLEAN}

\* Tools by what the host concludes from them: "read" any look at a path,
\* "run" a program that names a path, "suite" a known test or build command,
\* "snippet" code that is not on disk, "asset" a generator, "game" one that
\* tests what it generates, "preview" a dry run of a mutation.
PathTools == {"read", "run", "write", "asset", "game"}
PathlessTools == {"suite", "snippet", "preview", "web"}
Tools == PathTools \cup PathlessTools
ToolCalls ==
    [tool : PathTools, path : Paths]
        \cup [tool : PathlessTools, path : {NoPath}]

Mutating == {"write", "asset", "game", "preview"}   \* _WORK_MUTATION_TOOLS
Validating == {"read", "run", "suite", "snippet", "game"}
Inspecting == {"read", "web"}

Statuses == {"pending", "in_progress", "done", "blocked"}
Items == 1..4

AgentInit ==
    /\ task \in Tasks
    /\ step = 1 /\ phase = "steps" /\ outcome = "none"
    /\ used = {} /\ evidence = FALSE /\ inspected = FALSE
    /\ changed = {} /\ mutated = FALSE /\ attempted = FALSE /\ validated = FALSE
    /\ failures = [c \in ToolCalls |-> 0] /\ webDone = {} /\ reviews = 0
    /\ boxes = [i \in Items |->
                  IF i = 1 /\ task.checklist THEN "in_progress" ELSE "pending"]
    /\ passed = {} /\ hidden = FALSE /\ tries = [c \in ToolCalls |-> 0]

Running == outcome = "none"

\* _agent_checklist_mark, for several items.
Marked(marks) ==
    IF task.checklist
    THEN [i \in Items |-> IF i \in DOMAIN marks THEN marks[i] ELSE boxes[i]]
    ELSE boxes

\* _agent_checklist_fail
Blocked(i) == [j \in {i, 4} |-> IF j = i THEN "blocked" ELSE "done"]

\* The run returns; only finish_final changes more than one item and item 4.
Return(o, marks) ==
    /\ outcome' = o /\ boxes' = Marked(marks)
    /\ UNCHANGED <<task, step, phase, flags, failures, webDone, reviews,
                   passed, hidden, tries>>

\* The next iteration: after max_steps of them, the finalization loop.
NextStep ==
    /\ step' = IF step < MaxSteps THEN step + 1 ELSE step
    /\ phase' = IF step < MaxSteps THEN phase ELSE "finalize"

-----------------------------------------------------------------------------
\* Final answers.

\* finish_final.  With a checklist an answer over unvalidated changes says so.
FinishFinal ==
    /\ Return(IF task.checklist /\ mutated /\ ~ validated
              THEN "unvalidated" ELSE "final",
              [i \in Items |-> IF i = 3 /\ mutated /\ ~ validated
                               THEN "blocked" ELSE "done"])

LacksRequired == task.required /\ "web" \notin used
LacksUse == task.checklist /\ used = {}
LacksValidation == task.checklist /\ mutated /\ ~ validated
LacksEvidence == task.grounded /\ ~ evidence

\* A final answer in the tool loop that the host sends back.
SendBack ==
    /\ Running /\ phase = "steps" /\ step < MaxSteps
    /\ LacksRequired \/ LacksUse \/ LacksValidation
    /\ boxes' = IF ~ LacksRequired /\ ~ LacksUse
                THEN Marked([i \in {2, 3} |->
                               IF i = 2 THEN "done" ELSE "in_progress"])
                ELSE boxes
    /\ NextStep
    /\ UNCHANGED <<task, flags, failures, webDone, reviews, outcome, passed,
                   hidden, tries>>

\* The answer is not sent back, whether it denies that something exists or
\* not; a denial may be reviewed first.
Answerable ==
    /\ Running
    /\ phase = "steps" =>
          /\ step = MaxSteps \/ ~ (LacksUse \/ LacksValidation)
          /\ ~ LacksRequired

\* In the tool loop the answer of the last step is not asked for use.
Conclude ==
    /\ Answerable
    /\ IF phase = "finalize" /\ LacksRequired THEN Return("error", <<>>)
       ELSE IF phase = "finalize" /\ LacksUse THEN Return("error", Blocked(1))
       ELSE IF LacksEvidence THEN Return("evidence_required", Blocked(1))
       ELSE FinishFinal

\* The last step's answer without the required tool.
RequiredUnused ==
    /\ Running /\ phase = "steps" /\ step = MaxSteps /\ LacksRequired
    /\ Return("error", <<>>)

\* _agent_negative_claim_review asks for more: the host looks itself, with a
\* reading tool the run may use.
ReviewDenial ==
    /\ Answerable /\ reviews < 2
    /\ reviews' = reviews + 1
    /\ \/ UNCHANGED <<used, evidence, inspected, boxes>>
       \/ /\ ~ task.required
          /\ used' = used \cup {"read"} /\ evidence' = TRUE /\ inspected' = TRUE
          /\ boxes' = Marked([i \in {1} |-> "done"])
    /\ IF phase = "steps" THEN NextStep ELSE UNCHANGED <<step, phase>>
    /\ UNCHANGED <<task, changed, mutated, attempted, validated, failures,
                   webDone, outcome, passed, hidden, tries>>

RejectDenial ==
    /\ Answerable /\ reviews = 2
    /\ reviews' = 3 /\ outcome' = "evidence_required"
    /\ boxes' = Marked(Blocked(1))
    /\ UNCHANGED <<task, step, phase, flags, failures, webDone, passed,
                   hidden, tries>>

\* A reply that stays unreadable after two repairs (_agent_generate_decision).
Unreadable ==
    /\ Running
    /\ Return("error",
              Blocked(IF phase = "steps" THEN 1
                      ELSE IF attempted THEN 3 ELSE IF mutated THEN 2 ELSE 1))

\* A cancel, or a model call that fails: the exception leaves the run.
Raised == Running /\ outcome' = "raised"
          /\ UNCHANGED <<task, step, phase, flags, failures, webDone, reviews,
                         boxes, passed, hidden, tries>>

-----------------------------------------------------------------------------
\* Tool calls.

\* The allowlist of a web question, the read-only policy of a worker, and
\* the rule that a checklist run looks before it changes.
Refused(c) ==
    \/ task.required /\ c.tool # "web"
    \/ task.readOnly /\ c.tool \notin {"read", "web"}
    \/ task.checklist /\ c.tool \in Mutating /\ ~ inspected

\* The call is not run again: it failed twice, or is a web call that
\* succeeded.
Repeated(c) == failures[c] >= 2 \/ c \in webDone

\* Mutation: a program that runs validates, whatever it names.
CoversUnnamed(c, paths) ==
    \/ paths = {}
    \/ c.tool \in {"suite", "game", "run", "snippet"}
    \/ c.tool = "read" /\ c.path \in paths \cap Documents

\* _agent_validation_covers
Covers(c, paths) ==
    \/ paths = {}
    \/ c.tool \in {"suite", "game"}
    \/ c.tool = "run" /\ c.path \in paths
    \/ c.tool = "read" /\ c.path \in paths \cap Documents

\* The third failure in a row of the same call ends the run.
GiveUp(c) ==
    /\ Running /\ phase = "steps" /\ failures[c] >= 3
    /\ Return("error", Blocked(2))

Mutates(c, ok) == c.tool \in Mutating \ {"preview"} /\ ok

\* What the host concludes from a call that ran or was refused.
Concluded(c, ok) ==
    LET paths == IF Mutates(c, ok) THEN changed \cup {c.path} ELSE changed
    IN  /\ changed' = paths
        /\ mutated' = (mutated \/ Mutates(c, ok))
        /\ attempted' = (c.tool \in Validating \/ (attempted /\ ~ Mutates(c, ok)))
        /\ validated' = IF c.tool \in Validating THEN ok /\ Covers(c, paths)
                        ELSE validated /\ ~ Mutates(c, ok)
        /\ used' = IF ok THEN used \cup {c.tool} ELSE used
        /\ evidence' = (evidence \/ (ok /\ c.tool = "read"))
        /\ inspected' = (inspected
                            \/ (ok /\ task.checklist /\ c.tool \in Inspecting))

\* The checklist after it: inspection, then mutation, then validation.
Ticked(c, ok) ==
    LET looked == [i \in {1, 2} |-> IF i = 1 THEN "done" ELSE "in_progress"]
        checked == [i \in {2, 3} |->
                       IF i = 2 THEN "done"
                       ELSE IF validated' THEN "done" ELSE "blocked"]
        one == IF (ok /\ c.tool \in Inspecting) \/ Mutates(c, ok)
               THEN Marked(looked) ELSE boxes
    IN  IF task.checklist /\ mutated' /\ c.tool \in Validating
        THEN [i \in Items |-> IF i \in {2, 3} THEN checked[i] ELSE one[i]]
        ELSE one

Counted(c, ok) ==
    IF ~ ok THEN [failures EXCEPT ![c] = @ + 1]
    ELSE IF c.tool \in Mutating THEN [d \in ToolCalls |-> 0]
    ELSE [failures EXCEPT ![c] = 0]

\* A call that is refused or not repeated.
RefuseCall(c) ==
    /\ Running /\ phase = "steps" /\ failures[c] < 3
    /\ Repeated(c) \/ Refused(c)
    /\ Concluded(c, FALSE) /\ boxes' = Ticked(c, FALSE)
    /\ failures' = Counted(c, FALSE)
    /\ NextStep
    /\ UNCHANGED <<task, webDone, reviews, outcome, passed, hidden, tries>>

\* A call that runs.  One that fails may still have changed files; a task
\* that is to rest on files has no access to the web.
RunCall(c) ==
    /\ Running /\ phase = "steps" /\ failures[c] < 3
    /\ ~ Repeated(c) /\ ~ Refused(c)
    /\ \E ok \in BOOLEAN, touched \in BOOLEAN :
          /\ touched => ~ ok /\ c.tool \in Mutating \ {"preview"}
          /\ ok => ~ (task.grounded /\ c.tool = "web")
          /\ Concluded(c, ok) /\ boxes' = Ticked(c, ok)
          /\ failures' = Counted(c, ok)
          /\ webDone' = IF ok /\ c.tool = "web" THEN webDone \cup {c} ELSE webDone
          /\ passed' = IF Mutates(c, ok) THEN {c} \cap [tool : {"game"}, path : Paths]
                       ELSE IF touched THEN {}
                       ELSE IF ok /\ c.tool \in Validating THEN passed \cup {c}
                       ELSE passed
          /\ hidden' = IF c.tool \in Validating \/ Mutates(c, ok) THEN FALSE
                       ELSE hidden \/ touched
          /\ tries' = IF ~ ok THEN [tries EXCEPT ![c] = @ + 1]
                      ELSE IF c.tool \in Mutating THEN [d \in ToolCalls |-> 0]
                      ELSE [tries EXCEPT ![c] = 0]
    /\ NextStep
    /\ UNCHANGED <<task, reviews, outcome>>

AgentNext ==
    \/ SendBack \/ Conclude \/ RequiredUnused \/ ReviewDenial \/ RejectDenial
    \/ Unreadable \/ Raised
    \/ \E c \in ToolCalls : GiveUp(c) \/ RefuseCall(c) \/ RunCall(c)

AgentSpec == AgentInit /\ [][AgentNext]_agentVars

-----------------------------------------------------------------------------
\* Properties.

\* The flags and counters keep their domains.
AgentTypeOK ==
    /\ task \in Tasks /\ step \in 1..MaxSteps
    /\ phase \in {"steps", "finalize"} /\ reviews \in 0..3
    /\ used \subseteq Tools /\ changed \subseteq Paths
    /\ evidence \in BOOLEAN /\ inspected \in BOOLEAN /\ mutated \in BOOLEAN
    /\ attempted \in BOOLEAN /\ validated \in BOOLEAN /\ hidden \in BOOLEAN
    /\ failures \in [ToolCalls -> 0..3] /\ webDone \subseteq ToolCalls
    /\ boxes \in [Items -> Statuses]
    /\ outcome \in {"none", "final", "unvalidated", "evidence_required",
                    "error", "raised"}

\* "does not accept an equivalent in-memory snippet as proof" (README): an
\* answer without the warning follows a check, made since the last change,
\* that ran a changed path, read it if it is a document, or tested it all.
ValidationIsCurrent ==
    outcome = "final" /\ task.checklist /\ mutated /\ ~ hidden =>
        \E c \in passed :
            \/ c.tool \in {"suite", "game"}
            \/ c.tool = "run" /\ c.path \in changed
            \/ c.tool = "read" /\ c.path \in changed \cap Documents

\* An answer that is to rest on files follows a successful look at one, and one
\* that is to rest on the web a successful fetch; a reader changes nothing.
AnswersAreGrounded ==
    /\ outcome \in {"final", "unvalidated"} /\ task.grounded => "read" \in used
    /\ task.readOnly => ~ mutated
    /\ outcome = "final" /\ task.required => "web" \in used

\* "do not repeat this exact failed call unchanged": the same call is executed
\* at most twice without a success or a change of the workspace between.
NoFutileRepeat == \A c \in ToolCalls : tries[c] <= 2

\* A finished checklist tells what happened: all is done only if the changes
\* are validated, and a run that failed left an item blocked.
ChecklistHonest ==
    task.checklist =>
        /\ outcome = "final" => \A i \in Items : boxes[i] = "done"
        /\ outcome = "unvalidated" => boxes[3] = "blocked" /\ boxes[4] = "done"
        /\ outcome \in {"error", "evidence_required"} =>
              boxes[4] = "done" /\ \E i \in Items : boxes[i] = "blocked"

\* What the agent reports is what its calls have shown.
ReportsAreGrounded ==
    /\ ValidationIsCurrent /\ AnswersAreGrounded
    /\ NoFutileRepeat /\ ChecklistHonest
=============================================================================
