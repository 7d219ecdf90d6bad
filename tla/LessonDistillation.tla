------------------------ MODULE LessonDistillation ------------------------
(***************************************************************************)
(* Outcomes of interactions and the job that distils a lesson from a good  *)
(* one (_record_outcome_and_maybe_distill, memory_store.py, reflection.py).*)
(* Recording an outcome may claim the job; the model then writes a lesson  *)
(* outside any transaction, and a second transaction stores it.            *)
(***************************************************************************)
EXTENDS ProcessLiveness, FiniteSets

CONSTANTS
    Recorders,      \* <<process, thread>>: the threads that record outcomes
    Interactions,
    NoToken,
    MaxCalls,       \* bound: calls of a thread, which are its claim tokens
    MaxErrors       \* bound: database errors

ASSUME DistillationAssumption ==
    /\ \A w \in Recorders : w[1] \in Instances
    /\ MaxCalls \in Nat /\ MaxErrors \in Nat
    /\ NoToken \notin Recorders \X Nat

VARIABLES
    kept,           \* interactions that exist
    outcomes,       \* outcomes[i]: kinds of evidence recorded
    jobs,           \* lesson_distillations
    lessons,        \* lessons[i]: number of lessons whose source is i
    marks,          \* _ABANDONED_DISTILLATION_CLAIMS of each process
    lost,           \* history: marks that a transaction took and was rolled back
    call,           \* what each recorder does
    errors

distillVars ==
    <<life, kept, outcomes, jobs, lessons, marks, lost, call, errors>>

Tokens == Recorders \X (1..MaxCalls)
ProcessOf(w) == w[1]
ClaimantOf(token) == token[1]

JobStates == {"none", "claimed", "retryable", "cancelled", "stored",
              "no_lesson"}
TerminalStates == {"cancelled", "stored", "no_lesson"}

Jobs == [state : JobStates, token : Tokens \cup {NoToken}]
NoJob == [state |-> "none", token |-> NoToken]

\* A candidate is prepared, or the model found nothing to learn.
Calls == [pc : {"idle", "record", "claimed", "finalize", "defer"},
          item : Interactions, signal : {"good", "bad"}, serial : 0..MaxCalls,
          known : BOOLEAN, candidate : BOOLEAN]

DistillInit ==
    /\ LifeInit
    /\ kept = Interactions
    /\ outcomes = [i \in Interactions |-> {}]
    /\ jobs = [i \in Interactions |-> NoJob]
    /\ lessons = [i \in Interactions |-> 0]
    /\ marks = [p \in Instances |-> {}] /\ lost = {}
    /\ call \in [Recorders -> [pc : {"idle"}, item : Interactions,
                    signal : {"good"}, serial : {0}, known : {TRUE},
                    candidate : {FALSE}]]
    /\ errors = 0

Token(w) == <<w, call[w].serial>>

Mark(i, token) == <<i, token>>

In(w, pc, i) ==
    life[ProcessOf(w)] = "up" /\ call[w].pc = pc /\ call[w].item = i

CallTo(w, pc) == call' = [call EXCEPT ![w].pc = pc]

Finish(w) ==
    call' = [call EXCEPT ![w] = [@ EXCEPT !.pc = "idle", !.signal = "good",
                                          !.known = TRUE, !.candidate = FALSE]]

\* _distillation_evidence.
Convincing(evidence) == "good" \in evidence /\ "bad" \notin evidence

Mine(w, i) == jobs[i] = [state |-> "claimed", token |-> Token(w)]

JobTo(i, state) == [jobs EXCEPT ![i] = [state |-> state, token |-> NoToken]]

\* _cancel_live_distillation; an interaction without a job gets one.
CancelJob(i) == IF jobs[i].state \in TerminalStates THEN jobs
                ELSE JobTo(i, "cancelled")

-----------------------------------------------------------------------------
\* The probe of its own process, and the lookup of the interaction.
BeginRecord(w, i) ==
    /\ life[ProcessOf(w)] = "up" /\ call[w].pc = "idle"
    /\ call[w].serial < MaxCalls /\ i \in kept
    /\ \E signal \in {"good", "bad"}, own \in ProbeStates(ProcessOf(w)) :
          call' = [call EXCEPT ![w] =
                     [pc |-> "record", item |-> i, signal |-> signal,
                      serial |-> @.serial + 1, known |-> own = "alive",
                      candidate |-> FALSE]]
    /\ UNCHANGED <<life, kept, outcomes, jobs, lessons, marks, lost, errors>>

MarksOf(w, i) == {m \in marks[ProcessOf(w)] : m[1] = i}

\* _consume_abandoned_distillation_claim: the mark of the very claim.
Consumed(w, i) == marks[ProcessOf(w)] \cap {Mark(i, jobs[i].token)}

\* The marks that _claim_distillation takes away, whatever becomes of the
\* transaction.
MarksLeft(w, i) ==
    [marks EXCEPT ![ProcessOf(w)] =
        @ \ IF jobs[i].state = "claimed" THEN Consumed(w, i)
            ELSE MarksOf(w, i)]

DeadClaimant(i) ==
    \E state \in ProbeStates(ProcessOf(ClaimantOf(jobs[i].token))) :
        state = "dead"

\* Mutation: a live claim is taken over like a dead one.
OpenJobToAll(w, i) == jobs[i].state \in {"none", "retryable", "claimed"}

\* A job that may be claimed: none yet, returned, given up or orphaned.
OpenJob(w, i) ==
    \/ jobs[i].state \in {"none", "retryable"}
    \/ jobs[i].state = "claimed" /\ (Consumed(w, i) # {} \/ DeadClaimant(i))

\* _claim_distillation in record_outcome_and_claim_lesson_distillation.
\* A caller whose own identity is unknown leaves the job to a later one.
Claiming(w, i) ==
    \/ /\ OpenJob(w, i) /\ call[w].known
       /\ jobs' = [jobs EXCEPT ![i] = [state |-> "claimed", token |-> Token(w)]]
       /\ CallTo(w, "claimed")
    \/ OpenJob(w, i) /\ ~ call[w].known /\ jobs' = JobTo(i, "retryable")
          /\ Finish(w)
    \/ /\ \/ jobs[i].state \in TerminalStates
          \/ jobs[i].state = "claimed" /\ Consumed(w, i) = {}
       /\ UNCHANGED jobs /\ Finish(w)

RecordOutcome(w, i) ==
    /\ In(w, "record", i)
    /\ IF i \notin kept
       THEN Finish(w) /\ UNCHANGED <<outcomes, jobs, marks>>
       ELSE LET evidence == outcomes[i] \cup {call[w].signal}
            IN  /\ outcomes' = [outcomes EXCEPT ![i] = evidence]
                /\ IF Convincing(evidence)
                   THEN Claiming(w, i) /\ marks' = MarksLeft(w, i)
                   ELSE /\ jobs' = CancelJob(i) /\ Finish(w)
                        /\ UNCHANGED marks
    /\ UNCHANGED <<life, kept, lessons, lost, errors>>

\* The transaction is rolled back; a mark that it has taken is not put back.
RecordFails(w, i) ==
    /\ In(w, "record", i) /\ i \in kept
    /\ errors < MaxErrors /\ errors' = errors + 1
    /\ CallTo(w, "defer")
    /\ \/ UNCHANGED marks
       \/ Convincing(outcomes[i] \cup {call[w].signal}) /\ marks' = MarksLeft(w, i)
    /\ lost' = lost \cup (marks[ProcessOf(w)] \ marks'[ProcessOf(w)])
    /\ UNCHANGED <<life, kept, outcomes, jobs, lessons>>

\* The fleet is busy, or the model fails, or it answers with a lesson or
\* with nothing to learn.
Distil(w, i) ==
    /\ In(w, "claimed", i)
    /\ \/ CallTo(w, "defer")
       \/ \E found \in BOOLEAN :
             call' = [call EXCEPT ![w].pc = "finalize", ![w].candidate = found]
    /\ UNCHANGED <<life, kept, outcomes, jobs, lessons, marks, lost, errors>>

\* Mutation: the claim and its evidence were checked before the model wrote.
FinalizeUnchecked(w, i) ==
    /\ In(w, "finalize", i)
    /\ \/ /\ call[w].candidate /\ lessons[i] = 0
          /\ lessons' = [lessons EXCEPT ![i] = 1]
          /\ jobs' = JobTo(i, "stored")
       \/ /\ jobs' = JobTo(i, IF lessons[i] > 0 THEN "stored" ELSE "no_lesson")
          /\ UNCHANGED lessons
    /\ Finish(w)
    /\ UNCHANGED <<life, kept, outcomes, marks, lost, errors>>

\* finalize_lesson_distillation with store_prepared_lesson: the evidence is
\* looked at again, and a candidate may duplicate an older lesson.
FinalizeJob(w, i) ==
    /\ In(w, "finalize", i)
    /\ IF ~ Mine(w, i) THEN UNCHANGED <<jobs, lessons>>
       ELSE IF ~ Convincing(outcomes[i])
       THEN jobs' = JobTo(i, "cancelled") /\ UNCHANGED lessons
       ELSE \/ /\ call[w].candidate /\ lessons[i] = 0
               /\ lessons' = [lessons EXCEPT ![i] = 1]
               /\ jobs' = JobTo(i, "stored")
            \/ /\ jobs' = JobTo(i, IF lessons[i] > 0 THEN "stored"
                                   ELSE "no_lesson")
               /\ UNCHANGED lessons
    /\ Finish(w)
    /\ UNCHANGED <<life, kept, outcomes, marks, lost, errors>>

FinalizeFails(w, i) ==
    /\ In(w, "finalize", i) /\ errors < MaxErrors /\ errors' = errors + 1
    /\ CallTo(w, "defer")
    /\ UNCHANGED <<life, kept, outcomes, jobs, lessons, marks, lost>>

\* _release_lesson_distillation_claim: mark_lesson_distillation_retryable.
Defer(w, i) ==
    /\ In(w, "defer", i)
    /\ jobs' = IF ~ Mine(w, i) THEN jobs
               ELSE IF Convincing(outcomes[i]) THEN JobTo(i, "retryable")
               ELSE CancelJob(i)
    /\ Finish(w)
    /\ UNCHANGED <<life, kept, outcomes, lessons, marks, lost, errors>>

\* Mutation: the claim stays and nothing is remembered.
DeferFailsQuietly(w, i) ==
    /\ In(w, "defer", i) /\ errors < MaxErrors /\ errors' = errors + 1
    /\ Finish(w)
    /\ UNCHANGED <<life, kept, outcomes, jobs, lessons, marks, lost>>

\* abandon_lesson_distillation_claim.
DeferFails(w, i) ==
    /\ In(w, "defer", i) /\ errors < MaxErrors /\ errors' = errors + 1
    /\ marks' = [marks EXCEPT ![ProcessOf(w)] =
                    @ \cup (IF call[w].known THEN {Mark(i, Token(w))} ELSE {})]
    /\ Finish(w)
    /\ UNCHANGED <<life, kept, outcomes, jobs, lessons, lost>>

\* delete_interaction: the lesson, if there is one, stays.
Discard(i) ==
    /\ i \in kept
    /\ kept' = kept \ {i}
    /\ outcomes' = [outcomes EXCEPT ![i] = {}]
    /\ jobs' = [jobs EXCEPT ![i] = NoJob]
    /\ UNCHANGED <<life, lessons, marks, lost, call, errors>>

LifeOfRecorders ==
    /\ \E p \in Instances : Start(p) \/ Kill(p)
    /\ UNCHANGED <<kept, outcomes, jobs, lessons, marks, lost, call, errors>>

DistillNext ==
    \/ \E w \in Recorders, i \in Interactions :
          \/ BeginRecord(w, i) \/ RecordOutcome(w, i) \/ RecordFails(w, i)
          \/ Distil(w, i) \/ FinalizeJob(w, i) \/ FinalizeFails(w, i)
          \/ Defer(w, i) \/ DeferFails(w, i)
    \/ \E i \in Interactions : Discard(i)
    \/ LifeOfRecorders

DistillSpec == DistillInit /\ [][DistillNext]_distillVars

-----------------------------------------------------------------------------
\* Properties.

\* The tables and the calls keep their domains.
DistillTypeOK ==
    /\ LifeTypeOK
    /\ kept \subseteq Interactions
    /\ outcomes \in [Interactions -> SUBSET {"good", "bad"}]
    /\ jobs \in [Interactions -> Jobs]
    /\ lessons \in [Interactions -> 0..1]
    /\ marks \in [Instances -> SUBSET (Interactions \X Tokens)]
    /\ lost \subseteq Interactions \X Tokens
    /\ call \in [Recorders -> Calls] /\ errors \in 0..MaxErrors

\* A lesson is written only for an interaction whose evidence is good and
\* uncontradicted at that moment, not just when the job was claimed, and only
\* by the holder of its claim ("Persisted contradictory evidence cancels the
\* claim before the callback runs", finalize_lesson_distillation).
LessonsGrounded ==
    [][\A i \in Interactions :
          lessons'[i] # lessons[i] =>
              /\ Convincing(outcomes[i]) /\ jobs[i].state = "claimed"
              /\ life[ProcessOf(ClaimantOf(jobs[i].token))] = "up"]_distillVars

\* While its claimant works on a job, the claim is its own: nobody takes it
\* away from a live process, except by contradicting or deleting the
\* interaction (record_outcome_and_claim_lesson_distillation: "UNKNOWN
\* liveness never steals a claim").
ClaimNotStolen ==
    [][\A w \in Recorders, i \in Interactions :
          (In(w, "claimed", i) \/ In(w, "finalize", i)) /\ Mine(w, i) =>
              \/ Mine(w, i)'
              \/ ~ Convincing(outcomes'[i])
              \/ call'[w].pc \notin {"claimed", "finalize"}]_distillVars

\* A claimed job is held by a call that will finish or return it, or by a
\* process that has died, or is marked in the memory of its process, so that
\* a later outcome takes it over (abandon_lesson_distillation_claim), unless a
\* transaction that took the mark was rolled back.
JobsReclaimable ==
    \A i \in Interactions :
        jobs[i].state = "claimed" =>
            LET token == jobs[i].token
                w == ClaimantOf(token)
            IN  \/ life[ProcessOf(w)] = "gone"
                \/ Mark(i, token) \in marks[ProcessOf(w)] \cup lost
                \/ /\ Token(w) = token /\ call[w].item = i
                   /\ call[w].pc \in {"claimed", "finalize", "defer"}
=============================================================================
