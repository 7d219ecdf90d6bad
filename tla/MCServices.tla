----------------------------- MODULE MCServices -----------------------------
\* Small instances of services of a host, whose processes may die: turns of
\* sessions, lessons, the launcher, and the commands that start and stop the
\* servers.  They share at most the processes, so a behaviour is one of one of
\* them.
EXTENDS SessionTurns, LessonDistillation, LauncherOperations, HostServices

VARIABLE part

lessonVars == <<kept, outcomes, jobs, lessons, marks, lost, call, errors>>
sessionVars == <<claims, abandoned, locks, turn, history, faults>>
operationVars ==
    <<created, rows, holder, late, trees, workers, recovery, mishaps>>

servicesVars == <<part, life, lessonVars, sessionVars, operationVars, hostVars>>

\* Process 2 is given the id of process 1 once that has ended.
ReusedPid == [i \in Instances |-> IF i = 2 THEN 1 ELSE i]
SomeThreads == {<<1, 1>>, <<1, 2>>, <<3, 1>>}

ServicesInit ==
    /\ part \in {"turns", "lessons", "launcher", "servers"}
    /\ TurnsInit /\ DistillInit /\ LauncherInit
    /\ HostInit /\ (part # "servers" => posix)

\* Bound: two of the three threads record outcomes, of one process or of two.
TwoRecord ==
    Cardinality({w \in Recorders : call[w].serial > 0}) <= 2

OthersUnchanged(p, v) == part # p => UNCHANGED v

ServicesNext ==
    /\ \/ part = "turns" /\ TurnsNext
       \/ part = "lessons" /\ DistillNext
       \/ part = "launcher" /\ LauncherNext
       \/ part = "servers" /\ HostNext /\ UNCHANGED life
    /\ OthersUnchanged("turns", sessionVars)
    /\ OthersUnchanged("lessons", lessonVars)
    /\ OthersUnchanged("launcher", operationVars)
    /\ OthersUnchanged("servers", hostVars)
    /\ UNCHANGED part

ServicesSpec == ServicesInit /\ [][ServicesNext]_servicesVars

\* The state of every service is well formed.
ServicesTypeOK == TurnsTypeOK /\ DistillTypeOK /\ LauncherTypeOK /\ HostTypeOK

\* No claim, of a session or of a lesson, is kept for ever from everybody
\* (ClaimsReclaimable of SessionTurns, JobsReclaimable of LessonDistillation).
ClaimsAreReclaimable == ServicesTypeOK /\ ClaimsReclaimable /\ JobsReclaimable

\* A lesson is stored on the evidence there is, by the claimant of its job,
\* and a claim is taken from a dead or a defeated one only.
LessonsSafe == LessonsGrounded /\ ClaimNotStolen
=============================================================================
