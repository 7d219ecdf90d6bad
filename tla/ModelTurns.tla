---------------------------- MODULE ModelTurns ----------------------------
(***************************************************************************)
(* The turns of one session and project, from the prompt to the reply and  *)
(* the id below it by which it is rated: the history with its summary, the *)
(* model's answer, the guard against refusals, the code gate with its one  *)
(* repair, and the outcomes that others record meanwhile                   *)
(* (server.py: _sonder_impl_serialized, _answer_with_history_impl).        *)
(***************************************************************************)
EXTENDS Naturals, Sequences, FiniteSets, SequencesExt

CONSTANTS
    Answerers,        \* threads that answer turns
    MaxTurns,       \* bound: turns, whose ids are 1..MaxTurns
    Window,         \* MAX_TURNS: turns that are sent as they are
    MaxRatings      \* bound: outcomes recorded by others

Nobody == "nobody"

ASSUME TurnsOfModelAssumption ==
    /\ MaxTurns \in Nat \ {0} /\ Window \in Nat \ {0} /\ MaxRatings \in Nat
    /\ Nobody \notin Answerers

VARIABLES
    thread,         \* ids of the interactions that exist, in their order
    responses,         \* responses[i]: what is kept with interaction i
    rated,          \* interactions with an outcome
    summary,        \* ids folded into the session's summary, in order
    marker,         \* summarized_through, or 0
    lock,           \* the caller that has the session's turn, or nobody
    answering,      \* what each caller does
    born,           \* interactions so far
    ratings,
    shown,          \* history: shown[i], what was replied above id i
    unmarked        \* history: the interaction of the marker was discarded, or
                    \* of the marker that a fold is about to set

modelTurnVars == <<thread, responses, rated, summary, marker, lock, answering,
                   born, ratings, shown, unmarked>>

Ids == 1..MaxTurns
\* An answer: fine, with code that fails, denying a tool there is, or made
\* by a tool.
Answers == {"fine", "broken", "refusal"}
Responses == Answers \cup {"repaired", "tool"}
NoResponse == "none"

TurnPcs == {"idle", "history", "fold", "answer", "guard", "gate",
        "persist", "fail", "reply"}
Turn == [pc : TurnPcs, id : Ids \cup {0}, read : Seq(Ids), over : Seq(Ids), sent : SUBSET Ids,
         answer : Responses \cup {NoResponse}, footer : BOOLEAN]
NoTurn == [pc |-> "idle", id |-> 0, read |-> <<>>,
           over |-> <<>>, sent |-> {}, answer |-> NoResponse, footer |-> FALSE]

ModelTurnsInit ==
    /\ thread = <<>> /\ summary = <<>> /\ marker = 0
    /\ responses = [i \in Ids |-> NoResponse]
    /\ rated = {}
    /\ shown = [i \in Ids |-> NoResponse]
    /\ unmarked = FALSE
    /\ lock = Nobody /\ born = 0 /\ ratings = 0
    /\ answering = [c \in Answerers |-> NoTurn]

Kept(i) == i \in ToSet(thread)
PlaceInThread(i) == CHOOSE k \in DOMAIN thread : thread[k] = i
Stands(c, pc) == answering[c].pc = pc
Goes(c, pc) == answering' = [answering EXCEPT ![c].pc = pc]
Done(c) ==
    /\ answering' = [answering EXCEPT ![c] = NoTurn]
    /\ lock' = IF lock = c THEN Nobody ELSE lock

rest == <<rated, ratings>>

\* A thread that is idle; which one makes no difference.
Free(c) == Stands(c, "idle") /\ c = CHOOSE k \in Answerers : Stands(k, "idle")

\* A turn of sonder() waits for the session; one of the HTTP server brings its
\* history along and waits for nobody.
BeginTurn(c, session) ==
    /\ Free(c)
    /\ session => lock = Nobody
    /\ lock' = IF session THEN c ELSE lock
    /\ Goes(c, IF session THEN "history" ELSE "answer")
    /\ UNCHANGED <<thread, responses, summary, marker, born, shown, unmarked, rest>>

\* log_interaction: a new row at the end of the thread.
Logged(response) ==
    /\ born < MaxTurns
    /\ born' = born + 1
    /\ thread' = Append(thread, born + 1)
    /\ responses' = [responses EXCEPT ![born + 1] = response]

\* _route_chat_web: a reply of a tool is part of the thread, but has no id.
RouteToTool(c) ==
    /\ Free(c) /\ lock = Nobody
    /\ Logged("tool")
    /\ UNCHANGED <<answering, lock, summary, marker, shown, unmarked, rest>>

(***************************************************************************)
(* _session_history_messages.                                              *)
(***************************************************************************)
Live(turns) == SubSeq(turns, Len(turns) - Window + 1, Len(turns))

\* A plausible bug: the turn of the marker is folded once more.
OverflowAtMarker(turns) ==
    LET at == {k \in DOMAIN turns : turns[k] = marker} IN
    SubSeq(turns, IF at = {} THEN 1 ELSE CHOOSE k \in at : TRUE,
           Len(turns) - Window)

\* What is older than the window and newer than the marker.  A marker that is
\* not found counts as none.
Overflow(turns) ==
    LET at == {k \in DOMAIN turns : turns[k] = marker}
        from == IF at = {} THEN 0 ELSE CHOOSE k \in at : TRUE IN
    SubSeq(turns, from + 1, Len(turns) - Window)

ReadHistory(c) ==
    /\ Stands(c, "history")
    /\ LET over == IF Len(thread) > Window THEN Overflow(thread) ELSE <<>> IN
         answering' = [answering EXCEPT
             ![c].pc = IF over = <<>> THEN "answer" ELSE "fold",
             ![c].read = thread, ![c].over = over,
             ![c].sent = ToSet(summary) \cup
                         (IF Len(thread) > Window THEN ToSet(Live(thread))
                          ELSE ToSet(thread))]
    /\ UNCHANGED <<thread, responses, summary, marker, lock, born, shown, unmarked,
                   rest>>

\* The model folds the overflow into the summary, or cannot be reached.
FoldOverflow(c) ==
    /\ Stands(c, "fold")
    /\ summary' = summary \o answering[c].over
    /\ marker' = Last(answering[c].over)
    /\ answering' = [answering EXCEPT ![c].pc = "answer",
                        ![c].sent = @ \cup ToSet(answering[c].over)]
    /\ UNCHANGED <<thread, responses, lock, born, shown, unmarked, rest>>
FoldFails(c) ==
    /\ Stands(c, "fold")
    /\ answering' = [answering EXCEPT ![c].pc = "answer", ![c].read = <<>>]
    /\ UNCHANGED <<thread, responses, summary, marker, lock, born, shown, unmarked,
                   rest>>

(***************************************************************************)
(* The answer.                                                             *)
(***************************************************************************)
\* The answer is captured before anybody has looked at it.
Answered(c) ==
    /\ Stands(c, "answer")
    /\ \E a \in Answers :
          /\ Logged(a)
          /\ answering' = [answering EXCEPT ![c].pc = "guard", ![c].answer = a,
                              ![c].id = born + 1]
    /\ UNCHANGED <<summary, marker, lock, shown, unmarked, rest>>
AnswerFails(c) ==
    /\ Stands(c, "answer")
    /\ Done(c)
    /\ UNCHANGED <<thread, responses, summary, marker, born, shown, unmarked, rest>>

\* delete_interaction takes the outcomes along.
Discarded(i) ==
    /\ thread' = IF Kept(i) THEN RemoveAt(thread, PlaceInThread(i)) ELSE thread
    /\ rated' = rated \ {i}
    /\ unmarked' = \/ unmarked \/ marker = i
                    \/ \E c \in Answerers : Stands(c, "fold") /\ Last(answering[c].over) = i

\* A refusal is purged, if the database allows, and the reply bears no id.
DiscardRefusal(c) ==
    /\ Stands(c, "guard") /\ answering[c].answer = "refusal"
    /\ \/ Discarded(answering[c].id)
       \/ UNCHANGED <<thread, rated, unmarked>>
    /\ Done(c)
    /\ UNCHANGED <<responses, summary, marker, born, shown, ratings>>
PassGuard(c) ==
    /\ Stands(c, "guard") /\ answering[c].answer # "refusal"
    /\ answering' = [answering EXCEPT
           ![c].pc = IF answering[c].answer = "broken" THEN "gate" ELSE "reply",
           ![c].footer = TRUE]
    /\ UNCHANGED <<thread, responses, summary, marker, lock, born, shown, unmarked,
                   rest>>

\* The gate ran the code and saw it fail (a run that times out passes), and
\* asks for one repair.
RepairCode(c) ==
    /\ Stands(c, "gate")
    /\ \E pc \in {"persist", "fail", "reply"} : Goes(c, pc)
    /\ UNCHANGED <<thread, responses, summary, marker, lock, born, shown, unmarked,
                   rest>>

\* replace_interaction_response_cas: only what nobody has rated or learnt from.
Replaceable(i, response) ==
    Kept(i) /\ responses[i] = response /\ i \notin rated

\* A plausible bug: the id is shown although the repair was not stored.
PersistRepairNamed(c) ==
    /\ Stands(c, "persist")
    /\ LET i == answering[c].id
           ok == Replaceable(i, answering[c].answer) IN
         /\ responses' = IF ok THEN [responses EXCEPT ![i] = "repaired"] ELSE responses
         /\ answering' = [answering EXCEPT ![c].pc = "reply", ![c].answer = "repaired"]
    /\ UNCHANGED <<thread, summary, marker, lock, born, shown, unmarked, rest>>

\* The repaired reply is shown in any case, with the id only if it is stored.
PersistRepair(c) ==
    /\ Stands(c, "persist")
    /\ LET i == answering[c].id
           ok == Replaceable(i, answering[c].answer) IN
         /\ responses' = IF ok THEN [responses EXCEPT ![i] = "repaired"] ELSE responses
         /\ answering' = [answering EXCEPT ![c].pc = "reply",
                             ![c].answer = "repaired", ![c].footer = ok]
    /\ UNCHANGED <<thread, summary, marker, lock, born, shown, unmarked, rest>>

\* _record_code_gate_failure, best effort.
RecordFailure(c) ==
    /\ Stands(c, "fail")
    /\ rated' = rated \cup ({answering[c].id} \cap ToSet(thread))
    /\ Goes(c, "reply")
    /\ UNCHANGED <<thread, responses, summary, marker, lock, born, shown, unmarked,
                   ratings>>

ShowReply(c) ==
    /\ Stands(c, "reply")
    /\ shown' = IF answering[c].footer
                THEN [shown EXCEPT ![answering[c].id] = answering[c].answer]
                ELSE shown
    /\ Done(c)
    /\ UNCHANGED <<thread, responses, summary, marker, born, unmarked, rest>>

\* record_outcome by whoever saw the id, below a reply or in a listing (what
\* becomes of the outcome is in LessonDistillation).
RecordRating(i) ==
    /\ ratings < MaxRatings /\ Kept(i)
    /\ ratings' = ratings + 1
    /\ rated' = rated \cup {i}
    /\ UNCHANGED <<thread, responses, summary, marker, lock, answering, born, shown,
                   unmarked>>

ModelTurnsNext ==
    \/ \E c \in Answerers :
         \/ \E session \in BOOLEAN : BeginTurn(c, session)
         \/ RouteToTool(c)
         \/ ReadHistory(c) \/ FoldOverflow(c) \/ FoldFails(c)
         \/ Answered(c) \/ AnswerFails(c)
         \/ DiscardRefusal(c) \/ PassGuard(c)
         \/ RepairCode(c) \/ PersistRepair(c) \/ RecordFailure(c) \/ ShowReply(c)
    \/ \E i \in Ids : RecordRating(i)

ModelTurnsSpec == ModelTurnsInit /\ [][ModelTurnsNext]_modelTurnVars
-----------------------------------------------------------------------------
\* The thread, the summary and what the callers hold are well formed.
ModelTurnsTypeOK ==
    /\ thread \in Seq(Ids) /\ summary \in Seq(Ids) /\ marker \in Ids \cup {0}
    /\ responses \in [Ids -> Responses \cup {NoResponse}]
    /\ rated \subseteq Ids
    /\ shown \in [Ids -> Responses \cup {NoResponse}]
    /\ lock \in Answerers \cup {Nobody} /\ born \in 0..MaxTurns
    /\ \A c \in Answerers : answering[c] \in Turn

\* The summary holds every turn once, however folding, answers without the
\* session's lock and discarded refusals interleave, as long as no refusal was
\* discarded after it had become the marker.
FoldedOnce == ~unmarked => IsInjective(summary)

\* A turn of the session is answered with all that was said before, as it was
\* or in the summary, unless the summary could not be written.
HistoryIsWhole ==
    \A c \in Answerers : Stands(c, "answer") => ToSet(answering[c].read) \subseteq answering[c].sent

\* What an id stands for is what was shown above it: a later rating grounds
\* the response the user saw.
RatedAsShown ==
    \A i \in Ids : shown[i] # NoResponse /\ Kept(i) => responses[i] = shown[i]

ModelTurnsSound == FoldedOnce /\ HistoryIsWhole /\ RatedAsShown
=============================================================================
