--------------------------- MODULE LessonMemory ---------------------------
(***************************************************************************)
(* The lessons and the turns kept in memory, with the vectors by which     *)
(* they are recalled: new lessons and turns, the tools that repair, prune  *)
(* and re-embed, and the embedding model behind them, whose tag may be     *)
(* pulled anew at any time (memory_store.py, embeddings.py, reflection.py, *)
(* memory_quality.py, lesson_pruner.py, self_heal.py, server.py).          *)
(***************************************************************************)
EXTENDS Naturals

CONSTANTS
    Old,            \* the lesson that is there at the start
    NewLessons,     \* ids of the lessons that may be added
    Turns,          \* ids of the turns that may be answered
    Texts,          \* normalised texts
    Original, Restated, \* two texts whose vectors are near
    Private,        \* texts that must not be kept
    Revisions,      \* of the embedding model
    Nothing, Damaged, \* no vector, and bytes that are no vector
    Tools, MaxCalls, \* slots of calls of tools; bound: how many in all
    MaxRetags       \* bound: times the model is pulled anew

Lessons == {Old} \cup NewLessons
Entries == Lessons \cup Turns

ASSUME MemoryAssumption ==
    /\ Old \notin NewLessons /\ Lessons \cap Turns = {}
    /\ Private \subseteq Texts /\ {Original, Restated} \subseteq Texts
    /\ {Nothing, Damaged} \cap Revisions = {} /\ Revisions # {}
    /\ {"none", "gone"} \cap (Revisions \cup {Nothing, Damaged}) = {}
    /\ MaxCalls \in Nat /\ MaxRetags \in Nat

VARIABLES
    entries,        \* lessons and interactions
    fts,            \* lessons_fts: the lessons full text search finds
    serving,        \* the revision Ollama serves, and
    retags,         \* how often that changed
    past,           \* history: the revisions that served before
    tools,          \* what each call does
    started,
    learnt,         \* history: meanings that were ever stored
    crossed,        \* history: two plans of deletions overlapped
    moved,          \* history: the model changed where no check can see it
    misread         \* history: a lesson was added amid an integrity check

model == <<serving, retags, past>>
memoryVars == <<entries, fts, model, tools, started, learnt, crossed, moved,
                misread>>

Meaning(text) == IF text = Restated THEN Original ELSE text

\* A vector is known by the revision that made it.
LessonRow == [text : Texts, vector : Revisions \cup {Nothing, Damaged},
              label : Revisions \cup {Nothing}]
NoRow == [text |-> Original, vector |-> "none", label |-> "none"]
Deleted == [NoRow EXCEPT !.vector = "gone"]
There(S) == {i \in S : entries[i] \notin {NoRow, Deleted}}

Deleting == {"dedupe", "prune", "privacy"}
ToolPcs == {"idle", "check", "bind", "make", "store", "plan", "delete", "ids",
        "fts", "heal"}
Kinds == Deleting \cup {"learn", "merge", "turn", "lessons", "turns", "heal"}

NoPlan == [i \in Entries |-> NoRow]
Tool == [pc : ToolPcs, kind : Kinds, text : Texts, known : BOOLEAN,
         target : Revisions, bound : Revisions, vector : Revisions \cup {Nothing},
         left : [Entries -> LessonRow \cup {NoRow}], plan : SUBSET Lessons,
         orphans : SUBSET Lessons, bad : SUBSET Lessons]
IdleTool == [pc |-> "idle", kind |-> "learn", text |-> CHOOSE t \in Texts : TRUE,
            known |-> FALSE, target |-> CHOOSE r \in Revisions : TRUE,
            bound |-> CHOOSE r \in Revisions : TRUE, vector |-> Nothing,
            left |-> NoPlan, plan |-> {}, orphans |-> {}, bad |-> {}]

\* One lesson is there, with at most one thing amiss: it is private, from before
\* vectors had labels, damaged, or missing from the full text mirror.
MemoryInit ==
    /\ serving = CHOOSE r \in Revisions : TRUE
    /\ LET healthy == [text |-> Original, vector |-> serving, label |-> serving] IN
         \E row \in {healthy, [healthy EXCEPT !.label = Nothing],
                     [healthy EXCEPT !.vector = Nothing, !.label = Nothing],
                     [healthy EXCEPT !.vector = Damaged]}
                    \cup {[healthy EXCEPT !.text = t] : t \in Private} :
           /\ entries = [i \in Entries |-> IF i = Old THEN row ELSE NoRow]
           /\ learnt = {Meaning(row.text)}
           /\ fts \in IF row = healthy THEN {{}, {Old}} ELSE {{Old}}
    /\ retags = 0 /\ past = {} /\ started = 0
    /\ tools = [j \in Tools |-> IdleTool]
    /\ crossed = FALSE /\ moved = FALSE /\ misread = FALSE

Usable(row) == row.vector \notin {Nothing, Damaged}

\* _stored_vector, recall: a stored vector is compared with one of revision r.
Comparable(row, r) == Usable(row) /\ row.label = r
ComparableTurn(row, r) == Usable(row) /\ row.label = r

NeedsRefresh(row, r) == ~Usable(row) \/ row.label # r
TurnNeedsRefresh(row, r) == ~Usable(row) \/ row.label # r

To(j, tool) == tools' = [tools EXCEPT ![j] = tool]
Ends(j) == To(j, IdleTool)

\* The model is pulled anew.  A refresh notices, unless it happens between its
\* look at the revision and the embed call.  (A pull lasts longer than that
\* call, so two never fall into it.)
Retag(r) ==
    /\ retags < MaxRetags /\ r # serving
    /\ serving' = r /\ retags' = retags + 1 /\ past' = past \cup {serving}
    /\ moved' = (moved \/ \E j \in Tools : /\ tools[j].pc = "bind"
                                         /\ tools[j].kind \in {"lessons", "turns"})
    /\ UNCHANGED <<entries, fts, tools, started, learnt, crossed, misread>>

\* A slot that is idle; which one makes no difference.
Free(j) == tools[j].pc = "idle" /\ j = CHOOSE k \in Tools : tools[k].pc = "idle"

\* A call of a tool, a turn, or a lesson that was distilled.
Call(j, kind, text) ==
    /\ Free(j) /\ started < MaxCalls
    /\ started' = started + 1
    /\ To(j, [IdleTool EXCEPT
              !.kind = kind, !.text = text,
              !.target = IF kind \in {"lessons", "turns"} THEN serving ELSE @,
              !.known = kind = "merge" /\ \E l \in There(Lessons) : entries[l].text = text,
              !.pc = CASE kind \in {"learn", "merge", "turn"} -> "bind"
                       [] kind = "heal" -> "ids"
                       [] OTHER -> "plan"])
    /\ UNCHANGED <<entries, fts, model, learnt, crossed, moved, misread>>

StartWriting(j) ==
    \/ \E kind \in {"learn", "merge"}, t \in Texts \ Private : Call(j, kind, t)
    \/ Call(j, "turn", CHOOSE t \in Texts : TRUE)
StartMaintenance(j) ==
    \E kind \in Deleting \cup {"lessons", "turns", "heal"} :
       Call(j, kind, CHOOSE t \in Texts : TRUE)

(***************************************************************************)
(* embeddings.embed.                                                       *)
(***************************************************************************)
BindRevision(j) ==
    /\ tools[j].pc = "bind"
    /\ To(j, [tools[j] EXCEPT !.pc = "make", !.bound = serving])
    /\ UNCHANGED <<entries, fts, model, started, learnt, crossed, moved,
                   misread>>

\* The endpoint answers, or not; a revision that changed meanwhile voids the
\* vector.
MakeVector(j) ==
    /\ tools[j].pc = "make"
    /\ \E v \in {serving, Nothing} :
         To(j, [tools[j] EXCEPT !.pc = "store",
                   !.vector = IF serving = tools[j].bound THEN v ELSE Nothing])
    /\ UNCHANGED <<entries, fts, model, started, learnt, crossed, moved,
                   misread>>

\* A vector is stored beside its provenance.
Labelled(tool) ==
    [text |-> tool.text, vector |-> tool.vector,
     label |-> IF tool.vector = Nothing THEN Nothing ELSE tool.bound]

(***************************************************************************)
(* New lessons and turns.                                                  *)
(***************************************************************************)
ExactDuplicate(text) == \E l \in There(Lessons) : entries[l].text = text
NearDuplicate(row) ==
    /\ row.vector # Nothing
    /\ \E l \in There(Lessons) :
          Comparable(entries[l], row.label) /\ Meaning(entries[l].text) = Meaning(row.text)

\* An id that was never used; which one makes no difference.
NewId == LET new == {l \in NewLessons : entries[l] = NoRow} IN
         IF new = {} THEN {} ELSE {CHOOSE l \in new : TRUE}

\* Lesson row and mirror are written together.
InsertLesson(row) ==
    /\ \E l \in NewId :
          /\ entries' = [entries EXCEPT ![l] = row]
          /\ fts' = fts \cup {l}
    /\ learnt' = learnt \cup {Meaning(row.text)}
    /\ misread' = (misread \/ \E k \in Tools : tools[k].pc = "fts")

\* finalize_lesson_distillation looks for duplicates in its transaction; the
\* merges of lesson files know the texts of when they began.
StoreLesson(j) ==
    /\ tools[j].pc = "store" /\ tools[j].kind \in {"learn", "merge"}
    /\ LET row == Labelled(tools[j])
           known == IF tools[j].kind = "merge" THEN tools[j].known
                    ELSE ExactDuplicate(row.text) IN
         IF known \/ NearDuplicate(row)
           THEN UNCHANGED <<entries, fts, learnt, misread>>
           ELSE InsertLesson(row)
    /\ Ends(j)
    /\ UNCHANGED <<model, started, crossed, moved>>

StoreTurn(j) ==
    /\ tools[j].pc = "store" /\ tools[j].kind = "turn"
    /\ \E i \in Turns : entries[i] = NoRow
                        /\ entries' = [entries EXCEPT ![i] = Labelled(tools[j])]
    /\ Ends(j)
    /\ UNCHANGED <<fts, model, started, learnt, crossed, moved, misread>>

(***************************************************************************)
(* memory_embedding_backfill and memory_interaction_embedding_backfill.    *)
(***************************************************************************)
ToRefresh(S) == [i \in Entries |-> IF i \in S THEN entries[i] ELSE NoRow]

\* The probe, the revision it left, and the batch.
SelectLessons(j) ==
    /\ tools[j].pc = "plan" /\ tools[j].kind = "lessons"
    /\ IF serving # tools[j].target THEN Ends(j)
       ELSE To(j, [tools[j] EXCEPT !.pc = "check",
                   !.left = ToRefresh({l \in There(Lessons) :
                                          NeedsRefresh(entries[l], tools[j].target)})])
    /\ UNCHANGED <<entries, fts, model, started, learnt, crossed, moved,
                   misread>>
SelectTurns(j) ==
    /\ tools[j].pc = "plan" /\ tools[j].kind = "turns"
    /\ IF serving # tools[j].target THEN Ends(j)
       ELSE To(j, [tools[j] EXCEPT !.pc = "check",
                   !.left = ToRefresh({i \in There(Turns) :
                                          TurnNeedsRefresh(entries[i], tools[j].target)})])
    /\ UNCHANGED <<entries, fts, model, started, learnt, crossed, moved,
                   misread>>

Selection(tool) == {i \in Entries : tool.left[i] # NoRow}

\* Before each row the revision is looked at again.
CheckRevision(j) ==
    /\ tools[j].pc = "check"
    /\ IF Selection(tools[j]) = {} \/ serving # tools[j].target
       THEN Ends(j)
       ELSE To(j, [tools[j] EXCEPT !.pc = "bind"])
    /\ UNCHANGED <<entries, fts, model, started, learnt, crossed, moved,
                   misread>>

\* A plausible bug: the row is refreshed whatever became of it.
StillThere(tool, i) == i \in There(Entries)

\* UPDATE ... WHERE the row is still what was selected.
StillSelected(tool, i) == entries[i] = tool.left[i]

\* The vector is stored under the revision the call set out with.
RefreshRow(j) ==
    /\ tools[j].pc = "store" /\ tools[j].kind \in {"lessons", "turns"}
    /\ \E i \in Selection(tools[j]) :
         /\ entries' = IF tools[j].vector # Nothing /\ i \in There(Entries)
                       /\ StillSelected(tools[j], i)
                    THEN [entries EXCEPT ![i] =
                            [text |-> entries[i].text, vector |-> tools[j].vector,
                             label |-> tools[j].target]]
                    ELSE entries
         /\ To(j, [tools[j] EXCEPT !.pc = "check", !.left[i] = NoRow])
    /\ UNCHANGED <<fts, model, started, learnt, crossed, moved, misread>>

(***************************************************************************)
(* Deleting: exact duplicates, near duplicates, and private lessons.       *)
(***************************************************************************)
\* One of each group is kept: which one, the usage statistics decide, and they
\* change with every outcome.
ExactPlans ==
    {D \in SUBSET There(Lessons) :
        \A l \in There(Lessons) : \E k \in There(Lessons) :
           {o \in There(Lessons) \ D : entries[o].text = entries[l].text} = {k}}

\* One of each cluster of near vectors of one revision: the longest and oldest.
Near(k, l) == /\ Usable(entries[k]) /\ entries[k].label # Nothing
              /\ Comparable(entries[l], entries[k].label)
              /\ Meaning(entries[k].text) = Meaning(entries[l].text)
Cluster(l) == {k \in There(Lessons) : Near(l, k)}
Keeper(C) == CHOOSE k \in C : Old \in C => k = Old
NearPlan == {l \in There(Lessons) : Cluster(l) # {} /\ l # Keeper(Cluster(l))}

\* The ids are given; those that are not private are refused.
PrivatePlan == {l \in There(Lessons) : entries[l].text \in Private}

Plans(kind) == CASE kind = "dedupe" -> ExactPlans
                 [] kind = "prune" -> {NearPlan}
                 [] OTHER -> {PrivatePlan}

PlanDeletions(j) ==
    /\ tools[j].pc = "plan" /\ tools[j].kind \in Deleting
    /\ \E plan \in Plans(tools[j].kind) :
         To(j, [tools[j] EXCEPT !.pc = "delete", !.plan = plan])
    /\ crossed' = (crossed \/ \E k \in Tools : tools[k].pc = "delete")
    /\ UNCHANGED <<entries, fts, model, started, learnt, moved, misread>>

\* delete_lesson, one commit each.
DeleteLesson(j) ==
    /\ tools[j].pc = "delete"
    /\ IF tools[j].plan = {} THEN Ends(j) /\ UNCHANGED <<entries, fts>>
       ELSE \E l \in tools[j].plan :
              /\ entries' = [entries EXCEPT ![l] = Deleted]
              /\ fts' = fts \ {l}
              /\ To(j, [tools[j] EXCEPT !.plan = @ \ {l}])
    /\ UNCHANGED <<model, started, learnt, crossed, moved, misread>>

(***************************************************************************)
(* self_heal: the integrity check reads lessons and mirror in turn, and    *)
(* the repair acts on what was found.                                      *)
(***************************************************************************)
ReadIds(j) ==
    /\ tools[j].pc = "ids"
    /\ To(j, [tools[j] EXCEPT !.pc = "fts", !.plan = There(Lessons)])
    /\ UNCHANGED <<entries, fts, model, started, learnt, crossed, moved,
                   misread>>

CheckMirror(j) ==
    /\ tools[j].pc = "fts"
    /\ To(j, [tools[j] EXCEPT !.pc = "heal", !.plan = There(Lessons) \ fts,
              !.orphans = fts \ tools[j].plan,
              !.bad = {l \in There(Lessons) : entries[l].vector = Damaged}])
    /\ UNCHANGED <<entries, fts, model, started, learnt, crossed, moved,
                   misread>>

Repair(j) ==
    /\ tools[j].pc = "heal"
    /\ fts' = (fts \ tools[j].orphans) \cup (tools[j].plan \cap There(Lessons))
    /\ entries' = [i \in Entries |->
                  IF i \in tools[j].bad \cap There(Lessons)
                  THEN [entries[i] EXCEPT !.vector = Nothing, !.label = Nothing]
                  ELSE entries[i]]
    /\ Ends(j)
    /\ UNCHANGED <<model, started, learnt, crossed, moved, misread>>

MemoryNext ==
    \/ \E r \in Revisions : Retag(r)
    \/ \E j \in Tools :
         \/ StartWriting(j) \/ StartMaintenance(j)
         \/ BindRevision(j) \/ MakeVector(j) \/ StoreLesson(j) \/ StoreTurn(j)
         \/ SelectLessons(j) \/ SelectTurns(j) \/ CheckRevision(j) \/ RefreshRow(j)
         \/ PlanDeletions(j) \/ DeleteLesson(j)
         \/ ReadIds(j) \/ CheckMirror(j) \/ Repair(j)

MemorySpec == MemoryInit /\ [][MemoryNext]_memoryVars
-----------------------------------------------------------------------------
\* Rows, calls and revisions are well formed.
MemoryTypeOK ==
    /\ entries \in [Entries -> LessonRow \cup {NoRow, Deleted}]
    /\ fts \subseteq Lessons /\ tools \in [Tools -> Tool]
    /\ serving \in Revisions /\ past \subseteq Revisions
    /\ retags \in 0..MaxRetags /\ started \in 0..MaxCalls

\* Deleting duplicates loses nothing: of every meaning that was ever stored
\* and is not private a lesson remains, however the calls interleave, as long
\* as no plan was made while another was being carried out.
KnowledgeKept ==
    ~crossed /\ ~moved =>
        \A m \in learnt : \/ \E t \in Private : Meaning(t) = m
                          \/ \E l \in There(Lessons) : Meaning(entries[l].text) = m

\* Vectors of different revisions are never compared: what is recalled by a
\* query of a revision was made by it, whatever was pulled, refreshed and
\* written meanwhile.
SpacesDoNotMix ==
    ~moved => \A r \in Revisions :
                 /\ \A l \in There(Lessons) : Comparable(entries[l], r) => entries[l].vector = r
                 /\ \A i \in There(Turns) : ComparableTurn(entries[i], r) => entries[i].vector = r

\* Every lesson that was added is found by full text search, though repairs
\* delete what they take for orphans.
SearchFindsLessons == ~misread => There(NewLessons) \subseteq fts

\* What was embedded by the revision that serves is not embedded anew: a slow
\* refresh of an earlier revision does not overwrite it.  (When a revision comes
\* back, a refresh of the one between may still store one row.)
FreshStays ==
    [][\A i \in Entries :
          /\ entries[i].label = serving /\ Usable(entries[i])
          /\ entries'[i] # Deleted /\ serving \notin past
          => entries'[i].label \in {serving, Nothing}]_memoryVars

MemorySound == KnowledgeKept /\ SpacesDoNotMix /\ SearchFindsLessons

\* Maintenance loses no lesson, compares no vectors of different models, and
\* embeds nothing anew that the model of now embedded.
MemoryKept == [](MemoryTypeOK /\ MemorySound) /\ FreshStays
=============================================================================
