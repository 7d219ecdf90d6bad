-------------------------- MODULE HttpConversations --------------------------
(***************************************************************************)
(* The chat requests of the HTTP server (sonder_serve.py), each in a       *)
(* thread of its own: the rate counter of its account, the bounded table   *)
(* of conversation states with a lock each, and the answer that feedback   *)
(* is recorded for.                                                        *)
(***************************************************************************)
EXTENDS Naturals, Sequences, FiniteSets, SequencesExt

CONSTANTS
    MaxRequests,
    Conversations,  \* principal and session; an account is a principal
    NoConversation, \* a request without a session
    StateLimit,     \* HTTP_SESSION_STATE_LIMIT
    RateLimit       \* requests of an account in a window

ASSUME HttpAssumption ==
    /\ NoConversation \notin Conversations
    /\ {MaxRequests, StateLimit, RateLimit} \subseteq Nat \ {0}

\* A request also names the answer it gets and the state it makes.
Requests == 1..MaxRequests
NoRequest == 0

VARIABLES
    request,     \* the handler threads
    retained,    \* _HTTP_SESSION_STATES, least recently used first
    states,      \* the ConversationState made by a request
    rate,        \* account_rate: the row of an account and a window, or 0
    credited,    \* outcomes recorded for an answer
    pressed      \* history: the table has been full

httpVars == <<request, retained, states, rate, credited, pressed>>

tables == <<retained, states>>

RequestPhases == {"new", "counted", "admitted", "waiting", "working", "asking",
                  "replied", "done", "refused", "failed"}

Request == [pc : RequestPhases, conversation : Conversations \cup {NoConversation},
            count : Nat, state : Requests \cup {NoRequest}]

ConversationState == [holder : Requests \cup {NoRequest},
                      last : Requests \cup {NoRequest}]

Fresh == [holder |-> NoRequest, last |-> NoRequest]

HttpInit ==
    /\ request = [r \in Requests |->
                    [pc |-> "new", conversation |-> NoConversation, count |-> 0,
                     state |-> NoRequest]]
    /\ retained = <<>> /\ states = [r \in Requests |-> Fresh]
    /\ rate = 0 /\ credited = [r \in Requests |-> 0]
    /\ pressed = FALSE

RequestAt(r, pc) == request[r].pc = pc
RequestTo(r, pc) == request' = [request EXCEPT ![r].pc = pc]

-----------------------------------------------------------------------------
\* Before the conversation: validation, authorisation and the rate counter.

\* Requests are numbered as they arrive.
Arrives(r) == RequestAt(r, "new") /\ \A q \in 1..(r - 1) : ~ RequestAt(q, "new")

\* do_POST: a body, an authorisation or a command it does not accept.
RefuseRequest(r) ==
    /\ Arrives(r) /\ RequestTo(r, "refused")
    /\ UNCHANGED <<tables, rate, credited, pressed>>

\* rate_limit reads the count of its window outside a transaction; a principal
\* without an account, or without a limit, is not counted.
ReadRate(r) ==
    /\ Arrives(r)
    /\ \E limited \in BOOLEAN :
          request' = [request EXCEPT
              ![r].count = IF limited THEN rate ELSE 0,
              ![r].pc = IF limited THEN "counted" ELSE "admitted"]
    /\ UNCHANGED <<tables, rate, credited, pressed>>

\* It then writes the count; of two first requests one finds the other's row,
\* and the error leaves the handler.
WriteRate(r) ==
    LET n == request[r].count + 1
    IN  /\ RequestAt(r, "counted")
        /\ IF n = 1 /\ rate # 0
           THEN RequestTo(r, "failed") /\ UNCHANGED rate
           ELSE /\ rate' = n
                /\ request' = [request EXCEPT
                       ![r].count = n,
                       ![r].pc = IF n > RateLimit THEN "refused" ELSE "admitted"]
        /\ UNCHANGED <<tables, credited, pressed>>

-----------------------------------------------------------------------------
\* The table of conversations.

StateOf(e) == e[2]
Idle(e) == states[StateOf(e)].holder = NoRequest

\* _prune_http_session_states: the oldest state nobody holds the lock of; it
\* may be waited for.
OldestIdle(i) == Idle(retained[i]) /\ \A j \in 1..(i - 1) : ~ Idle(retained[j])

Pruned ==
    IF \E i \in DOMAIN retained : OldestIdle(i)
    THEN RemoveAt(retained, CHOOSE i \in DOMAIN retained : OldestIdle(i))
    ELSE retained

Full == Len(retained) >= StateLimit
Known(c) == \E i \in DOMAIN retained : retained[i][1] = c
PlaceOf(c) == CHOOSE i \in DOMAIN retained : retained[i][1] = c

\* The table after request r has asked for the state of conversation c.
TableWith(r, c) ==
    LET kept == IF Full THEN Pruned ELSE retained
    IN  IF Known(c)
        THEN Append(RemoveAt(retained, PlaceOf(c)), retained[PlaceOf(c)])
        ELSE IF Len(kept) >= StateLimit THEN kept
        ELSE Append(kept, <<c, r>>)

\* _http_conversation_state: the request's state, before its lock is taken.
\* A request without a session, or one that finds the table full of states in
\* use, gets a state of its own.
FindState(r, c) ==
    /\ RequestAt(r, "admitted")
    /\ request' = [request EXCEPT
           ![r].pc = "waiting", ![r].conversation = c,
           ![r].state = IF Known(c) THEN StateOf(retained[PlaceOf(c)]) ELSE r]
    /\ retained' = IF c = NoConversation THEN retained ELSE TableWith(r, c)
    /\ pressed' = (pressed \/ (c # NoConversation /\ ~ Known(c) /\ Full))
    /\ UNCHANGED <<states, rate, credited>>

\* The thread gets the lock of its state.
TakeState(r) ==
    LET s == request[r].state
    IN  /\ RequestAt(r, "waiting") /\ states[s].holder = NoRequest
        /\ states' = [states EXCEPT ![s].holder = r] /\ RequestTo(r, "working")
        /\ UNCHANGED <<retained, rate, credited, pressed>>

-----------------------------------------------------------------------------
\* Inside the conversation.

\* Mutation: the answer stays the last one.
GiveFeedbackAgain(r) ==
    LET a == states[request[r].state].last
    IN  /\ RequestAt(r, "working") /\ a # NoRequest
        /\ credited' = [credited EXCEPT ![a] = @ + 1]
        /\ RequestTo(r, "replied")
        /\ UNCHANGED <<tables, rate, pressed>>

\* /pass, /fail or plain feedback: the outcome of the last answer, once.
GiveFeedback(r) ==
    LET s == request[r].state
        a == states[s].last
    IN  /\ RequestAt(r, "working") /\ a # NoRequest
        /\ \/ /\ credited' = [credited EXCEPT ![a] = @ + 1]
              /\ states' = [states EXCEPT ![s].last = NoRequest]
              /\ RequestTo(r, "replied")
           \/ RequestTo(r, "failed") /\ UNCHANGED <<credited, states>>
        /\ UNCHANGED <<retained, rate, pressed>>

\* A command or an intent replies, or the web or a workflow answers: the
\* answer of an earlier turn remains the last one.
AnswerOtherwise(r) ==
    /\ RequestAt(r, "working") /\ RequestTo(r, "replied")
    /\ UNCHANGED <<tables, rate, credited, pressed>>

\* _run_prompt: a model call, under the lock.
AskModel(r) ==
    /\ RequestAt(r, "working") /\ RequestTo(r, "asking")
    /\ UNCHANGED <<tables, rate, credited, pressed>>

\* Its answer, captured or not; an error text leaves the state alone.
AnswerArrives(r) ==
    /\ RequestAt(r, "asking") /\ RequestTo(r, "replied")
    /\ \/ \E captured \in BOOLEAN :
             states' = [states EXCEPT ![request[r].state].last =
                           IF captured THEN r ELSE NoRequest]
       \/ UNCHANGED states
    /\ UNCHANGED <<retained, rate, credited, pressed>>

\* A scope or a hint that is not accepted; ModelCallError, or any other
\* exception: no answer.
RequestFails(r) ==
    /\ RequestAt(r, "admitted") \/ RequestAt(r, "working") \/ RequestAt(r, "asking")
    /\ RequestTo(r, "failed")
    /\ UNCHANGED <<tables, rate, credited, pressed>>

\* The response ends and the lock is released.
EndResponse(r) ==
    /\ \/ RequestAt(r, "replied")
       \/ RequestAt(r, "failed") /\ request[r].state # NoRequest
    /\ RequestTo(r, "done")
    /\ states' = [states EXCEPT ![request[r].state].holder = NoRequest]
    /\ UNCHANGED <<retained, rate, credited, pressed>>

HttpNext ==
    \E r \in Requests :
          \/ RefuseRequest(r) \/ ReadRate(r) \/ WriteRate(r)
          \/ \E c \in Conversations \cup {NoConversation} : FindState(r, c)
          \/ TakeState(r) \/ GiveFeedback(r)
          \/ AnswerOtherwise(r) \/ AskModel(r) \/ AnswerArrives(r)
          \/ RequestFails(r) \/ EndResponse(r)

HttpSpec == HttpInit /\ [][HttpNext]_httpVars

-----------------------------------------------------------------------------
\* Properties.

Answering(r) == request[r].pc \in {"working", "asking", "replied"}
SameConversation(r, q) == request[r].conversation = request[q].conversation

\* Handlers, states and counters keep their domains; the table holds at most
\* one state of a conversation, within its limit.
HttpTypeOK ==
    /\ request \in [Requests -> Request]
    /\ states \in [Requests -> ConversationState]
    /\ rate \in 0..MaxRequests
    /\ credited \in [Requests -> Nat]
    /\ pressed \in BOOLEAN
    /\ retained \in Seq(Conversations \X Requests) /\ Len(retained) <= StateLimit
    /\ \A i, j \in DOMAIN retained : retained[i][1] = retained[j][1] => i = j

\* "Mutable state for one hosted conversation, guarded by its lock": as long
\* as the table has never been full, two requests of a conversation are
\* answered one after the other, and its state is kept.
OneTurnAtATime ==
    ~ pressed =>
        \A r \in Requests : Answering(r) /\ request[r].conversation # NoConversation =>
            /\ \A q \in Requests \ {r} : Answering(q) => ~ SameConversation(r, q)
            /\ \E i \in DOMAIN retained :
                  retained[i] = <<request[r].conversation, request[r].state>>

\* An answer gets at most one outcome through HTTP, and a state remembers
\* answers of its own conversation only, whichever states were dropped.
FeedbackIsOwn ==
    /\ \A a \in Requests : credited[a] <= 1
    /\ \A s, r \in Requests : request[r].state = s =>
          LET a == states[s].last
          IN  SameConversation(r, s)
                /\ (a # NoRequest => credited[a] = 0 /\ SameConversation(a, s))

\* A request is refused for its rate only if as many of its account as the
\* limit were counted in its window; lost counts only admit more.
NoEarlyRefusal ==
    \A r \in Requests :
        request[r].pc = "refused" /\ request[r].count > 0 =>
            Cardinality({q \in Requests \ {r} :
                request[q].count > 0 /\ request[q].pc # "counted"}) >= RateLimit

\* "rather than evicting an in-flight lock": a state is not dropped while a
\* request holds its lock.
HeldStateKept ==
    [][\A i \in DOMAIN retained :
          ~ Idle(retained[i]) =>
              \E j \in DOMAIN retained' : retained'[j] = retained[i]]_httpVars

\* What the server keeps of its conversations is true of them, and kept as
\* long as it is used.
ConversationsSound ==
    [](OneTurnAtATime /\ FeedbackIsOwn /\ NoEarlyRefusal) /\ HeldStateKept
=============================================================================
