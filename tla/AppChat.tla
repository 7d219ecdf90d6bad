------------------------------- MODULE AppChat -------------------------------
\* The chat screen of the desktop and phone application: a list of threads, the
\* messages on the screen, a question whose reply is awaited while the user
\* goes on using the screen, and the list saved on the device.
EXTENDS Naturals, Sequences, FiniteSets, SequencesExt

CONSTANTS
    Threads,         \* the ids threads can get
    MaxSends,        \* bound on the questions asked
    MaxStored        \* _maxThreads: the threads that are saved

ASSUME ChatAssumption ==
    Threads # {} /\ MaxSends \in Nat /\ MaxStored \in Nat \ {0}

VARIABLES
    screen,          \* what _ChatScreenState holds
    stored,          \* the threads on the device, the last updated first
    send,            \* the call of _send that has not returned
    sends            \* of each question: its thread, whether it has ended, and
                     \* whether the user left the thread before the reply

chatVars == <<screen, stored, send, sends>>

Message == [role : {"user", "assistant"}, of : 1..MaxSends, pending : BOOLEAN]
Question(n) == [role |-> "user", of |-> n, pending |-> FALSE]
Placeholder(n) == [role |-> "assistant", of |-> n, pending |-> TRUE]
Reply(n) == [role |-> "assistant", of |-> n, pending |-> FALSE]

\* The messages without placeholders, in their order.
Settled(messages) ==
    LET kept == {i \in DOMAIN messages : ~messages[i].pending}
        nth(k) == CHOOSE i \in kept : Cardinality({j \in kept : j <= i}) = k
    IN  [k \in 1..Cardinality(kept) |-> messages[nth(k)]]

Listed(list) == {list[i].id : i \in DOMAIN list}
RowOf(list, id) == CHOOSE i \in DOMAIN list : list[i].id = id
ThreadOf(list, id) == list[RowOf(list, id)]
\* No two threads have the same id.
OthersThan(list, id) == RemoveAt(list, RowOf(list, id))
FreshThread(id) == [id |-> id, messages |-> <<>>]

\* ChatStore.save: the most recently updated threads, up to the limit.
Capped(list) == IF Len(list) <= MaxStored THEN list ELSE SubSeq(list, 1, MaxStored)

\* A new id, which no thread has had (the time of its creation; of those
\* unused, which one makes no difference).
Unused == Threads \ (Listed(screen.threads) \cup Listed(stored) \cup screen.gone)
NewId == IF Unused = {} THEN {} ELSE {CHOOSE id \in Unused : TRUE}

Showing(thread, list) ==
    [screen EXCEPT !.threads = list, !.current = thread.id,
                   !.messages = thread.messages]

ChatInit ==
    LET id == CHOOSE id \in Threads : TRUE IN
       /\ screen = [threads |-> <<FreshThread(id)>>, current |-> id,
                    messages |-> <<>>, sending |-> FALSE, gone |-> {}]
       /\ stored = <<>>
       /\ send = [n |-> 0, at |-> "idle"]
       /\ sends = <<>>

\* The messages on the screen are replaced: whatever was asked is left.
Left == IF send.at = "asked" THEN [sends EXCEPT ![send.n].left = TRUE] ELSE sends

\* _send up to its call of the server.
Ask ==
    /\ ~screen.sending /\ Len(sends) < MaxSends
    /\ LET n == Len(sends) + 1
       IN  /\ screen' = [screen EXCEPT
                 !.messages = @ \o <<Question(n), Placeholder(n)>>, !.sending = TRUE]
           /\ send' = [n |-> n, at |-> "asked"]
           /\ sends' = Append(sends, [home |-> screen.current, left |-> FALSE,
                                      ended |-> FALSE])
    /\ UNCHANGED stored

\* Mutation: placeholders are saved with the rest.
SavedAsShown(messages) ==
    [i \in DOMAIN screen.threads |->
        IF screen.threads[i].id = screen.current
        THEN [id |-> screen.current, messages |-> messages] ELSE screen.threads[i]]

\* _saveCurrentThread: the messages on the screen, without placeholders, become
\* those of the current thread, which comes first.
Saved(messages) ==
    IF screen.current \in Listed(screen.threads)
    THEN <<[id |-> screen.current, messages |-> Settled(messages)]>>
            \o OthersThan(screen.threads, screen.current)
    ELSE screen.threads

\* The reply, or the message of a failure, takes the place of the last message
\* on the screen; without one the assignment raises.  Then the thread on the
\* screen is saved.
ReplyArrives ==
    /\ send.at = "asked"
    /\ LET shown == IF screen.messages = <<>> THEN <<>>
                    ELSE [screen.messages EXCEPT
                             ![Len(screen.messages)] = Reply(send.n)]
       IN  /\ screen' = [screen EXCEPT !.messages = shown, !.threads = Saved(shown)]
           /\ stored' = Capped(Saved(shown))
    /\ send' = [send EXCEPT !.at = "saving"]
    /\ UNCHANGED sends

\* The save has returned, and _send with it.
SendReturns ==
    /\ send.at = "saving"
    /\ screen' = [screen EXCEPT !.sending = FALSE]
    /\ send' = [n |-> 0, at |-> "idle"]
    /\ sends' = [sends EXCEPT ![send.n].ended = TRUE]
    /\ UNCHANGED stored

\* _newChat
NewChat ==
    \E id \in NewId :
       /\ screen' = Showing(FreshThread(id), <<FreshThread(id)>> \o screen.threads)
       /\ stored' = Capped(screen'.threads)
       /\ sends' = Left
       /\ UNCHANGED send

\* _switchThread
SwitchThread(id) ==
    /\ id \in Listed(screen.threads)
    /\ screen' = Showing(ThreadOf(screen.threads, id), screen.threads)
    /\ sends' = Left
    /\ UNCHANGED <<stored, send>>

\* _deleteThread: of the current thread, the next one is shown; of another, the
\* messages on the screen are those the current thread was saved with.
DeleteThread(id) ==
    /\ id \in Listed(screen.threads)
    /\ LET remaining == OthersThan(screen.threads, id)
       IN  \E list \in IF remaining = <<>>
                       THEN {<<FreshThread(fresh)>> : fresh \in NewId}
                       ELSE {remaining} :
              LET shown == IF id = screen.current THEN Head(list)
                           ELSE ThreadOf(list, screen.current)
              IN  /\ screen' = [Showing(shown, list) EXCEPT !.gone = @ \cup {id}]
                  /\ stored' = Capped(list)
    /\ sends' = Left
    /\ UNCHANGED send

\* _editProject: the current thread is saved, whatever is awaited.
EditProject ==
    /\ screen' = [screen EXCEPT !.threads = Saved(screen.messages)]
    /\ stored' = Capped(screen'.threads)
    /\ UNCHANGED <<send, sends>>

\* The application is closed and opened again: what is awaited is forgotten,
\* and _loadThreads shows what was saved.
Reopen ==
    /\ \E list \in IF stored = <<>> THEN {<<FreshThread(id)>> : id \in NewId}
                   ELSE {stored} :
          screen' = [Showing(Head(list), list) EXCEPT !.sending = FALSE,
                        !.gone = @ \cup (Listed(screen.threads) \ Listed(list))]
    /\ send' = [n |-> 0, at |-> "idle"]
    /\ sends' = IF send.at = "idle" THEN sends
                ELSE [sends EXCEPT ![send.n].left = TRUE, ![send.n].ended = TRUE]
    /\ UNCHANGED stored

ChatNext ==
    \/ Ask \/ ReplyArrives \/ SendReturns \/ NewChat \/ EditProject \/ Reopen
    \/ \E id \in Threads : SwitchThread(id) \/ DeleteThread(id)

ChatSpec == ChatInit /\ [][ChatNext]_chatVars

-----------------------------------------------------------------------------

ChatTypeOK ==
    /\ screen.threads \in Seq([id : Threads, messages : Seq(Message)])
    /\ screen.messages \in Seq(Message)
    /\ screen.current \in Listed(screen.threads) /\ screen.sending \in BOOLEAN
    /\ IsInjective([i \in DOMAIN screen.threads |-> screen.threads[i].id])
    /\ stored \in Seq([id : Threads, messages : Seq(Message)])
    /\ send.n \in 0..Len(sends) /\ send.at \in {"idle", "asked", "saving"}

AllThreads == {screen.threads[i] : i \in DOMAIN screen.threads}
                 \cup {stored[i] : i \in DOMAIN stored}

\* A reply follows its own question in every thread and on the screen, unless
\* the user left the thread before it arrived (_send).
RepliesFollowQuestions ==
    \A messages \in {t.messages : t \in AllThreads} \cup {screen.messages} :
       \A i \in DOMAIN messages :
          LET m == messages[i]
          IN  m.role = "assistant" /\ ~sends[m.of].left =>
                 i > 1 /\ messages[i-1] = Question(m.of)

\* No placeholder of an awaited reply is saved, and nothing that was asked and
\* answered in a thread the user did not leave is lost while the thread is
\* listed (_saveCurrentThread).
ExchangesAreKept ==
    /\ \A t \in AllThreads : \A i \in DOMAIN t.messages : ~t.messages[i].pending
    /\ \A n \in DOMAIN sends :
          sends[n].ended /\ ~sends[n].left
             /\ sends[n].home \in Listed(screen.threads) =>
             Contains(ThreadOf(screen.threads, sends[n].home).messages, Question(n))

\* Between two questions everything on the screen is saved, but for the threads
\* beyond the limit.
SavedIsCurrent ==
    ~screen.sending /\ stored # <<>> => stored = Capped(screen.threads)

\* The chat screen keeps what was said.
ChatSound == RepliesFollowQuestions /\ ExchangesAreKept /\ SavedIsCurrent
=============================================================================
