----------------------------- MODULE MCRequests -----------------------------
\* Small instances of what answers a request: a run of the agent, the chat
\* requests of the HTTP server, the turns of a session, source files edited
\* while they are in use, and the application that asks: its chats and the
\* server it starts.  They share nothing, so a
\* behaviour is one of one of them.
EXTENDS AgentLoop, HttpConversations, LiveReload, AppChat, AppLocal,
        ModelTurns, TLC

VARIABLE part

requestsVars == <<part, agentVars, httpVars, reloadVars, chatVars, localVars, modelTurnVars>>

\* What a part starts from varies in its own behaviours only.
RequestsInit ==
    /\ part \in {"agent", "http", "reload", "chat", "local", "turns"}
    /\ AgentInit /\ (part # "agent" => task = CHOOSE t \in Tasks : TRUE)
    /\ HttpInit
    /\ ReloadInit /\ (part # "reload" => http)
    /\ ChatInit
    /\ LocalInit /\ (part # "local" => port = NoChild)
    /\ ModelTurnsInit

OthersUnchanged(p, v) == part # p => UNCHANGED v

RequestsNext ==
    /\ \/ part = "agent" /\ AgentNext
       \/ part = "http" /\ HttpNext
       \/ part = "reload" /\ ReloadNext
       \/ part = "chat" /\ ChatNext
       \/ part = "local" /\ LocalNext
       \/ part = "turns" /\ ModelTurnsNext
    /\ OthersUnchanged("agent", agentVars)
    /\ OthersUnchanged("http", httpVars)
    /\ OthersUnchanged("reload", reloadVars)
    /\ OthersUnchanged("chat", chatVars)
    /\ OthersUnchanged("local", localVars)
    /\ OthersUnchanged("turns", modelTurnVars)
    /\ UNCHANGED part

RequestsSpec == RequestsInit /\ [][RequestsNext]_requestsVars

\* The state of each of them is well formed.
RequestsTypeOK ==
    /\ AgentTypeOK /\ HttpTypeOK /\ ReloadTypeOK /\ ChatTypeOK /\ LocalTypeOK
    /\ ModelTurnsTypeOK

\* The application keeps what was said in its chats, and the turns of a session
\* are summarised once, answered with all that was said, and rated by what was
\* shown (ChatSound of AppChat, ModelTurnsSound of ModelTurns); LocalSound of
\* AppLocal is checked by itself.
ApplicationSound == RequestsTypeOK /\ ChatSound /\ ModelTurnsSound
=============================================================================
