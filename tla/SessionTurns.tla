---------------------------- MODULE SessionTurns ----------------------------
(***************************************************************************)
(* Turns of remembered sessions (_sonder_impl, memory_store.py).  A turn   *)
(* takes its process's lock of the session and then the session's row of   *)
(* session_turn_claims, reads the history, answers, captures the answer,   *)
(* perhaps repairs it, and gives both back.  Threads of several processes  *)
(* run turns, and a process may die between any two database accesses.     *)
(***************************************************************************)
EXTENDS ProcessLiveness, FiniteSets

CONSTANTS
    Workers,     \* <<process, thread>>: the threads that run turns
    Sessions,
    NoClaim,     \* no row
    NoWorker,
    MaxTurns,    \* bound: turns of a thread, which are its claim tokens
    MaxFaults    \* bound: database errors

ASSUME SessionTurnsAssumption ==
    /\ \A w \in Workers : w[1] \in Instances
    /\ NoWorker \notin Workers
    /\ MaxTurns \in Nat /\ MaxFaults \in Nat
    /\ NoClaim \notin [owner : Instances, worker : Workers, token : Nat]

VARIABLES
    claims,      \* session_turn_claims
    abandoned,   \* _ABANDONED_SESSION_CLAIMS of each process
    locks,       \* locks[i][s]: the worker that holds _SESSION_TURN_LOCKS[s]
    turn,        \* what each worker does
    history,     \* captured turns of each session
    faults

turnVars == <<life, claims, abandoned, locks, turn, history, faults>>

Owner(w) == w[1]

Claims == [owner : Instances, worker : Workers, token : 1..MaxTurns]

TurnPcs == {"idle", "lock", "claim", "read", "answer", "repair", "release",
            "unlock"}

Turn == [pc : TurnPcs, session : Sessions, token : 0..MaxTurns,
         seen : Nat, tries : 0..2]

TurnsInit ==
    /\ LifeInit
    /\ claims = [s \in Sessions |-> NoClaim]
    /\ abandoned = [i \in Instances |-> {}]
    /\ locks = [i \in Instances |-> [s \in Sessions |-> NoWorker]]
    /\ turn \in [Workers -> [pc : {"idle"}, session : Sessions, token : {0},
                             seen : {0}, tries : {0}]]
    /\ history = [s \in Sessions |-> 0]
    /\ faults = 0

Held(w) == [owner |-> Owner(w), worker |-> w, token |-> turn[w].token]

Marker(s, claim) == [session |-> s, claim |-> claim]

At(w, pc, s) ==
    life[Owner(w)] = "up" /\ turn[w].pc = pc /\ turn[w].session = s

TurnTo(w, pc) == turn' = [turn EXCEPT ![w].pc = pc]

-----------------------------------------------------------------------------
BeginTurn(w, s) ==
    /\ life[Owner(w)] = "up" /\ turn[w].pc = "idle"
    /\ turn[w].token < MaxTurns
    /\ turn' = [turn EXCEPT ![w] = [pc |-> "lock", session |-> s,
                   token |-> @.token + 1, seen |-> 0, tries |-> 0]]
    /\ UNCHANGED <<life, claims, abandoned, locks, history, faults>>

\* _serialized_session_turn.
TakeLock(w, s) ==
    /\ At(w, "lock", s) /\ locks[Owner(w)][s] = NoWorker
    /\ locks' = [locks EXCEPT ![Owner(w)][s] = w]
    /\ TurnTo(w, "claim")
    /\ UNCHANGED <<life, claims, abandoned, history, faults>>

\* Mutation: an owner that cannot be inspected is taken for dead.
UnknownIsDead(w, s, state) ==
    \/ state # "alive"
    \/ /\ claims[s].owner = Owner(w)
       /\ Marker(s, claims[s]) \in abandoned[Owner(w)]

\* The claim of a dead process, or one this process has given up.
Reclaimable(w, s, state) ==
    \/ state = "dead"
    \/ /\ claims[s].owner = Owner(w)
       /\ Marker(s, claims[s]) \in abandoned[Owner(w)]

ClaimTurn(w, s) ==
    /\ At(w, "claim", s) /\ "alive" \in ProbeStates(Owner(w))
    /\ \/ claims[s] = NoClaim /\ UNCHANGED abandoned
       \/ /\ claims[s] # NoClaim
          /\ \E state \in ProbeStates(claims[s].owner) :
                Reclaimable(w, s, state)
          /\ abandoned' = [abandoned EXCEPT
                ![Owner(w)] = @ \ {Marker(s, claims[s])}]
    /\ claims' = [claims EXCEPT ![s] = Held(w)]
    /\ TurnTo(w, "read")
    /\ UNCHANGED <<life, locks, history, faults>>

\* Refused until the deadline, or an error of the database.
GiveUpTurn(w, s) ==
    /\ At(w, "claim", s) /\ TurnTo(w, "unlock")
    /\ UNCHANGED <<life, claims, abandoned, locks, history, faults>>

ReadHistory(w, s) ==
    /\ At(w, "read", s)
    /\ turn' = [turn EXCEPT ![w].pc = "answer", ![w].seen = history[s]]
    /\ UNCHANGED <<life, claims, abandoned, locks, history, faults>>

\* log_interaction.
Capture(w, s) ==
    /\ At(w, "answer", s)
    /\ history' = [history EXCEPT ![s] = @ + 1]
    /\ TurnTo(w, "repair")
    /\ UNCHANGED <<life, claims, abandoned, locks, faults>>

\* The code gate has kept or replaced the captured response, or the turn
\* raised before or after the capture; _sonder_impl's finally follows.
EndTurn(w, s) ==
    /\ \E pc \in {"read", "answer", "repair"} : At(w, pc, s)
    /\ TurnTo(w, "release")
    /\ UNCHANGED <<life, claims, abandoned, locks, history, faults>>

FreeClaim(w, s) == [claims EXCEPT ![s] = IF @ = Held(w) THEN NoClaim ELSE @]

ReleaseTurn(w, s) ==
    /\ At(w, "release", s)
    /\ claims' = FreeClaim(w, s)
    /\ abandoned' = IF claims[s] = Held(w)
                    THEN [abandoned EXCEPT
                             ![Owner(w)] = @ \ {Marker(s, Held(w))}]
                    ELSE abandoned
    /\ TurnTo(w, "unlock")
    /\ UNCHANGED <<life, locks, history, faults>>

\* Mutation: the third failure is only logged.
ReleaseFailsQuietly(w, s) ==
    /\ At(w, "release", s) /\ faults < MaxFaults /\ faults' = faults + 1
    /\ claims' \in {claims, FreeClaim(w, s)}
    /\ IF turn[w].tries < 2
       THEN turn' = [turn EXCEPT ![w].tries = @ + 1]
       ELSE TurnTo(w, "unlock")
    /\ UNCHANGED <<life, locks, history, abandoned>>

\* An error, before the row is deleted or after; the third is the last.
ReleaseFails(w, s) ==
    /\ At(w, "release", s) /\ faults < MaxFaults /\ faults' = faults + 1
    /\ claims' \in {claims, FreeClaim(w, s)}
    /\ IF turn[w].tries < 2
       THEN turn' = [turn EXCEPT ![w].tries = @ + 1] /\ UNCHANGED abandoned
       ELSE /\ TurnTo(w, "unlock")
            /\ abandoned' = [abandoned EXCEPT
                                ![Owner(w)] = @ \cup {Marker(s, Held(w))}]
    /\ UNCHANGED <<life, locks, history>>

DropLock(w, s) ==
    /\ At(w, "unlock", s) /\ locks[Owner(w)][s] = w
    /\ locks' = [locks EXCEPT ![Owner(w)][s] = NoWorker]
    /\ turn' = [turn EXCEPT ![w] = [@ EXCEPT !.pc = "idle", !.seen = 0,
                                             !.tries = 0]]
    /\ UNCHANGED <<life, claims, abandoned, history, faults>>

\* What a dead process leaves is its rows.
LifeOfTurns ==
    /\ \E i \in Instances : Start(i) \/ Kill(i)
    /\ UNCHANGED <<claims, abandoned, locks, turn, history, faults>>

TurnStep(w) ==
    \E s \in Sessions :
        \/ TakeLock(w, s) \/ ClaimTurn(w, s) \/ GiveUpTurn(w, s)
        \/ ReadHistory(w, s) \/ Capture(w, s) \/ EndTurn(w, s)
        \/ ReleaseTurn(w, s) \/ DropLock(w, s)

TurnsNext ==
    \/ \E w \in Workers : \/ TurnStep(w)
                          \/ \E s \in Sessions : BeginTurn(w, s)
                                                   \/ ReleaseFails(w, s)
    \/ LifeOfTurns

TurnsSpec == TurnsInit /\ [][TurnsNext]_turnVars

-----------------------------------------------------------------------------
\* Properties.

ClaimedPcs == {"read", "answer", "repair", "release"}

\* The tables, the locks and the workers keep their domains.
TurnsTypeOK ==
    /\ LifeTypeOK
    /\ claims \in [Sessions -> Claims \cup {NoClaim}]
    /\ abandoned \in [Instances ->
                         SUBSET [session : Sessions, claim : Claims]]
    /\ locks \in [Instances -> [Sessions -> Workers \cup {NoWorker}]]
    /\ turn \in [Workers -> Turn]
    /\ history \in [Sessions -> Nat] /\ faults \in 0..MaxFaults

\* From the history it reads to the response that is final, a turn of a live
\* process owns its session's claim, whatever other processes conclude from
\* their probes and whatever claims were abandoned before; so two turns of a
\* session never overlap (claim_session_turn: "until its token is released or
\* its owner process dies").
TurnOwnsSession ==
    \A w \in Workers :
        life[Owner(w)] = "up" /\ turn[w].pc \in {"read", "answer", "repair"}
            => claims[turn[w].session] = Held(w)

\* No claim blocks its session for ever: each belongs to a turn that will
\* release it, to a process that has died, or is marked in the memory of the
\* process that failed to release it (_release_persistent_session_turn).
ClaimsReclaimable ==
    \A s \in Sessions :
        claims[s] # NoClaim =>
            LET w == claims[s].worker
            IN  \/ life[claims[s].owner] = "gone"
                \/ Marker(s, claims[s]) \in abandoned[claims[s].owner]
                \/ /\ turn[w].pc \in ClaimedPcs
                   /\ turn[w].session = s /\ Held(w) = claims[s]
=============================================================================
