--------------------------- MODULE ServicesProofs ---------------------------
(***************************************************************************)
(* The services of a host, for every number of processes, threads and      *)
(* requests: turns own their sessions, no claim is kept for ever, lessons  *)
(* rest on evidence, and the launcher's lock covers what runs.             *)
(***************************************************************************)
EXTENDS MCServices, TLAPS

-----------------------------------------------------------------------------
\* Processes.

\* A process id has one live process at a time.
PidsUnique ==
    \A i, j \in Instances :
        life[i] = "up" /\ life[j] = "up" /\ PidOf[i] = PidOf[j] => i = j

LivesOK == LifeTypeOK /\ PidsUnique

LEMMA LivesInit == LifeInit => LivesOK
BY DEF LifeInit, LivesOK, LifeTypeOK, PidsUnique

\* What a start or an end of a process does to the others.
LEMMA LivesStep ==
    ASSUME LivesOK, NEW i \in Instances, Start(i) \/ Kill(i)
    PROVE  /\ LivesOK'
           /\ \A j \in Instances : life[j] = "gone" => life'[j] = "gone"
           /\ \A j \in Instances : life'[j] = "up" /\ life[j] # "up" => life[j] = "new"
           /\ \A j \in Instances : life'[j] = "new" => life[j] = "new"
           /\ \A j \in Instances : life[j] = "up" /\ life'[j] # "up" => life'[j] = "gone"
BY DEF LivesOK, LifeTypeOK, PidsUnique, Start, Kill

\* A probe never takes a live process for a dead one, whoever had its id
\* before.
LEMMA LiveIsNotDead ==
    ASSUME LivesOK, NEW i \in Instances, life[i] = "up"
    PROVE  "dead" \notin ProbeStates(i)
<1>1. {j \in Instances : life[j] = "up" /\ PidOf[j] = PidOf[i]} = {i}
  BY DEF LivesOK, PidsUnique
<1>2. PlatformProbe(PidOf[i]) =
        {[state |-> "unknown", identity |-> NoIdentity]}
          \cup [state : {"alive"}, identity : {i}]
          \cup {[state |-> "alive", identity |-> NoIdentity]}
  BY <1>1 DEF PlatformProbe
<1>3. ASSUME NEW answer \in PlatformProbe(PidOf[i])
      PROVE  Judge(answer, i) # "dead"
  BY <1>2, InstancesAssumption DEF Judge
<1>4. QED
  BY <1>3 DEF ProbeStates

-----------------------------------------------------------------------------
\* Turns of sessions.

\* A turn that has begun has a token and a process that has started.
TurnsBegun ==
    \A w \in Workers :
        turn[w].pc # "idle" => turn[w].token # 0 /\ life[Owner(w)] # "new"

\* What a process has given up is no claim of a turn that still counts on it.
MarkersPast ==
    \A i \in Instances : \A m \in abandoned[i] :
        LET v == m.claim.worker
        IN  /\ m.claim.token <= turn[v].token
            /\ m.claim.token = turn[v].token => turn[v].pc \in {"unlock", "idle"}

\* A claim names the process of its thread.
ClaimsOwned ==
    \A s \in Sessions :
        claims[s] # NoClaim => claims[s].owner = Owner(claims[s].worker)

TurnsInv ==
    /\ TurnsTypeOK /\ PidsUnique /\ TurnsBegun /\ MarkersPast /\ ClaimsOwned
    /\ TurnOwnsSession /\ ClaimsReclaimable

\* A claim of session s, of thread v, will be given back or can be taken.
Reclaims(s, v) ==
    \/ life[claims[s].owner] = "gone"
    \/ Marker(s, claims[s]) \in abandoned[claims[s].owner]
    \/ /\ turn[v].pc \in ClaimedPcs
       /\ turn[v].session = s /\ Held(v) = claims[s]

TurnOK == turn \in [Workers -> Turn]

\* Only the pc of w changes, and what no property looks at.
TurnMoves(w, pc) ==
    /\ \A v \in Workers : /\ turn'[v].session = turn[v].session
                          /\ turn'[v].token = turn[v].token
    /\ \A v \in Workers \ {w} : turn'[v].pc = turn[v].pc
    /\ turn'[w].pc = pc

\* Types.
LEMMA PcRow ==
    ASSUME NEW T \in Turn, NEW pc \in TurnPcs
    PROVE  [T EXCEPT !.pc = pc] \in Turn
BY ZenonT(30) DEF Turn

LEMMA SeenRow ==
    ASSUME NEW T \in Turn, NEW pc \in TurnPcs, NEW n \in Nat
    PROVE  [T EXCEPT !.pc = pc, !.seen = n] \in Turn
BY ZenonT(30) DEF Turn

LEMMA TriesRow ==
    ASSUME NEW T \in Turn, NEW n \in 0..2
    PROVE  [T EXCEPT !.tries = n] \in Turn
BY ZenonT(30) DEF Turn

LEMMA IdleRow ==
    ASSUME NEW T \in Turn
    PROVE  [T EXCEPT !.pc = "idle", !.seen = 0, !.tries = 0] \in Turn
<1>1. "idle" \in TurnPcs /\ 0 \in Nat /\ 0 \in 0..2
  BY DEF TurnPcs
<1>2. QED
  BY <1>1, ZenonT(30) DEF Turn

LEMMA TurnTyped ==
    ASSUME TurnOK, NEW w \in Workers, NEW T \in Turn, turn' = [turn EXCEPT ![w] = T]
    PROVE  TurnOK'
BY DEF TurnOK

LEMMA PcStep ==
    ASSUME TurnOK, NEW w \in Workers, NEW pc \in TurnPcs, TurnTo(w, pc)
    PROVE  TurnOK' /\ TurnMoves(w, pc)
<1>1. turn' = [turn EXCEPT ![w] = [turn[w] EXCEPT !.pc = pc]]
  BY DEF TurnOK, TurnTo
<1>2. [turn[w] EXCEPT !.pc = pc] \in Turn
  BY PcRow DEF TurnOK
<1>3. TurnOK'
  BY <1>1, <1>2, TurnTyped
<1>4. QED
  BY <1>1, <1>3 DEF TurnOK, Turn, TurnMoves

LEMMA SeenStep ==
    ASSUME TurnOK, NEW w \in Workers, NEW n \in Nat,
           turn' = [turn EXCEPT ![w].pc = "answer", ![w].seen = n]
    PROVE  TurnOK' /\ TurnMoves(w, "answer")
<1>1. turn' = [turn EXCEPT ![w] = [turn[w] EXCEPT !.pc = "answer", !.seen = n]]
  BY DEF TurnOK
<1>2. [turn[w] EXCEPT !.pc = "answer", !.seen = n] \in Turn
  BY SeenRow DEF TurnOK, TurnPcs
<1>3. TurnOK'
  BY <1>1, <1>2, TurnTyped
<1>4. QED
  BY <1>1, <1>3 DEF TurnOK, Turn, TurnMoves

LEMMA TriesStep ==
    ASSUME TurnOK, NEW w \in Workers, turn[w].tries < 2,
           turn' = [turn EXCEPT ![w].tries = @ + 1]
    PROVE  TurnOK' /\ TurnMoves(w, turn[w].pc)
<1>1. turn' = [turn EXCEPT ![w] = [turn[w] EXCEPT !.tries = turn[w].tries + 1]]
  BY DEF TurnOK
<1>2. turn[w].tries + 1 \in 0..2
  BY DEF TurnOK, Turn
<1>3. [turn[w] EXCEPT !.tries = turn[w].tries + 1] \in Turn
  BY <1>2, TriesRow DEF TurnOK
<1>4. TurnOK'
  BY <1>1, <1>3, TurnTyped
<1>5. QED
  BY <1>1, <1>4 DEF TurnOK, Turn, TurnMoves

LEMMA IdleStep ==
    ASSUME TurnOK, NEW w \in Workers,
           turn' = [turn EXCEPT ![w] = [@ EXCEPT !.pc = "idle", !.seen = 0,
                                                 !.tries = 0]]
    PROVE  TurnOK' /\ TurnMoves(w, "idle")
<1>1. turn' = [turn EXCEPT ![w] = [turn[w] EXCEPT !.pc = "idle", !.seen = 0,
                                                  !.tries = 0]]
  BY DEF TurnOK
<1>2. [turn[w] EXCEPT !.pc = "idle", !.seen = 0, !.tries = 0] \in Turn
  BY IdleRow DEF TurnOK
<1>3. TurnOK'
  BY <1>1, <1>2, TurnTyped
<1>4. QED
  BY <1>1, <1>3 DEF TurnOK, Turn, TurnMoves

LEMMA HeldTyped ==
    ASSUME TurnOK, NEW w \in Workers, turn[w].token # 0
    PROVE  /\ Held(w) \in Claims /\ Held(w) # NoClaim
           /\ Owner(w) \in Instances
BY SessionTurnsAssumption DEF TurnOK, Turn, Held, Claims, Owner

LEMMA ClaimIsThere ==
    ASSUME NEW c \in Claims
    PROVE  c # NoClaim /\ c.owner \in Instances /\ c.worker \in Workers
             /\ c.token \in Nat
BY SessionTurnsAssumption DEF Claims

LEMMA HeldKept ==
    ASSUME TurnOK, NEW w \in Workers, NEW pc, TurnMoves(w, pc), NEW v \in Workers
    PROVE  Held(v)' = Held(v)
BY DEF TurnMoves, Held

\* A step in which no claim and no marker changes.
LEMMA QuietTurn ==
    ASSUME TurnsInv, TurnsTypeOK', UNCHANGED <<life, claims, abandoned>>,
           NEW w \in Workers, NEW pc, TurnMoves(w, pc), turn[w].pc # "idle",
           \/ {turn[w].pc, pc} \subseteq {"read", "answer", "repair"}
           \/ /\ pc \in ClaimedPcs \ {"read", "answer", "repair"}
              /\ turn[w].pc \in ClaimedPcs
           \/ turn[w].pc \notin ClaimedPcs /\ pc \in {"lock", "claim", "unlock", "idle"}
                /\ (turn[w].pc = "unlock" => pc \in {"unlock", "idle"})
    PROVE  TurnsInv'
<1>1. TurnOK /\ \A v \in Workers : Held(v)' = Held(v)
  BY HeldKept DEF TurnsInv, TurnsTypeOK, TurnOK
<1>2. PidsUnique' /\ ClaimsOwned'
  BY DEF TurnsInv, PidsUnique, ClaimsOwned
<1>3. TurnsBegun'
  BY DEF TurnsInv, TurnsBegun, TurnMoves
<1>4. MarkersPast'
  <2>1. SUFFICES ASSUME NEW i \in Instances, NEW m \in abandoned[i]
                 PROVE  /\ m.claim.token <= turn'[m.claim.worker].token
                        /\ m.claim.token = turn'[m.claim.worker].token
                             => turn'[m.claim.worker].pc \in {"unlock", "idle"}
    BY DEF MarkersPast
  <2>2. m.claim \in Claims
    BY DEF TurnsInv, TurnsTypeOK
  <2>3. /\ m.claim.token <= turn[m.claim.worker].token
        /\ m.claim.token = turn[m.claim.worker].token
             => turn[m.claim.worker].pc \in {"unlock", "idle"}
    BY DEF TurnsInv, MarkersPast
  <2>4. QED
    BY <2>2, <2>3, ClaimIsThere DEF TurnMoves, ClaimedPcs
<1>5. TurnOwnsSession'
  BY <1>1 DEF TurnsInv, TurnOwnsSession, TurnMoves, ClaimedPcs
<1>6. ClaimsReclaimable'
  <2>1. SUFFICES ASSUME NEW s \in Sessions, claims[s] # NoClaim
                 PROVE  Reclaims(s, claims[s].worker)'
    BY DEF ClaimsReclaimable, Reclaims
  <2>2. claims[s] \in Claims /\ Reclaims(s, claims[s].worker)
    BY <2>1 DEF TurnsInv, TurnsTypeOK, ClaimsReclaimable, Reclaims
  <2>3. claims[s].worker \in Workers
    BY <2>2, ClaimIsThere
  <2>4. turn[claims[s].worker].pc \in ClaimedPcs
          => turn'[claims[s].worker].pc \in ClaimedPcs
    BY <2>3 DEF TurnMoves, ClaimedPcs
  <2>5. QED
    BY <1>1, <2>2, <2>3, <2>4 DEF Reclaims, TurnMoves, Marker
<1>7. QED
  BY <1>2, <1>3, <1>4, <1>5, <1>6 DEF TurnsInv

LEMMA BeginTurnStep ==
    ASSUME TurnsInv, NEW w \in Workers, NEW s \in Sessions, BeginTurn(w, s)
    PROVE  TurnsInv'
<1> DEFINE T == [pc |-> "lock", session |-> s, token |-> turn[w].token + 1,
                 seen |-> 0, tries |-> 0]
<1>1. TurnOK /\ turn' = [turn EXCEPT ![w] = T]
  BY DEF TurnsInv, TurnsTypeOK, TurnOK, BeginTurn
<1>2. turn[w].token \in Nat /\ turn[w].token < MaxTurns /\ turn[w].pc = "idle"
  BY <1>1 DEF TurnOK, Turn, BeginTurn
<1>3. T \in Turn
  BY <1>2, SessionTurnsAssumption DEF Turn, TurnPcs
<1>4. TurnOK' /\ turn'[w] = T /\ \A v \in Workers \ {w} : turn'[v] = turn[v]
  BY <1>1, <1>3, TurnTyped DEF TurnOK
<1>5. UNCHANGED <<life, claims, abandoned, locks, history, faults>>
  BY DEF BeginTurn
<1>6. TurnsTypeOK' /\ PidsUnique' /\ ClaimsOwned' /\ TurnsBegun'
  BY <1>2, <1>4, <1>5
  DEF TurnsInv, TurnsTypeOK, LifeTypeOK, PidsUnique, ClaimsOwned, TurnsBegun, TurnOK,
      BeginTurn
<1>7. MarkersPast'
  <2>1. SUFFICES ASSUME NEW i \in Instances, NEW m \in abandoned[i]
                 PROVE  /\ m.claim.token <= turn'[m.claim.worker].token
                        /\ m.claim.token = turn'[m.claim.worker].token
                             => turn'[m.claim.worker].pc \in {"unlock", "idle"}
    BY <1>5 DEF MarkersPast
  <2>2. m.claim \in Claims
    BY DEF TurnsInv, TurnsTypeOK
  <2>3. /\ m.claim.token <= turn[m.claim.worker].token
        /\ m.claim.token = turn[m.claim.worker].token
             => turn[m.claim.worker].pc \in {"unlock", "idle"}
    BY DEF TurnsInv, MarkersPast
  <2>4. QED
    BY <1>2, <1>4, <2>2, <2>3, ClaimIsThere
<1>8. \A v \in Workers \ {w} : Held(v)' = Held(v)
  BY <1>4 DEF Held
<1>9. TurnOwnsSession'
  BY <1>4, <1>5, <1>8 DEF TurnsInv, TurnOwnsSession
<1>10. ClaimsReclaimable'
  <2>1. SUFFICES ASSUME NEW q \in Sessions, claims[q] # NoClaim
                 PROVE  Reclaims(q, claims[q].worker)'
    BY <1>5 DEF ClaimsReclaimable, Reclaims
  <2>2. claims[q] \in Claims /\ Reclaims(q, claims[q].worker)
    BY <2>1 DEF TurnsInv, TurnsTypeOK, ClaimsReclaimable, Reclaims
  <2>3. claims[q].worker \in Workers
    BY <2>2, ClaimIsThere
  <2>4. turn[w].pc \notin ClaimedPcs
    BY <1>2 DEF ClaimedPcs
  <2>5. QED
    BY <1>4, <1>5, <1>8, <2>2, <2>3, <2>4 DEF Reclaims, Marker
<1>11. QED
  BY <1>6, <1>7, <1>9, <1>10 DEF TurnsInv

\* The steps that touch no claim.
LEMMA QuietTurnSteps ==
    ASSUME TurnsInv, NEW w \in Workers, NEW s \in Sessions,
           \/ TakeLock(w, s) \/ GiveUpTurn(w, s) \/ ReadHistory(w, s)
           \/ Capture(w, s) \/ EndTurn(w, s) \/ DropLock(w, s)
    PROVE  TurnsInv'
<1>1. TurnOK /\ Owner(w) \in Instances /\ history[s] \in Nat
  BY SessionTurnsAssumption DEF TurnsInv, TurnsTypeOK, TurnOK, Owner
<1>2. CASE TakeLock(w, s)
  <2>1. TurnOK' /\ TurnMoves(w, "claim") /\ turn[w].pc = "lock"
    BY <1>1, <1>2, PcStep DEF TakeLock, At, TurnPcs
  <2>2. TurnsTypeOK' /\ UNCHANGED <<life, claims, abandoned>>
    BY <1>1, <1>2, <2>1 DEF TakeLock, TurnsInv, TurnsTypeOK, LifeTypeOK, TurnOK
  <2>3. QED
    BY <2>1, <2>2, QuietTurn DEF ClaimedPcs
<1>3. CASE GiveUpTurn(w, s)
  <2>1. TurnOK' /\ TurnMoves(w, "unlock") /\ turn[w].pc = "claim"
    BY <1>1, <1>3, PcStep DEF GiveUpTurn, At, TurnPcs
  <2>2. TurnsTypeOK' /\ UNCHANGED <<life, claims, abandoned>>
    BY <1>3, <2>1 DEF GiveUpTurn, TurnsInv, TurnsTypeOK, LifeTypeOK, TurnOK
  <2>3. QED
    BY <2>1, <2>2, QuietTurn DEF ClaimedPcs
<1>4. CASE ReadHistory(w, s)
  <2>1. TurnOK' /\ TurnMoves(w, "answer") /\ turn[w].pc = "read"
    BY <1>1, <1>4, SeenStep DEF ReadHistory, At
  <2>2. TurnsTypeOK' /\ UNCHANGED <<life, claims, abandoned>>
    BY <1>4, <2>1 DEF ReadHistory, TurnsInv, TurnsTypeOK, LifeTypeOK, TurnOK
  <2>3. QED
    BY <2>1, <2>2, QuietTurn
<1>5. CASE Capture(w, s)
  <2>1. TurnOK' /\ TurnMoves(w, "repair") /\ turn[w].pc = "answer"
    BY <1>1, <1>5, PcStep DEF Capture, At, TurnPcs
  <2>2. TurnsTypeOK' /\ UNCHANGED <<life, claims, abandoned>>
    BY <1>1, <1>5, <2>1 DEF Capture, TurnsInv, TurnsTypeOK, LifeTypeOK, TurnOK
  <2>3. QED
    BY <2>1, <2>2, QuietTurn
<1>6. CASE EndTurn(w, s)
  <2>1. TurnOK' /\ TurnMoves(w, "release") /\ turn[w].pc \in {"read", "answer", "repair"}
    BY <1>1, <1>6, PcStep DEF EndTurn, At, TurnPcs
  <2>2. TurnsTypeOK' /\ UNCHANGED <<life, claims, abandoned>>
    BY <1>6, <2>1 DEF EndTurn, TurnsInv, TurnsTypeOK, LifeTypeOK, TurnOK
  <2>3. QED
    BY <2>1, <2>2, QuietTurn DEF ClaimedPcs
<1>7. CASE DropLock(w, s)
  <2>1. TurnOK' /\ TurnMoves(w, "idle") /\ turn[w].pc = "unlock"
    BY <1>1, <1>7, IdleStep DEF DropLock, At
  <2>2. TurnsTypeOK' /\ UNCHANGED <<life, claims, abandoned>>
    BY <1>1, <1>7, <2>1 DEF DropLock, TurnsInv, TurnsTypeOK, LifeTypeOK, TurnOK
  <2>3. QED
    BY <2>1, <2>2, QuietTurn DEF ClaimedPcs
<1>8. QED
  BY <1>2, <1>3, <1>4, <1>5, <1>6, <1>7

\* A claim is taken that is free, or whose turn no longer counts on it.
LEMMA ClaimTurnStep ==
    ASSUME TurnsInv, NEW w \in Workers, NEW s \in Sessions, ClaimTurn(w, s)
    PROVE  TurnsInv'
<1>1. /\ TurnOK /\ turn[w].pc = "claim" /\ turn[w].session = s
      /\ life[Owner(w)] = "up" /\ turn[w].token # 0
  BY DEF TurnsInv, TurnsTypeOK, TurnOK, TurnsBegun, ClaimTurn, At
<1>2. TurnOK' /\ TurnMoves(w, "read")
  BY <1>1, PcStep DEF ClaimTurn, TurnPcs
<1>3. Held(w) \in Claims /\ Owner(w) \in Instances
  BY <1>1, HeldTyped
<1>4. UNCHANGED <<life, locks, history, faults>> /\ claims' = [claims EXCEPT ![s] = Held(w)]
  BY DEF ClaimTurn
<1>5. /\ \A i \in Instances : abandoned'[i] \subseteq abandoned[i]
      /\ abandoned' \in [Instances -> SUBSET [session : Sessions, claim : Claims]]
      /\ \A i \in Instances : \A m \in abandoned[i] \ abandoned'[i] :
            m = Marker(s, claims[s])
  BY DEF ClaimTurn, TurnsInv, TurnsTypeOK
<1>6. TurnsTypeOK' /\ PidsUnique'
  BY <1>2, <1>3, <1>4, <1>5 DEF TurnsInv, TurnsTypeOK, LifeTypeOK, PidsUnique, TurnOK
<1>7. /\ claims'[s] = Held(w) /\ \A q \in Sessions \ {s} : claims'[q] = claims[q]
      /\ Held(w).owner = Owner(w) /\ Held(w).worker = w
      /\ \A v \in Workers : Held(v)' = Held(v)
  BY <1>1, <1>2, <1>4, HeldKept DEF TurnsInv, TurnsTypeOK, Held
<1>8. ClaimsOwned' /\ TurnsBegun'
  BY <1>1, <1>2, <1>4, <1>7 DEF TurnsInv, ClaimsOwned, TurnsBegun, TurnMoves
<1>9. MarkersPast'
  <2>1. SUFFICES ASSUME NEW i \in Instances, NEW m \in abandoned[i]
                 PROVE  /\ m.claim.token <= turn'[m.claim.worker].token
                        /\ m.claim.token = turn'[m.claim.worker].token
                             => turn'[m.claim.worker].pc \in {"unlock", "idle"}
    BY <1>5 DEF MarkersPast
  <2>2. m.claim \in Claims
    BY DEF TurnsInv, TurnsTypeOK
  <2>3. /\ m.claim.token <= turn[m.claim.worker].token
        /\ m.claim.token = turn[m.claim.worker].token
             => turn[m.claim.worker].pc \in {"unlock", "idle"}
    BY DEF TurnsInv, MarkersPast
  <2>4. QED
    BY <1>1, <1>2, <2>2, <2>3, ClaimIsThere DEF TurnMoves
<1>10. TurnOwnsSession'
  <2>1. SUFFICES ASSUME NEW v \in Workers, life[Owner(v)] = "up",
                        turn'[v].pc \in {"read", "answer", "repair"}
                 PROVE  claims'[turn[v].session] = Held(v)
    BY <1>2, <1>4, <1>7 DEF TurnOwnsSession, TurnMoves
  <2>2. CASE v = w
    BY <1>1, <1>7, <2>2
  <2>3. CASE v # w
    <3>1. turn[v].pc \in {"read", "answer", "repair"} /\ claims[turn[v].session] = Held(v)
      BY <1>2, <2>1, <2>3 DEF TurnMoves, TurnsInv, TurnOwnsSession
    <3>2. turn[v].session \in Sessions /\ Owner(v) \in Instances /\ turn[v].token # 0
      BY <1>1, <3>1, SessionTurnsAssumption
      DEF TurnOK, Turn, TurnsInv, TurnsBegun, Owner
    <3>3. ASSUME turn[v].session = s PROVE FALSE
      <4>1. claims[s] = Held(v) /\ Held(v) # NoClaim /\ claims[s].owner = Owner(v)
        BY <1>1, <3>1, <3>2, <3>3, HeldTyped DEF Held
      <4>2. "dead" \notin ProbeStates(Owner(v))
        BY <2>1, <3>2, LiveIsNotDead DEF LivesOK, TurnsInv, TurnsTypeOK
      <4>3. Marker(s, claims[s]) \in abandoned[Owner(w)]
        BY <4>1, <4>2 DEF ClaimTurn, Reclaimable
      <4>4. Held(v).token = turn[v].token /\ Held(v).worker = v
        BY DEF Held
      <4>5. turn[v].pc \in {"unlock", "idle"}
        BY <1>3, <4>1, <4>3, <4>4 DEF TurnsInv, MarkersPast, Marker
      <4>6. QED
        BY <3>1, <4>5
    <3>4. QED
      BY <1>7, <3>1, <3>2, <3>3
  <2>4. QED
    BY <2>2, <2>3
<1>11. ClaimsReclaimable'
  <2>1. SUFFICES ASSUME NEW q \in Sessions, claims'[q] # NoClaim
                 PROVE  Reclaims(q, claims[q].worker)'
    BY DEF ClaimsReclaimable, Reclaims
  <2>2. CASE q = s
    BY <1>1, <1>2, <1>7, <2>2 DEF Reclaims, TurnMoves, ClaimedPcs
  <2>3. CASE q # s
    <3>1. claims'[q] = claims[q] /\ claims[q] \in Claims /\ Reclaims(q, claims[q].worker)
      BY <1>7, <2>1, <2>3 DEF TurnsInv, TurnsTypeOK, ClaimsReclaimable, Reclaims
    <3>2. claims[q].worker \in Workers /\ claims[q].owner \in Instances
      BY <3>1, ClaimIsThere
    <3>3. claims[q].worker = w => turn[w].pc \notin ClaimedPcs
      BY <1>1 DEF ClaimedPcs
    <3>4. Marker(q, claims[q]) # Marker(s, claims[s])
      BY <2>3 DEF Marker
    <3>5. Marker(q, claims[q]) \in abandoned[claims[q].owner]
            => Marker(q, claims[q]) \in abandoned'[claims[q].owner]
      BY <1>5, <3>2, <3>4
    <3>6. QED
      BY <1>2, <1>4, <1>7, <3>1, <3>2, <3>3, <3>5 DEF Reclaims, TurnMoves, Marker
  <2>4. QED
    BY <2>2, <2>3
<1>12. QED
  BY <1>6, <1>8, <1>9, <1>10, <1>11 DEF TurnsInv

\* A thread in "release" gives back its claim, or not; whether it does is
\* recorded, or it goes on trying.
LEMMA ReleaseStep ==
    ASSUME TurnsInv, NEW w \in Workers, NEW s \in Sessions, At(w, "release", s),
           claims' \in {claims, FreeClaim(w, s)}, UNCHANGED <<life, locks, history>>,
           faults' \in 0..MaxFaults,
           NEW pc \in {"release", "unlock"}, TurnOK', TurnMoves(w, pc),
           \A i \in Instances : abandoned'[i] \ abandoned[i]
                \subseteq IF pc = "unlock" /\ i = Owner(w) THEN {Marker(s, Held(w))} ELSE {},
           abandoned' \in [Instances -> SUBSET [session : Sessions, claim : Claims]],
           \A i \in Instances : \A m \in abandoned[i] \ abandoned'[i] :
                m = Marker(s, Held(w)) /\ claims' = FreeClaim(w, s),
           pc = "unlock" => \/ claims' = FreeClaim(w, s)
                            \/ Marker(s, Held(w)) \in abandoned'[Owner(w)]
    PROVE  TurnsInv'
<1>1. /\ TurnOK /\ turn[w].pc = "release" /\ turn[w].session = s /\ turn[w].token # 0
  BY DEF TurnsInv, TurnsTypeOK, TurnOK, TurnsBegun, At
<1>2. Held(w) \in Claims /\ Held(w) # NoClaim /\ Owner(w) \in Instances
  BY <1>1, HeldTyped
<1>3. /\ \A q \in Sessions \ {s} : claims'[q] = claims[q]
      /\ claims'[s] # claims[s] => claims[s] = Held(w) /\ claims'[s] = NoClaim
      /\ claims' = FreeClaim(w, s) => claims'[s] # Held(w)
      /\ claims' \in [Sessions -> Claims \cup {NoClaim}]
  BY <1>2 DEF TurnsInv, TurnsTypeOK, FreeClaim
<1>4. \A v \in Workers : Held(v)' = Held(v)
  BY <1>1, HeldKept
<1>5. /\ Held(w).owner = Owner(w) /\ Held(w).worker = w /\ Held(w).token = turn[w].token
  BY DEF Held
<1>6. TurnsTypeOK' /\ PidsUnique' /\ ClaimsOwned' /\ TurnsBegun'
  <2>1. TurnsTypeOK' /\ PidsUnique'
    BY <1>3 DEF TurnsInv, TurnsTypeOK, LifeTypeOK, PidsUnique, TurnOK
  <2>2. ClaimsOwned'
    BY <1>3 DEF TurnsInv, ClaimsOwned
  <2>3. TurnsBegun'
    BY <1>1 DEF TurnsInv, TurnsBegun, TurnMoves
  <2>4. QED
    BY <2>1, <2>2, <2>3
<1>7. MarkersPast'
  <2>1. SUFFICES ASSUME NEW i \in Instances, NEW m \in abandoned'[i]
                 PROVE  /\ m.claim.token <= turn'[m.claim.worker].token
                        /\ m.claim.token = turn'[m.claim.worker].token
                             => turn'[m.claim.worker].pc \in {"unlock", "idle"}
    BY DEF MarkersPast
  <2>2. CASE m \in abandoned[i]
    <3>2. m.claim \in Claims
      BY <2>2 DEF TurnsInv, TurnsTypeOK
    <3>3. /\ m.claim.token <= turn[m.claim.worker].token
          /\ m.claim.token = turn[m.claim.worker].token
               => turn[m.claim.worker].pc \in {"unlock", "idle"}
      BY <2>2 DEF TurnsInv, MarkersPast
    <3>4. QED
      BY <1>1, <3>2, <3>3, ClaimIsThere DEF TurnMoves
  <2>3. CASE m \notin abandoned[i]
    <3>1. pc = "unlock" /\ m = Marker(s, Held(w))
      BY <2>1, <2>3
    <3>2. m.claim.token = turn[w].token /\ m.claim.worker = w
      BY <1>5, <3>1 DEF Marker
    <3>3. turn'[w].token = turn[w].token /\ turn'[w].pc = "unlock" /\ turn[w].token \in Nat
      BY <1>1, <3>1 DEF TurnMoves, TurnOK, Turn
    <3>4. QED
      BY <3>2, <3>3
  <2>4. QED
    BY <2>2, <2>3
<1>8. TurnOwnsSession'
  <2>1. SUFFICES ASSUME NEW v \in Workers, life[Owner(v)] = "up",
                        turn'[v].pc \in {"read", "answer", "repair"}
                 PROVE  claims'[turn[v].session] = Held(v)
    BY <1>4 DEF TurnOwnsSession, TurnMoves
  <2>2. v # w /\ turn[v].pc = turn'[v].pc
    BY <2>1 DEF TurnMoves
  <2>3. claims[turn[v].session] = Held(v) /\ turn[v].session \in Sessions
    BY <1>1, <2>1, <2>2 DEF TurnsInv, TurnOwnsSession, TurnOK, Turn
  <2>4. Held(v) # Held(w)
    BY <1>5, <2>2 DEF Held
  <2>5. QED
    BY <1>3, <2>3, <2>4
<1>9. ClaimsReclaimable'
  <2>1. SUFFICES ASSUME NEW q \in Sessions, claims'[q] # NoClaim
                 PROVE  Reclaims(q, claims[q].worker)'
    BY DEF ClaimsReclaimable, Reclaims
  <2>2. claims'[q] = claims[q] /\ claims[q] \in Claims /\ Reclaims(q, claims[q].worker)
    BY <1>3, <2>1 DEF TurnsInv, TurnsTypeOK, ClaimsReclaimable, Reclaims
  <2>3. claims[q].worker \in Workers /\ claims[q].owner \in Instances
    BY <2>2, ClaimIsThere
  <2>4. CASE claims[q] = Held(w) /\ q = s
    <3>1. claims' # FreeClaim(w, s)
      BY <1>3, <2>2, <2>4
    <3>2. pc = "unlock" => Marker(q, claims[q]) \in abandoned'[claims[q].owner]
      BY <1>5, <2>4, <3>1
    <3>3. pc = "release" => turn'[w].pc \in ClaimedPcs
      BY DEF TurnMoves, ClaimedPcs
    <3>4. Held(w)' = claims[q] /\ turn'[w].session = q /\ claims[q].worker = w
      BY <1>1, <1>4, <1>5, <2>4 DEF TurnMoves
    <3>5. QED
      BY <2>2, <3>2, <3>3, <3>4 DEF Reclaims, Marker
  <2>5. CASE ~ (claims[q] = Held(w) /\ q = s)
    <3>1. Marker(q, claims[q]) # Marker(s, Held(w))
      BY <2>5 DEF Marker
    <3>2. Marker(q, claims[q]) \in abandoned[claims[q].owner]
            => Marker(q, claims[q]) \in abandoned'[claims[q].owner]
      BY <2>3, <3>1
    <3>3. claims[q].worker = w => ~ (turn[w].session = q /\ Held(w) = claims[q])
      BY <1>1, <2>5
    <3>4. QED
      BY <1>4, <2>2, <2>3, <3>2, <3>3 DEF Reclaims, TurnMoves, Marker
  <2>6. QED
    BY <2>4, <2>5
<1>10. QED
  BY <1>6, <1>7, <1>8, <1>9 DEF TurnsInv

LEMMA ReleaseTurnStep ==
    ASSUME TurnsInv, NEW w \in Workers, NEW s \in Sessions, ReleaseTurn(w, s)
    PROVE  TurnsInv'
<1>1. /\ TurnOK /\ TurnOK' /\ TurnMoves(w, "unlock") /\ faults' \in 0..MaxFaults
      /\ At(w, "release", s) /\ claims' = FreeClaim(w, s)
      /\ UNCHANGED <<life, locks, history>>
  BY PcStep DEF TurnsInv, TurnsTypeOK, TurnOK, ReleaseTurn, TurnPcs
<1>2. /\ \A i \in Instances : abandoned'[i] \subseteq abandoned[i]
      /\ abandoned' \in [Instances -> SUBSET [session : Sessions, claim : Claims]]
      /\ \A i \in Instances : \A m \in abandoned[i] \ abandoned'[i] :
            m = Marker(s, Held(w))
  BY DEF ReleaseTurn, TurnsInv, TurnsTypeOK
<1>3. QED
  BY <1>1, <1>2, ReleaseStep

LEMMA ReleaseFailsStep ==
    ASSUME TurnsInv, NEW w \in Workers, NEW s \in Sessions, ReleaseFails(w, s)
    PROVE  TurnsInv'
<1>1. /\ TurnOK /\ At(w, "release", s) /\ claims' \in {claims, FreeClaim(w, s)}
      /\ UNCHANGED <<life, locks, history>> /\ faults' \in 0..MaxFaults
      /\ turn[w].pc = "release" /\ turn[w].session = s /\ turn[w].token # 0
  BY SessionTurnsAssumption
  DEF TurnsInv, TurnsTypeOK, TurnOK, ReleaseFails, At, TurnsBegun
<1>2. CASE turn[w].tries < 2
  <2>1. TurnOK' /\ TurnMoves(w, "release") /\ UNCHANGED abandoned
    BY <1>1, <1>2, TriesStep DEF ReleaseFails
  <2>2. abandoned' \in [Instances -> SUBSET [session : Sessions, claim : Claims]]
    BY <2>1 DEF TurnsInv, TurnsTypeOK
  <2>3. QED
    BY <1>1, <2>1, <2>2, ReleaseStep
<1>3. CASE ~ (turn[w].tries < 2)
  <2>1. /\ TurnOK' /\ TurnMoves(w, "unlock")
        /\ abandoned' = [abandoned EXCEPT ![Owner(w)] = @ \cup {Marker(s, Held(w))}]
    BY <1>1, <1>3, PcStep DEF ReleaseFails, TurnPcs
  <2>2. Marker(s, Held(w)) \in [session : Sessions, claim : Claims]
    BY <1>1, HeldTyped DEF Marker
  <2>3. Owner(w) \in Instances
    BY <1>1, HeldTyped
  <2>4. /\ abandoned' \in [Instances -> SUBSET [session : Sessions, claim : Claims]]
        /\ Marker(s, Held(w)) \in abandoned'[Owner(w)]
        /\ \A i \in Instances : abandoned[i] \subseteq abandoned'[i]
        /\ \A i \in Instances : abandoned'[i] \ abandoned[i]
             \subseteq IF i = Owner(w) THEN {Marker(s, Held(w))} ELSE {}
    BY <2>1, <2>2, <2>3 DEF TurnsInv, TurnsTypeOK
  <2>5. QED
    BY <1>1, <2>1, <2>4, ReleaseStep
<1>4. QED
  BY <1>2, <1>3

\* Processes start and die; those that have died have given up their claims.
LEMMA LifeOfTurnsStep ==
    ASSUME TurnsInv, LifeOfTurns
    PROVE  TurnsInv'
<1>1. PICK i \in Instances : Start(i) \/ Kill(i)
  BY DEF LifeOfTurns
<1>2. UNCHANGED <<claims, abandoned, locks, turn, history, faults>>
  BY DEF LifeOfTurns
<1>3. /\ LivesOK' /\ (\A j \in Instances : life[j] = "gone" => life'[j] = "gone")
      /\ \A j \in Instances : life'[j] = "up" /\ life[j] # "up" => life[j] = "new"
      /\ \A j \in Instances : life'[j] = "new" => life[j] = "new"
  BY <1>1, LivesStep DEF TurnsInv, TurnsTypeOK, LivesOK
<1>4. \A w \in Workers : Held(w)' = Held(w) /\ Owner(w) \in Instances
  BY <1>2, SessionTurnsAssumption DEF Held, Owner
<1>5. TurnsTypeOK' /\ PidsUnique' /\ TurnsBegun' /\ MarkersPast' /\ ClaimsOwned'
  BY <1>2, <1>3, <1>4
  DEF TurnsInv, TurnsTypeOK, LivesOK, TurnsBegun, MarkersPast, ClaimsOwned
<1>6. TurnOwnsSession'
  BY <1>2, <1>3, <1>4 DEF TurnsInv, TurnOwnsSession, TurnsBegun
<1>7. ClaimsReclaimable'
  BY <1>2, <1>3, <1>4, ClaimIsThere
  DEF TurnsInv, TurnsTypeOK, ClaimsReclaimable, Marker
<1>8. QED
  BY <1>5, <1>6, <1>7 DEF TurnsInv

\* No turn has begun.
NoTurnYet ==
    /\ claims = [s \in Sessions |-> NoClaim]
    /\ abandoned = [i \in Instances |-> {}]
    /\ locks = [i \in Instances |-> [s \in Sessions |-> NoWorker]]
    /\ turn \in [Workers -> [pc : {"idle"}, session : Sessions, token : {0},
                             seen : {0}, tries : {0}]]
    /\ history = [s \in Sessions |-> 0]
    /\ faults = 0

LEMMA NoTurnYetInv == LivesOK /\ NoTurnYet => TurnsInv
<1> SUFFICES ASSUME LivesOK, NoTurnYet PROVE TurnsInv
  OBVIOUS
<1>1. \A w \in Workers : turn[w].pc = "idle"
  BY DEF NoTurnYet
<1>2. turn \in [Workers -> Turn]
  BY SessionTurnsAssumption DEF NoTurnYet, Turn, TurnPcs
<1>3. TurnsTypeOK /\ PidsUnique
  BY <1>2, SessionTurnsAssumption DEF NoTurnYet, TurnsTypeOK, LivesOK
<1>4. QED
  BY <1>1, <1>3 DEF NoTurnYet, TurnsInv, TurnsBegun, MarkersPast, ClaimsOwned,
     TurnOwnsSession, ClaimsReclaimable

LEMMA TurnsInvInit == TurnsInit => TurnsInv
BY LivesInit, NoTurnYetInv DEF TurnsInit, NoTurnYet

\* Who restarts and dies, gives up or takes over.
LEMMA TurnsInvStep == TurnsInv /\ [TurnsNext]_turnVars => TurnsInv'
<1> SUFFICES ASSUME TurnsInv, [TurnsNext]_turnVars PROVE TurnsInv'
  OBVIOUS
<1>1. ASSUME NEW w \in Workers, TurnStep(w) PROVE TurnsInv'
  BY <1>1, QuietTurnSteps, ClaimTurnStep, ReleaseTurnStep DEF TurnStep
<1>2. ASSUME NEW w \in Workers, NEW s \in Sessions, BeginTurn(w, s) \/ ReleaseFails(w, s)
      PROVE  TurnsInv'
  BY <1>2, BeginTurnStep, ReleaseFailsStep
<1>3. CASE LifeOfTurns
  BY <1>3, LifeOfTurnsStep
<1>4. CASE UNCHANGED turnVars
  BY <1>4 DEF turnVars, TurnsInv, TurnsTypeOK, LifeTypeOK, PidsUnique, TurnsBegun,
     MarkersPast, ClaimsOwned, TurnOwnsSession, ClaimsReclaimable, Held, Marker
<1>5. QED
  BY <1>1, <1>2, <1>3, <1>4 DEF TurnsNext

\* From the history that it reads to its final response, a turn of a live
\* process owns the claim of its session (claim_session_turn); and no claim
\* keeps its session for ever (_release_persistent_session_turn).
THEOREM TurnsKeepClaims ==
    TurnsSpec => [](TurnsTypeOK /\ TurnOwnsSession /\ ClaimsReclaimable)
<1>1. TurnsInv => TurnsTypeOK /\ TurnOwnsSession /\ ClaimsReclaimable
  BY DEF TurnsInv
<1>2. QED
  BY <1>1, TurnsInvInit, TurnsInvStep, PTL DEF TurnsSpec

-----------------------------------------------------------------------------
\* Operations of launchers.

\* What thread, tree and row of operation o have to do with each other.
ThreadFits(o) ==
    /\ o > created => /\ workers[o].pc = "none" /\ trees[o].state = "none"
                      /\ rows[o].control = 0 /\ ~ rows[o].exited
    /\ workers[o].pc \in {"start", "spawn", "exit", "finish"}
         => trees[o].state \in {"none", "succeeded"}
    /\ workers[o].pc \in {"record", "gate", "abort"}
         => trees[o].state \in {"none", "gated"}
    /\ workers[o].pc \in {"record", "gate"} /\ trees[o].state = "gated"
         => trees[o].command = workers[o].command
    /\ rows[o].exited => trees[o].state \notin Ungated /\ workers[o].pc # "gate"

\* A tree whose gate is about to open, or is open.
Covered(o) ==
    \/ trees[o].state \in Ungated
    \/ trees[o].state = "gated" /\ workers[o].pc = "gate"

CoveredFits(o) == Covered(o) => holder = o /\ rows[o].control = trees[o].command

\* A control that was recorded, or read, before the command of o now.
ControlPast(o, control) ==
    /\ workers[o].pc \in {"start", "spawn", "record"} => control < workers[o].command
    /\ workers[o].pc \in {"gate", "wait", "exit"} => control <= workers[o].command

\* A recovery has stopped the tree of the control that it has read.
RecoveryFits(l, o) ==
    recovery[l].op = o =>
        /\ ControlPast(o, recovery[l].control)
        /\ holder = o /\ rows[o].control = recovery[l].control => ~ Covered(o)

OpFits(o) ==
    /\ ThreadFits(o) /\ CoveredFits(o) /\ ControlPast(o, rows[o].control)
    /\ \A l \in Launchers : RecoveryFits(l, o)

LauncherInv ==
    /\ LauncherTypeOK
    /\ holder \in 0..created
    /\ \A l \in Launchers : recovery[l] # NoRecovery => recovery[l].op \in 1..created
    /\ \A o \in Ops : OpFits(o)

RowsOK == rows \in [Ops -> Row]
TreesOK == trees \in [Ops -> Tree]
WorkersOK == workers \in [Ops -> Worker]

WorkerPcs == {"none", "start", "spawn", "record", "gate", "wait", "abort",
              "exit", "finish", "ended"}

\* Types.
LEMMA OpsAreNumbers == Ops \subseteq Nat \ {0} /\ 0 \notin Ops
BY LauncherAssumption DEF Ops

LEMMA WorkerPcRow ==
    ASSUME NEW W \in Worker, NEW pc \in WorkerPcs
    PROVE  [W EXCEPT !.pc = pc] \in Worker
<1>1. W \in [pc : WorkerPcs, command : Commands, verdict : EndedPhases]
  BY DEF Worker, WorkerPcs
<1>2. [W EXCEPT !.pc = pc] \in [pc : WorkerPcs, command : Commands, verdict : EndedPhases]
  BY <1>1, ZenonT(30)
<1>3. QED
  BY <1>2 DEF Worker, WorkerPcs

LEMMA WorkerExitRow ==
    ASSUME NEW W \in Worker, NEW v \in EndedPhases
    PROVE  /\ [W EXCEPT !.pc = "exit", !.verdict = v] \in Worker
           /\ [W EXCEPT !.pc = "exit", !.verdict = v].pc = "exit"
           /\ [W EXCEPT !.pc = "exit", !.verdict = v].command = W.command
<1>1. W \in [pc : WorkerPcs, command : Commands, verdict : EndedPhases] /\ "exit" \in WorkerPcs
  BY DEF Worker, WorkerPcs
<1>2. [W EXCEPT !.pc = "exit", !.verdict = v]
        \in [pc : WorkerPcs, command : Commands, verdict : EndedPhases]
  BY <1>1, ZenonT(30)
<1>3. QED
  BY <1>2 DEF Worker, WorkerPcs

LEMMA ThreadTyped ==
    /\ \A pc \in WorkerPcs : Thread(pc) \in Worker /\ Thread(pc).pc = pc /\ Thread(pc).command = 1
    /\ /\ [Thread("spawn") EXCEPT !.command = 2] \in Worker
       /\ [Thread("spawn") EXCEPT !.command = 2].pc = "spawn"
       /\ [Thread("spawn") EXCEPT !.command = 2].command = 2
BY DEF Thread, Worker, WorkerPcs, Commands, EndedPhases

\* The thread of o is W now, the others are as they were.
WorkerIs(o, W) ==
    /\ WorkersOK' /\ workers'[o] = W
    /\ \A q \in Ops \ {o} : workers'[q] = workers[q]

LEMMA WorkerStepTyped ==
    ASSUME WorkersOK, NEW o \in Ops, NEW W \in Worker, workers' = [workers EXCEPT ![o] = W]
    PROVE  WorkerIs(o, W)
BY DEF WorkersOK, WorkerIs

LEMMA WorkerToStep ==
    ASSUME WorkersOK, NEW o \in Ops, NEW pc \in WorkerPcs, WorkerTo(o, pc)
    PROVE  WorkerIs(o, [workers[o] EXCEPT !.pc = pc])
             /\ workers'[o].pc = pc /\ workers'[o].command = workers[o].command
<1>1. workers' = [workers EXCEPT ![o] = [workers[o] EXCEPT !.pc = pc]]
  BY DEF WorkersOK, WorkerTo
<1>2. [workers[o] EXCEPT !.pc = pc] \in Worker
  BY WorkerPcRow DEF WorkersOK
<1>3. WorkerIs(o, [workers[o] EXCEPT !.pc = pc])
  BY <1>1, <1>2, WorkerStepTyped
<1>4. QED
  BY <1>3 DEF WorkerIs, WorkersOK, Worker

LEMMA EndWithStep ==
    ASSUME WorkersOK, NEW o \in Ops, NEW v \in EndedPhases, EndWith(o, v)
    PROVE  /\ WorkerIs(o, workers'[o]) /\ workers'[o].pc = "finish"
BY DEF WorkersOK, EndWith, WorkerIs, Worker, Commands

LEMMA EndThreadStep ==
    ASSUME WorkersOK, NEW o \in Ops, EndThread(o)
    PROVE  /\ WorkerIs(o, workers'[o]) /\ workers'[o].pc = "ended"
BY ThreadTyped DEF WorkersOK, EndThread, WorkerIs, WorkerPcs

\* Likewise for rows and trees.
RowIs(o, R) ==
    /\ RowsOK' /\ rows'[o] = R
    /\ \A q \in Ops \ {o} : rows'[q] = rows[q]

LEMMA RowStep ==
    ASSUME RowsOK, NEW o \in Ops, NEW R \in Row, rows' = [rows EXCEPT ![o] = R]
    PROVE  RowIs(o, R)
BY DEF RowsOK, RowIs

LEMMA RowPhase ==
    ASSUME NEW R \in Row, NEW p \in ActivePhases \cup EndedPhases
    PROVE  /\ [R EXCEPT !.phase = p] \in Row
           /\ [R EXCEPT !.phase = p].control = R.control
           /\ [R EXCEPT !.phase = p].exited = R.exited
<1>1. p \in {"none"} \cup ActivePhases \cup EndedPhases
  OBVIOUS
<1>2. [R EXCEPT !.phase = p] \in Row
  BY <1>1, ZenonT(30) DEF Row
<1>3. QED
  BY <1>2 DEF Row

LEMMA RowEnded ==
    ASSUME NEW R \in Row, NEW p \in EndedPhases
    PROVE  Ended(R, p) \in Row /\ Ended(R, p).control = 0 /\ ~ Ended(R, p).exited
<1>1. p \in {"none"} \cup ActivePhases \cup EndedPhases /\ 0 \in {0} \cup Commands
        /\ FALSE \in BOOLEAN
  OBVIOUS
<1>2. [R EXCEPT !.phase = p, !.control = 0, !.exited = FALSE] \in Row
  BY <1>1, ZenonT(30) DEF Row
<1>3. QED
  BY <1>2 DEF Ended, Row

LEMMA RowControl ==
    ASSUME NEW R \in Row, NEW c \in Commands
    PROVE  /\ [R EXCEPT !.control = c, !.exited = FALSE] \in Row
           /\ [R EXCEPT !.control = c, !.exited = FALSE].control = c
           /\ ~ [R EXCEPT !.control = c, !.exited = FALSE].exited
<1>1. c \in {0} \cup Commands /\ FALSE \in BOOLEAN
  OBVIOUS
<1>2. [R EXCEPT !.control = c, !.exited = FALSE] \in Row
  BY <1>1, ZenonT(30) DEF Row
<1>3. QED
  BY <1>2 DEF Row

LEMMA RowExited ==
    ASSUME NEW R \in Row
    PROVE  /\ [R EXCEPT !.exited = TRUE] \in Row
           /\ [R EXCEPT !.exited = TRUE].control = R.control
<1>1. TRUE \in BOOLEAN
  OBVIOUS
<1>2. [R EXCEPT !.exited = TRUE] \in Row
  BY <1>1, ZenonT(30) DEF Row
<1>3. QED
  BY <1>2 DEF Row

TreeIs(o, T) ==
    /\ TreesOK' /\ trees'[o] = T
    /\ \A q \in Ops \ {o} : trees'[q] = trees[q]

LEMMA TreeStep ==
    ASSUME TreesOK, NEW o \in Ops, NEW T \in Tree, trees' = [trees EXCEPT ![o] = T]
    PROVE  TreeIs(o, T)
BY DEF TreesOK, TreeIs

LEMMA TreeToStep ==
    ASSUME TreesOK, NEW o \in Ops, NEW state \in TreeStates, TreeTo(o, state)
    PROVE  TreeIs(o, [command |-> trees[o].command, state |-> state])
BY DEF TreesOK, TreeTo, TreeIs, Tree

LEMMA StopStep ==
    ASSUME TreesOK, NEW o \in Ops, trees' = Stop(o)
    PROVE  /\ TreeIs(o, trees'[o]) /\ trees'[o].state \in {"none", "succeeded"}
           /\ trees'[o].state = "succeeded" => trees'[o] = trees[o]
BY DEF TreesOK, Stop, TreeIs, Tree, NoTree, Commands, TreeStates

LEMMA NoTreeStep ==
    ASSUME TreesOK, NEW o \in Ops, trees' = [trees EXCEPT ![o] = NoTree]
    PROVE  TreeIs(o, NoTree) /\ NoTree.state = "none"
BY DEF TreesOK, TreeIs, Tree, NoTree, Commands, TreeStates

RecoveryOK ==
    /\ recovery \in [Launchers -> Recovery]
    /\ \A l \in Launchers : recovery[l] # NoRecovery => recovery[l].op \in 1..created

\* Operation o takes a step, the others do not.
OnlyOp(o) ==
    /\ \A q \in Ops \ {o} : /\ workers'[q] = workers[q] /\ rows'[q] = rows[q]
                            /\ trees'[q] = trees[q]
    /\ holder' = holder \/ {holder, holder'} \subseteq {0, o}
    /\ created <= created' /\ \A q \in Ops \ {o} : q > created' <=> q > created
    /\ \A l \in Launchers : \/ recovery'[l] = recovery[l]
                            \/ recovery'[l].op \in {0, o}

\* Only that operation matters then.
LEMMA OpStep ==
    ASSUME LauncherInv, NEW o \in Ops, OnlyOp(o), OpFits(o)', LauncherTypeOK',
           (holder \in 0..created)', RecoveryOK'
    PROVE  LauncherInv'
<1>1. ASSUME NEW q \in Ops, q # o PROVE OpFits(q)'
  <2>1. OpFits(q) /\ q # 0
    BY OpsAreNumbers DEF LauncherInv
  <2>2. /\ workers'[q] = workers[q] /\ rows'[q] = rows[q] /\ trees'[q] = trees[q]
        /\ q > created' <=> q > created
        /\ holder = q <=> holder' = q
    BY <1>1, <2>1 DEF OnlyOp
  <2>3. ThreadFits(q)' /\ CoveredFits(q)' /\ ControlPast(q, rows[q].control)'
    BY <2>1, <2>2 DEF OpFits, ThreadFits, CoveredFits, ControlPast, Covered
  <2>4. ASSUME NEW l \in Launchers PROVE RecoveryFits(l, q)'
    BY <1>1, <2>1, <2>2 DEF OnlyOp, OpFits, RecoveryFits, Covered, ControlPast
  <2>5. QED
    BY <2>3, <2>4 DEF OpFits
<1>2. QED
  BY <1>1 DEF LauncherInv, RecoveryOK

LEMMA WorkerOp ==
    ASSUME LauncherInv, NEW o \in Ops, UNCHANGED <<life, created, late, recovery>>,
           UNCHANGED mishaps \/ Mishap,
           UNCHANGED holder \/ (holder = o /\ holder' = 0),
           UNCHANGED workers \/ WorkerIs(o, workers'[o]),
           UNCHANGED rows \/ RowIs(o, rows'[o]),
           UNCHANGED trees \/ TreeIs(o, trees'[o]),
           OpFits(o)'
    PROVE  LauncherInv'
<1>1. LauncherTypeOK'
  <2>1. mishaps' \in 0..MaxMishaps
    BY LauncherAssumption DEF LauncherInv, LauncherTypeOK, Mishap
  <2>2. workers' \in [Ops -> Worker] /\ rows' \in [Ops -> Row] /\ trees' \in [Ops -> Tree]
    BY DEF LauncherInv, LauncherTypeOK, WorkerIs, RowIs, TreeIs, WorkersOK, RowsOK, TreesOK
  <2>3. QED
    BY <2>1, <2>2 DEF LauncherInv, LauncherTypeOK, LifeTypeOK
<1>2. (holder \in 0..created)' /\ RecoveryOK'
  BY LauncherAssumption DEF LauncherInv, LauncherTypeOK, RecoveryOK
<1>3. OnlyOp(o)
  BY LauncherAssumption DEF OnlyOp, WorkerIs, RowIs, TreeIs, LauncherInv, LauncherTypeOK
<1>4. QED
  BY <1>1, <1>2, <1>3, OpStep

\* What is known of an operation, and of its recoveries.
LEMMA OpFacts ==
    ASSUME LauncherInv, NEW o \in Ops
    PROVE  /\ WorkersOK /\ RowsOK /\ TreesOK /\ OpFits(o)
           /\ workers[o] \in Worker /\ rows[o] \in Row /\ trees[o] \in Tree
           /\ workers[o].command \in Commands /\ workers[o].command \in {1, 2}
           /\ workers[o].verdict \in EndedPhases
           /\ rows[o].control \in {0, 1, 2} /\ trees[o].command \in {1, 2}
           /\ \A l \in Launchers : recovery[l].control \in {0, 1, 2}
<1>1. WorkersOK /\ RowsOK /\ TreesOK /\ OpFits(o) /\ recovery \in [Launchers -> Recovery]
  BY DEF LauncherInv, LauncherTypeOK, WorkersOK, RowsOK, TreesOK
<1>2. QED
  BY <1>1 DEF WorkersOK, RowsOK, TreesOK, Worker, Row, Tree, Recovery, Commands

\* A step of the thread alone, to a place where nothing is claimed of controls.
LEMMA ThreadOnly ==
    ASSUME LauncherInv, NEW o \in Ops, o <= created, UNCHANGED <<created, rows, trees, holder, recovery>>,
           \/ /\ workers'[o].pc = "finish"
              /\ trees[o].state \in {"none", "succeeded"}
           \/ workers'[o].pc = "ended"
           \/ /\ workers'[o].pc = "abort" /\ trees[o].state \in {"none", "gated"}
    PROVE  OpFits(o)'
<1>1. OpFits(o) /\ created \in Nat /\ o \in Nat
  BY OpFacts, OpsAreNumbers DEF LauncherInv, LauncherTypeOK
<1>2. ThreadFits(o)'
  BY <1>1 DEF OpFits, ThreadFits, Ungated
<1>3. CoveredFits(o)' /\ (Covered(o)' => Covered(o)) /\ \A c : ControlPast(o, c)'
  BY <1>1 DEF OpFits, CoveredFits, Covered, ControlPast
<1>4. QED
  BY <1>1, <1>3, <1>2 DEF OpFits, RecoveryFits

\* An operation at work has been created.
LEMMA AtWorkCreated ==
    ASSUME LauncherInv, NEW o \in Ops, workers[o].pc # "none"
    PROVE  o <= created
BY OpFacts, OpsAreNumbers DEF LauncherInv, LauncherTypeOK, OpFits, ThreadFits

LEMMA StartWorkerStep ==
    ASSUME LauncherInv, NEW o \in Ops, StartWorker(o)
    PROVE  LauncherInv'
<1>1. /\ workers[o].pc = "start" /\ OpFits(o) /\ WorkersOK /\ RowsOK
      /\ rows[o] \in Row /\ UNCHANGED <<life, created, holder, late, trees, recovery>>
      /\ trees[o].state \in {"none", "succeeded"} /\ o <= created
  BY OpFacts, AtWorkCreated DEF StartWorker, AtWork, OpFits, ThreadFits
<1>2. CASE rows' = [rows EXCEPT ![o].phase = "running"] /\ WorkerTo(o, "spawn")
           /\ UNCHANGED mishaps
  <2>1. WorkerIs(o, workers'[o]) /\ workers'[o].pc = "spawn"
          /\ workers'[o].command = workers[o].command
    BY <1>1, <1>2, WorkerToStep DEF WorkerPcs, WorkerIs
  <2>2. rows' = [rows EXCEPT ![o] = [rows[o] EXCEPT !.phase = "running"]]
    BY <1>1, <1>2 DEF RowsOK
  <2>3. RowIs(o, [rows[o] EXCEPT !.phase = "running"])
    BY <1>1, <2>2, RowPhase, RowStep DEF ActivePhases
  <2>6. RowIs(o, rows'[o]) /\ rows'[o].control = rows[o].control
          /\ rows'[o].exited = rows[o].exited
    BY <1>1, <2>3, RowPhase DEF RowIs, ActivePhases
  <2>4. OpFits(o)'
    BY <1>1, <2>1, <2>6
    DEF OpFits, ThreadFits, CoveredFits, Covered, ControlPast, RecoveryFits
  <2>5. QED
    BY <1>1, <1>2, <2>1, <2>6, <2>4, WorkerOp
<1>3. CASE EndThread(o) /\ UNCHANGED <<rows, mishaps>>
  BY <1>1, <1>3, EndThreadStep, ThreadOnly, WorkerOp
<1>4. CASE Mishap /\ EndWith(o, "interrupted") /\ UNCHANGED rows
  BY <1>1, <1>4, EndWithStep, ThreadOnly, WorkerOp DEF EndedPhases
<1>5. QED
  BY <1>1, <1>2, <1>3, <1>4 DEF StartWorker

LEMMA NeedlessStep ==
    ASSUME LauncherInv, NEW o \in Ops, Needless(o)
    PROVE  LauncherInv'
<1>1. /\ workers[o].pc = "spawn" /\ OpFits(o) /\ WorkersOK /\ o <= created
      /\ UNCHANGED <<life, created, rows, holder, late, trees, recovery, mishaps>>
      /\ trees[o].state \in {"none", "succeeded"}
  BY OpFacts, AtWorkCreated DEF Needless, AtWork, OpFits, ThreadFits
<1>2. WorkerIs(o, workers'[o]) /\ workers'[o].pc = "finish"
  BY <1>1, EndWithStep DEF Needless, EndedPhases
<1>3. QED
  BY <1>1, <1>2, ThreadOnly, WorkerOp

LEMMA SpawnStep ==
    ASSUME LauncherInv, NEW o \in Ops, Spawn(o)
    PROVE  LauncherInv'
<1>1. /\ workers[o].pc = "spawn" /\ OpFits(o) /\ WorkersOK /\ TreesOK /\ o <= created
      /\ UNCHANGED <<life, created, rows, holder, late, recovery>>
      /\ trees[o].state \in {"none", "succeeded"} /\ workers[o].command \in Commands
  BY OpFacts, AtWorkCreated DEF Spawn, AtWork, OpFits, ThreadFits
<1>2. CASE /\ \/ WorkerTo(o, "record") /\ UNCHANGED mishaps
              \/ WorkerTo(o, "abort") /\ Mishap
           /\ trees' = [trees EXCEPT ![o] =
                [command |-> workers[o].command, state |-> "gated"]]
  <2>1. WorkerIs(o, workers'[o]) /\ workers'[o].pc \in {"record", "abort"}
          /\ workers'[o].command = workers[o].command
    BY <1>1, <1>2, WorkerToStep DEF WorkerPcs, WorkerIs
  <2>5. TreeIs(o, [command |-> workers[o].command, state |-> "gated"])
    BY <1>1, <1>2, TreeStep DEF Tree, TreeStates
  <2>2. TreeIs(o, trees'[o]) /\ trees'[o].state = "gated"
          /\ trees'[o].command = workers[o].command
    BY <2>5 DEF TreeIs
  <2>3. OpFits(o)'
    BY <1>1, <2>1, <2>2
    DEF OpFits, ThreadFits, CoveredFits, Covered, ControlPast, RecoveryFits, Ungated
  <2>4. QED
    BY <1>1, <1>2, <2>1, <2>2, <2>3, WorkerOp
<1>3. CASE Mishap /\ EndWith(o, "failed") /\ UNCHANGED trees
  BY <1>1, <1>3, EndWithStep, ThreadOnly, WorkerOp DEF EndedPhases
<1>4. QED
  BY <1>2, <1>3 DEF Spawn

LEMMA RecordControlStep ==
    ASSUME LauncherInv, NEW o \in Ops, RecordControl(o)
    PROVE  LauncherInv'
<1>1. /\ workers[o].pc = "record" /\ OpFits(o) /\ WorkersOK /\ RowsOK /\ o <= created
      /\ UNCHANGED <<life, created, holder, late, trees, recovery>>
      /\ trees[o].state \in {"none", "gated"} /\ rows[o] \in Row
      /\ workers[o].command \in {1, 2} /\ workers[o].command \in Commands
      /\ \A l \in Launchers : recovery[l].control \in {0, 1, 2}
  BY OpFacts, AtWorkCreated DEF RecordControl, AtWork, OpFits, ThreadFits
<1>2. CASE /\ Owns(o) /\ WorkerTo(o, "gate") /\ UNCHANGED mishaps
           /\ rows' = [rows EXCEPT ![o].control = workers[o].command,
                                   ![o].exited = FALSE]
  <2>1. WorkerIs(o, workers'[o]) /\ workers'[o].pc = "gate"
          /\ workers'[o].command = workers[o].command
    BY <1>1, <1>2, WorkerToStep DEF WorkerPcs, WorkerIs
  <2>2. rows' = [rows EXCEPT ![o] = [rows[o] EXCEPT !.control = workers[o].command,
                                                    !.exited = FALSE]]
    BY <1>1, <1>2 DEF RowsOK
  <2>7. RowIs(o, [rows[o] EXCEPT !.control = workers[o].command, !.exited = FALSE])
    BY <1>1, <2>2, RowControl, RowStep
  <2>3. RowIs(o, rows'[o]) /\ rows'[o].control = workers[o].command /\ ~ rows'[o].exited
    BY <1>1, <2>7, RowControl DEF RowIs
  <2>4. ThreadFits(o)' /\ CoveredFits(o)' /\ ControlPast(o, rows[o].control)'
    BY <1>1, <1>2, <2>1, <2>3
    DEF OpFits, ThreadFits, CoveredFits, Covered, ControlPast, Owns, Ungated
  <2>5. ASSUME NEW l \in Launchers PROVE RecoveryFits(l, o)'
    BY <1>1, <2>1, <2>3 DEF OpFits, RecoveryFits, ControlPast
  <2>6. QED
    BY <1>1, <1>2, <2>1, <2>3, <2>4, <2>5, WorkerOp DEF OpFits
<1>3. CASE WorkerTo(o, "abort") /\ UNCHANGED rows /\ (UNCHANGED mishaps \/ Mishap)
  <2>1. WorkerIs(o, workers'[o]) /\ workers'[o].pc = "abort"
    BY <1>1, <1>3, WorkerToStep DEF WorkerPcs, WorkerIs
  <2>2. QED
    BY <1>1, <1>3, <2>1, ThreadOnly, WorkerOp
<1>4. QED
  BY <1>2, <1>3 DEF RecordControl

LEMMA OpenGateStep ==
    ASSUME LauncherInv, NEW o \in Ops, OpenGate(o)
    PROVE  LauncherInv'
<1>1. /\ workers[o].pc = "gate" /\ OpFits(o) /\ WorkersOK /\ TreesOK /\ o <= created
      /\ UNCHANGED <<life, created, rows, holder, late, recovery, mishaps>>
      /\ trees[o].state \in {"none", "gated"}
  BY OpFacts, AtWorkCreated DEF OpenGate, AtWork, OpFits, ThreadFits
<1>2. CASE trees[o].state = "gated"
  <2>1. WorkerIs(o, workers'[o]) /\ workers'[o].pc = "wait"
          /\ workers'[o].command = workers[o].command
    BY <1>1, <1>2, WorkerToStep DEF OpenGate, WorkerPcs, WorkerIs
  <2>6. TreeIs(o, [command |-> trees[o].command, state |-> "running"])
    BY <1>1, <1>2, TreeToStep DEF OpenGate, TreeStates
  <2>2. TreeIs(o, trees'[o]) /\ trees'[o].state = "running"
          /\ trees'[o].command = trees[o].command
    BY <2>6 DEF TreeIs
  <2>3. Covered(o)
    BY <1>1, <1>2 DEF Covered
  <2>4. OpFits(o)'
    BY <1>1, <2>1, <2>2, <2>3
    DEF OpFits, ThreadFits, CoveredFits, ControlPast, RecoveryFits
  <2>5. QED
    BY <1>1, <2>1, <2>2, <2>4, WorkerOp
<1>3. CASE trees[o].state # "gated"
  <2>1. WorkerIs(o, workers'[o]) /\ workers'[o].pc = "abort" /\ UNCHANGED trees
    BY <1>1, <1>3, WorkerToStep DEF OpenGate, WorkerPcs, WorkerIs
  <2>2. QED
    BY <1>1, <2>1, ThreadOnly, WorkerOp
<1>4. QED
  BY <1>2, <1>3

LEMMA AwaitStep ==
    ASSUME LauncherInv, NEW o \in Ops, Await(o)
    PROVE  LauncherInv'
<1>1. /\ workers[o].pc = "wait" /\ OpFits(o) /\ WorkersOK /\ TreesOK /\ o <= created
      /\ UNCHANGED <<life, created, rows, holder, late, recovery, mishaps>>
      /\ workers[o] \in Worker
  BY OpFacts, AtWorkCreated DEF Await, AtWork
<1>2. PICK v \in EndedPhases :
        workers' = [workers EXCEPT ![o].pc = "exit", ![o].verdict = v]
  BY DEF Await, EndedPhases
<1>3. workers' = [workers EXCEPT ![o] = [workers[o] EXCEPT !.pc = "exit", !.verdict = v]]
  BY <1>1, <1>2 DEF WorkersOK
<1>8. WorkerIs(o, [workers[o] EXCEPT !.pc = "exit", !.verdict = v])
  BY <1>1, <1>2, <1>3, WorkerExitRow, WorkerStepTyped
<1>9. /\ [workers[o] EXCEPT !.pc = "exit", !.verdict = v].pc = "exit"
      /\ [workers[o] EXCEPT !.pc = "exit", !.verdict = v].command = workers[o].command
  BY <1>1, <1>2, WorkerExitRow
<1>4. WorkerIs(o, workers'[o]) /\ workers'[o].pc = "exit"
        /\ workers'[o].command = workers[o].command
  BY <1>8, <1>9, Zenon DEF WorkerIs
<1>5. TreeIs(o, trees'[o]) /\ trees'[o].state = "none"
  BY <1>1, NoTreeStep DEF Await, TreeIs
<1>6. OpFits(o)'
  BY <1>1, <1>4, <1>5
  DEF OpFits, ThreadFits, CoveredFits, Covered, ControlPast, RecoveryFits, Ungated
<1>7. QED
  BY <1>1, <1>4, <1>5, <1>6, WorkerOp

LEMMA AbortCommandStep ==
    ASSUME LauncherInv, NEW o \in Ops, AbortCommand(o)
    PROVE  LauncherInv'
<1>1. /\ workers[o].pc = "abort" /\ OpFits(o) /\ WorkersOK /\ TreesOK /\ o <= created
      /\ UNCHANGED <<life, created, rows, holder, late, recovery, mishaps>>
  BY OpFacts, AtWorkCreated DEF AbortCommand, AtWork
<1>2. WorkerIs(o, workers'[o]) /\ workers'[o].pc = "finish"
  BY <1>1, EndWithStep DEF AbortCommand, EndedPhases
<1>3. TreeIs(o, trees'[o]) /\ trees'[o].state \in {"none", "succeeded"}
  BY <1>1, StopStep DEF AbortCommand
<1>4. OpFits(o)'
  BY <1>1, <1>2, <1>3, OpsAreNumbers
  DEF OpFits, ThreadFits, CoveredFits, Covered, ControlPast, RecoveryFits, Ungated,
      LauncherInv, LauncherTypeOK
<1>5. QED
  BY <1>1, <1>2, <1>3, <1>4, WorkerOp

LEMMA TreeNotStoppedStep ==
    ASSUME LauncherInv, NEW o \in Ops, TreeNotStopped(o)
    PROVE  LauncherInv'
<1>1. /\ WorkersOK /\ o <= created
      /\ UNCHANGED <<life, created, rows, holder, late, trees, recovery>>
      /\ Mishap /\ EndThread(o)
  BY OpFacts, AtWorkCreated DEF TreeNotStopped, AtWork
<1>2. QED
  BY <1>1, EndThreadStep, ThreadOnly, WorkerOp

LEMMA RecordExitStep ==
    ASSUME LauncherInv, NEW o \in Ops, RecordExit(o)
    PROVE  LauncherInv'
<1>1. /\ workers[o].pc = "exit" /\ OpFits(o) /\ WorkersOK /\ RowsOK /\ o <= created
      /\ UNCHANGED <<life, created, holder, late, trees, recovery>>
      /\ trees[o].state \in {"none", "succeeded"} /\ rows[o] \in Row
      /\ workers[o].command \in {1, 2} /\ workers[o].verdict \in EndedPhases
      /\ rows[o].control \in {0, 1, 2}
      /\ \A l \in Launchers : recovery[l].control \in {0, 1, 2}
  BY OpFacts, AtWorkCreated DEF RecordExit, AtWork, OpFits, ThreadFits
<1>2. CASE /\ rows' = [rows EXCEPT ![o].exited = TRUE]
           /\ Continue(o) /\ UNCHANGED mishaps
  <2>1. rows' = [rows EXCEPT ![o] = [rows[o] EXCEPT !.exited = TRUE]]
    BY <1>1, <1>2 DEF RowsOK
  <2>2. RowIs(o, [rows[o] EXCEPT !.exited = TRUE])
    BY <1>1, <2>1, RowExited, RowStep
  <2>3. RowIs(o, rows'[o]) /\ rows'[o].control = rows[o].control
    BY <1>1, <2>2, RowExited DEF RowIs
  <2>4. WorkerIs(o, workers'[o])
          /\ \/ workers'[o].pc = "finish"
             \/ /\ workers'[o].pc = "spawn" /\ workers'[o].command = 2
                /\ workers[o].command = 1
    <3>1. CASE \E v \in {"failed", workers[o].verdict} : EndWith(o, v)
      BY <1>1, <3>1, EndWithStep DEF EndedPhases
    <3>2. CASE /\ workers[o].command = 1
               /\ workers' = [workers EXCEPT ![o] = [Thread("spawn") EXCEPT !.command = 2]]
      BY <1>1, <3>2, ThreadTyped, WorkerStepTyped DEF WorkerIs
    <3>3. QED
      BY <1>2, <3>1, <3>2 DEF Continue
  <2>5. ThreadFits(o)' /\ CoveredFits(o)' /\ ControlPast(o, rows[o].control)'
    BY <1>1, <2>3, <2>4, OpsAreNumbers
    DEF OpFits, ThreadFits, CoveredFits, Covered, ControlPast, Ungated,
        LauncherInv, LauncherTypeOK
  <2>6. ASSUME NEW l \in Launchers PROVE RecoveryFits(l, o)'
    BY <1>1, <2>3, <2>4 DEF OpFits, RecoveryFits, ControlPast, Covered, Ungated
  <2>7. QED
    BY <1>1, <1>2, <2>3, <2>4, <2>5, <2>6, WorkerOp DEF OpFits
<1>3. CASE EndThread(o) /\ UNCHANGED <<rows, mishaps>>
  BY <1>1, <1>3, EndThreadStep, ThreadOnly, WorkerOp
<1>4. CASE Mishap /\ EndWith(o, "failed") /\ UNCHANGED rows
  BY <1>1, <1>4, EndWithStep, ThreadOnly, WorkerOp DEF EndedPhases
<1>5. QED
  BY <1>1, <1>2, <1>3, <1>4 DEF RecordExit

\* The row of o is ended and the lock given back.
LEMMA EndedStep ==
    ASSUME LauncherInv, NEW o \in Ops, o <= created, ~ Covered(o),
           UNCHANGED <<created, trees>>, holder = o, holder' = 0,
           NEW v \in EndedPhases, rows' = [rows EXCEPT ![o] = Ended(@, v)],
           workers'[o] = workers[o] \/ workers'[o].pc = "ended",
           \A l \in Launchers : recovery'[l] = recovery[l] \/ recovery'[l] = NoRecovery
    PROVE  RowIs(o, rows'[o]) /\ OpFits(o)'
<1>1. /\ OpFits(o) /\ RowsOK /\ rows[o] \in Row /\ workers[o].command \in {1, 2} /\ o # 0
      /\ o \in Nat /\ created \in Nat
  BY OpFacts, OpsAreNumbers DEF LauncherInv, LauncherTypeOK
<1>2. RowIs(o, Ended(rows[o], v))
  BY <1>1, RowEnded, RowStep DEF RowsOK
<1>3. RowIs(o, rows'[o]) /\ rows'[o].control = 0 /\ ~ rows'[o].exited
  BY <1>1, <1>2, RowEnded DEF RowIs
<1>4. trees[o].state \notin Ungated
  BY DEF Covered
<1>5. ThreadFits(o)'
  BY <1>1, <1>3, <1>4 DEF OpFits, ThreadFits, Ungated
<1>6. ~ Covered(o)' /\ CoveredFits(o)' /\ ControlPast(o, rows[o].control)'
  BY <1>1, <1>3 DEF CoveredFits, Covered, ControlPast
<1>7. ASSUME NEW l \in Launchers PROVE RecoveryFits(l, o)'
  BY <1>1, <1>6 DEF OpFits, RecoveryFits, ControlPast, NoRecovery
<1>8. QED
  BY <1>3, <1>5, <1>6, <1>7 DEF OpFits

LEMMA FinishOperationStep ==
    ASSUME LauncherInv, NEW o \in Ops, FinishOperation(o)
    PROVE  LauncherInv'
<1>1. /\ workers[o].pc = "finish" /\ OpFits(o) /\ WorkersOK /\ o <= created
      /\ UNCHANGED <<life, created, late, trees, recovery, mishaps>>
      /\ trees[o].state \in {"none", "succeeded"} /\ workers[o].verdict \in EndedPhases
  BY OpFacts, AtWorkCreated DEF FinishOperation, AtWork, OpFits, ThreadFits
<1>2. WorkerIs(o, workers'[o]) /\ workers'[o].pc = "ended"
  BY <1>1, EndThreadStep DEF FinishOperation
<1>3. CASE UNCHANGED <<rows, holder>>
  BY <1>1, <1>2, <1>3, ThreadOnly, WorkerOp
<1>4. CASE /\ rows' = [rows EXCEPT ![o] = Ended(@, workers[o].verdict)]
           /\ holder = o /\ holder' = 0
  BY <1>1, <1>2, <1>4, EndedStep, WorkerOp DEF Covered, Ungated
<1>5. QED
  BY <1>3, <1>4 DEF FinishOperation

LEMMA FinishFailsStep ==
    ASSUME LauncherInv, NEW o \in Ops, FinishFails(o)
    PROVE  LauncherInv'
<1>1. /\ WorkersOK /\ o <= created /\ Mishap /\ EndThread(o)
      /\ UNCHANGED <<life, created, rows, holder, late, trees, recovery>>
  BY OpFacts, AtWorkCreated DEF FinishFails, AtWork
<1>2. QED
  BY <1>1, EndThreadStep, ThreadOnly, WorkerOp

\* A tree ends, or loses its root.
LEMMA CommandEndsStep ==
    ASSUME LauncherInv, NEW o \in Ops, CommandEnds(o)
    PROVE  LauncherInv'
<1>1. /\ OpFits(o) /\ TreesOK /\ trees[o].state \in {"running", "gated"}
      /\ UNCHANGED <<life, created, rows, holder, late, workers, recovery>>
      /\ UNCHANGED mishaps \/ Mishap
  BY OpFacts DEF CommandEnds
<1>2. /\ TreeIs(o, trees'[o])
      /\ \/ trees'[o].state = "none"
         \/ /\ trees[o].state = "running" /\ trees'[o].state \in {"succeeded", "left"}
            /\ trees'[o].command = trees[o].command
  <2>1. CASE trees' = [trees EXCEPT ![o] = NoTree]
    BY <1>1, <2>1, NoTreeStep DEF TreeIs
  <2>2. CASE trees[o].state = "running"
             /\ \E state \in {"succeeded", "left"} : TreeTo(o, state)
    <3>1. PICK state \in {"succeeded", "left"} : TreeTo(o, state)
      BY <2>2
    <3>2. TreeIs(o, [command |-> trees[o].command, state |-> state])
      BY <1>1, <3>1, TreeToStep DEF TreeStates
    <3>3. QED
      BY <2>2, <3>2 DEF TreeIs
  <2>3. QED
    BY <2>1, <2>2 DEF CommandEnds
<1>3. Covered(o)' => Covered(o) /\ trees'[o].command = trees[o].command
  BY <1>1, <1>2 DEF Covered, Ungated
<1>4. ThreadFits(o)'
  BY <1>1, <1>2 DEF OpFits, ThreadFits, Ungated
<1>5. CoveredFits(o)' /\ ControlPast(o, rows[o].control)'
  BY <1>1, <1>3 DEF OpFits, CoveredFits, ControlPast
<1>6. ASSUME NEW l \in Launchers PROVE RecoveryFits(l, o)'
  BY <1>1, <1>3 DEF OpFits, RecoveryFits, ControlPast
<1>7. QED
  BY <1>1, <1>2, <1>4, <1>5, <1>6, WorkerOp DEF OpFits

LEMMA SubmitStep ==
    ASSUME LauncherInv, NEW l \in Launchers, Submit(l)
    PROVE  LauncherInv'
<1> DEFINE R == [phase |-> "queued", owner |-> l, control |-> 0, exited |-> FALSE]
<1>0. PICK o \in Ops : o = created + 1
  BY LauncherAssumption DEF LauncherInv, LauncherTypeOK, Submit, Ops
<1>1. o \in Ops /\ o \in Nat /\ created \in Nat /\ o = created + 1
  BY <1>0 DEF LauncherInv, LauncherTypeOK, Ops
<1>2. /\ WorkersOK /\ RowsOK /\ TreesOK /\ OpFits(o)
      /\ created' = o /\ holder = 0 /\ holder' = o
      /\ rows' = [rows EXCEPT ![o] = R] /\ workers' = [workers EXCEPT ![o] = Thread("start")]
      /\ late' = FALSE /\ UNCHANGED <<life, trees, recovery, mishaps>>
  BY <1>1, OpFacts DEF Submit
<1>3. R \in Row
  BY DEF Row, ActivePhases
<1>4. RowIs(o, R) /\ WorkerIs(o, Thread("start"))
  BY <1>1, <1>2, <1>3, RowStep, ThreadTyped, WorkerStepTyped DEF WorkerPcs
<1>5. /\ rows'[o].control = 0 /\ ~ rows'[o].exited
      /\ workers'[o].pc = "start" /\ workers'[o].command = 1
  BY <1>4, ThreadTyped DEF RowIs, WorkerIs, WorkerPcs
<1>6. LauncherTypeOK' /\ (holder \in 0..created)'
  <2>1. o \in 0..MaxOps
    BY <1>1, LauncherAssumption DEF Ops
  <2>2. rows' \in [Ops -> Row] /\ workers' \in [Ops -> Worker]
    BY <1>4 DEF RowIs, WorkerIs, RowsOK, WorkersOK
  <2>3. created' \in 0..MaxOps /\ holder' \in {0} \cup Ops /\ late' \in BOOLEAN
    BY <1>1, <1>2, <2>1
  <2>4. LauncherTypeOK'
    BY <1>2, <2>2, <2>3 DEF LauncherInv, LauncherTypeOK, LifeTypeOK
  <2>5. QED
    BY <1>1, <1>2, <2>4
<1>7. RecoveryOK'
  BY <1>1, <1>2 DEF LauncherInv, LauncherTypeOK, RecoveryOK
<1>8. OnlyOp(o)
  BY <1>1, <1>2, <1>4, OpsAreNumbers DEF OnlyOp, RowIs, WorkerIs, Ops
<1>9. trees'[o].state = "none"
  BY <1>1, <1>2 DEF OpFits, ThreadFits
<1>10. \A k \in Launchers : recovery'[k].op # o
  BY <1>1, <1>2 DEF LauncherInv, NoRecovery
<1>11. OpFits(o)'
  BY <1>1, <1>2, <1>5, <1>9, <1>10
  DEF OpFits, ThreadFits, CoveredFits, Covered, ControlPast, RecoveryFits, Ungated
<1>12. QED
  BY <1>1, <1>6, <1>7, <1>8, <1>11, OpStep

\* A recovery stops the tree that the row names.
LEMMA StopRecordedTreeStep ==
    ASSUME LauncherInv, NEW l \in Launchers, StopRecordedTree(l)
    PROVE  LauncherInv'
<1>0. PICK o \in Ops : o = holder
  BY DEF LauncherInv, LauncherTypeOK, StopRecordedTree, CanRecover
<1>1. o \in Ops /\ o = holder /\ o \in 1..created /\ created \in Nat
  BY <1>0 DEF LauncherInv, LauncherTypeOK, StopRecordedTree, CanRecover
<1>2. /\ WorkersOK /\ RowsOK /\ TreesOK /\ OpFits(o)
      /\ rows[o].control \in {0, 1, 2} /\ rows[o] \in Row
      /\ trees[o].command \in {1, 2}
      /\ UNCHANGED <<life, created, rows, holder, late, workers, mishaps>>
      /\ recovery' = [recovery EXCEPT ![l] = [op |-> o, control |-> rows[o].control]]
      /\ trees' = IF trees[o].command = rows[o].control /\ ~ rows[o].exited
                  THEN Stop(o) ELSE trees
  <2>1. /\ WorkersOK /\ RowsOK /\ TreesOK /\ OpFits(o)
        /\ rows[o].control \in {0, 1, 2} /\ rows[o] \in Row
        /\ trees[o].command \in {1, 2}
    BY <1>1, OpFacts
  <2>2. QED
    BY <1>1, <2>1 DEF StopRecordedTree
<1>3. /\ TreeIs(o, trees'[o])
      /\ trees'[o] = trees[o] \/ trees'[o].state \in {"none", "succeeded"}
      /\ trees'[o].state = "succeeded" => trees'[o] = trees[o]
      /\ trees[o].command = rows[o].control /\ ~ rows[o].exited
           => trees'[o].state \in {"none", "succeeded"}
  BY <1>1, <1>2, StopStep DEF TreeIs, TreesOK
<1>4. ~ Covered(o)'
  BY <1>2, <1>3 DEF Covered, OpFits, ThreadFits, CoveredFits, Ungated
<1>5. ThreadFits(o)'
  BY <1>2, <1>3 DEF OpFits, ThreadFits, Ungated
<1>6. /\ recovery' \in [Launchers -> Recovery]
      /\ \A k \in Launchers : \/ recovery'[k] = recovery[k]
                              \/ recovery'[k] = [op |-> o, control |-> rows[o].control]
  BY <1>1, <1>2 DEF LauncherInv, LauncherTypeOK, Recovery, Row
<1>7. ASSUME NEW k \in Launchers PROVE RecoveryFits(k, o)'
  BY <1>2, <1>4, <1>6 DEF OpFits, RecoveryFits, ControlPast
<1>8. OpFits(o)'
  BY <1>2, <1>4, <1>5, <1>7 DEF OpFits, CoveredFits, ControlPast
<1>9. RecoveryOK'
  BY <1>1, <1>2, <1>6 DEF LauncherInv, RecoveryOK
<1>10. LauncherTypeOK' /\ (holder \in 0..created)'
  BY <1>1, <1>2, <1>3, <1>6 DEF LauncherInv, LauncherTypeOK, LifeTypeOK, TreeIs, TreesOK
<1>11. OnlyOp(o)
  <2>1. \A k \in Launchers : recovery'[k] = recovery[k] \/ recovery'[k].op = o
    BY <1>6
  <2>2. \A q \in Ops \ {o} : trees'[q] = trees[q]
    BY <1>3 DEF TreeIs
  <2>3. QED
    BY <1>1, <1>2, <2>1, <2>2 DEF OnlyOp
<1>12. QED
  BY <1>1, <1>8, <1>9, <1>10, <1>11, OpStep

\* It ends the operation, if that is still where it was.
LEMMA InterruptRecoveredStep ==
    ASSUME LauncherInv, NEW l \in Launchers, InterruptRecovered(l)
    PROVE  LauncherInv'
<1>0. PICK o \in Ops : o = recovery[l].op /\ o \in 1..created /\ created \in Nat
  <2>1. recovery[l].op \in 1..created /\ created \in 0..MaxOps
    BY DEF LauncherInv, LauncherTypeOK, InterruptRecovered
  <2>2. QED
    BY <2>1, LauncherAssumption DEF Ops
<1>1. o = recovery[l].op /\ o \in 1..created /\ o \in Ops /\ created \in Nat
  BY <1>0
<1>2. /\ OpFits(o) /\ RowsOK /\ UNCHANGED <<life, created, late, trees, workers, mishaps>>
      /\ recovery' = [recovery EXCEPT ![l] = NoRecovery]
  BY <1>1, OpFacts DEF InterruptRecovered
<1>3. /\ RecoveryOK' /\ RecoveryOK
      /\ \A k \in Launchers : recovery'[k] = recovery[k] \/ recovery'[k] = NoRecovery
  BY <1>2 DEF LauncherInv, LauncherTypeOK, RecoveryOK, Recovery, NoRecovery
<1>4. CASE UNCHANGED <<rows, holder>>
  <2>1. OpFits(o)'
    BY <1>1, <1>2, <1>3, <1>4
    DEF OpFits, ThreadFits, CoveredFits, Covered, ControlPast, RecoveryFits, NoRecovery
  <2>2. LauncherTypeOK' /\ (holder \in 0..created)'
    BY <1>2, <1>3, <1>4 DEF LauncherInv, LauncherTypeOK, LifeTypeOK, RecoveryOK
  <2>3. OnlyOp(o)
    BY <1>1, <1>2, <1>3, <1>4 DEF OnlyOp, NoRecovery
  <2>4. QED
    BY <1>1, <1>3, <2>1, <2>2, <2>3, OpStep
<1>5. CASE /\ holder = o /\ holder' = 0 /\ rows[o].control = recovery[l].control
           /\ rows' = [rows EXCEPT ![o] = Ended(@, "interrupted")]
  <2>1. ~ Covered(o)
    BY <1>1, <1>2, <1>5 DEF OpFits, RecoveryFits
  <2>6. "interrupted" \in EndedPhases /\ o <= created /\ workers'[o] = workers[o]
    BY <1>1, <1>2 DEF EndedPhases
  <2>2. RowIs(o, rows'[o]) /\ OpFits(o)'
    BY <1>1, <1>2, <1>3, <1>5, <2>1, <2>6, EndedStep
  <2>3. LauncherTypeOK' /\ (holder \in 0..created)'
    BY <1>1, <1>2, <1>3, <1>5, <2>2
    DEF LauncherInv, LauncherTypeOK, LifeTypeOK, RecoveryOK, RowIs, RowsOK
  <2>4. OnlyOp(o)
    BY <1>1, <1>2, <1>3, <1>5, <2>2 DEF OnlyOp, NoRecovery, RowIs
  <2>5. QED
    BY <1>1, <1>3, <2>2, <2>3, <2>4, OpStep
<1>6. QED
  BY <1>1, <1>4, <1>5 DEF InterruptRecovered

\* The memory of a launcher dies with it.
LEMMA LifeOfLaunchersStep ==
    ASSUME LauncherInv, LifeOfLaunchers
    PROVE  LauncherInv'
<1>1. UNCHANGED <<created, rows, holder, late, trees, mishaps>>
  BY DEF LifeOfLaunchers
<1>2. LifeTypeOK'
  BY DEF LifeOfLaunchers, LauncherInv, LauncherTypeOK, LifeTypeOK, Start, Kill
<1>3. /\ WorkersOK' /\ recovery' \in [Launchers -> Recovery]
      /\ \A o \in Ops : \/ workers'[o] = workers[o]
                        \/ workers'[o].pc = "ended" /\ workers[o].pc # "none"
      /\ \A l \in Launchers : recovery'[l] = recovery[l] \/ recovery'[l] = NoRecovery
  <2>1. Thread("ended") \in Worker /\ Thread("ended").pc = "ended"
    BY ThreadTyped DEF WorkerPcs
  <2>2. NoRecovery \in Recovery
    BY DEF NoRecovery, Recovery
  <2>3. QED
    BY <2>1, <2>2 DEF LifeOfLaunchers, LauncherInv, LauncherTypeOK, WorkersOK
<1>4. ASSUME NEW o \in Ops PROVE OpFits(o)'
  <2>1. OpFits(o) /\ o # 0
    BY OpsAreNumbers DEF LauncherInv
  <2>2. ThreadFits(o)'
    BY <1>1, <1>3, <2>1 DEF OpFits, ThreadFits
  <2>3. (Covered(o)' => Covered(o)) /\ \A c : ControlPast(o, c) => ControlPast(o, c)'
    BY <1>1, <1>3 DEF Covered, ControlPast
  <2>4. CoveredFits(o)' /\ ControlPast(o, rows[o].control)'
    BY <1>1, <2>1, <2>3 DEF OpFits, CoveredFits
  <2>5. ASSUME NEW l \in Launchers PROVE RecoveryFits(l, o)'
    BY <1>1, <1>3, <2>1, <2>3 DEF OpFits, RecoveryFits, NoRecovery
  <2>6. QED
    BY <2>2, <2>4, <2>5 DEF OpFits
<1>5. QED
  BY <1>1, <1>2, <1>3, <1>4 DEF LauncherInv, LauncherTypeOK, WorkersOK

\* No operation has been submitted.
NoOperationYet ==
    /\ created = 0
    /\ rows = [o \in Ops |->
          [phase |-> "none", owner |-> CHOOSE l \in Launchers : TRUE,
           control |-> 0, exited |-> FALSE]]
    /\ holder = 0 /\ late = FALSE
    /\ trees = [o \in Ops |-> NoTree]
    /\ workers = [o \in Ops |-> Thread("none")]
    /\ recovery = [l \in Launchers |-> NoRecovery]
    /\ mishaps = 0

LEMMA NoOperationYetInv == LifeTypeOK /\ NoOperationYet => LauncherInv
<1> SUFFICES ASSUME LifeTypeOK, NoOperationYet PROVE LauncherInv
  OBVIOUS
<1>1. (CHOOSE l \in Launchers : TRUE) \in Launchers
  BY LauncherAssumption
<1>2. /\ \A o \in Ops : /\ workers[o] = Thread("none") /\ trees[o] = NoTree
                        /\ rows[o].control = 0 /\ ~ rows[o].exited
      /\ \A l \in Launchers : recovery[l] = NoRecovery
      /\ created = 0 /\ holder = 0 /\ late = FALSE /\ mishaps = 0
  BY DEF NoOperationYet
<1>3. rows \in [Ops -> Row]
  BY <1>1 DEF NoOperationYet, Row
<1>4. workers \in [Ops -> Worker] /\ Thread("none").pc = "none"
  BY ThreadTyped DEF NoOperationYet, WorkerPcs
<1>5. trees \in [Ops -> Tree] /\ recovery \in [Launchers -> Recovery]
  BY DEF NoOperationYet, Tree, NoTree, Recovery, NoRecovery, Commands, TreeStates
<1>10. 0 \in 0..MaxOps /\ 0 \in 0..MaxMishaps
  BY LauncherAssumption
<1>7. LauncherTypeOK
  BY <1>2, <1>3, <1>4, <1>5, <1>10 DEF LauncherTypeOK
<1>8. ASSUME NEW o \in Ops PROVE OpFits(o)
  BY <1>2, <1>4, OpsAreNumbers
  DEF OpFits, ThreadFits, CoveredFits, Covered, ControlPast, RecoveryFits, Ungated,
      NoTree, NoRecovery
<1>9. QED
  BY <1>2, <1>7, <1>8 DEF LauncherInv

LEMMA LauncherInvInit == LauncherInit => LauncherInv
BY LivesInit, NoOperationYetInv DEF LauncherInit, NoOperationYet, LivesOK

LEMMA LauncherInvStep == LauncherInv /\ [LauncherNext]_launcherVars => LauncherInv'
<1> SUFFICES ASSUME LauncherInv, [LauncherNext]_launcherVars PROVE LauncherInv'
  OBVIOUS
<1>1. ASSUME NEW o \in Ops, WorkerStep(o) PROVE LauncherInv'
  BY <1>1, StartWorkerStep, NeedlessStep, SpawnStep, RecordControlStep, OpenGateStep,
     AwaitStep, AbortCommandStep, RecordExitStep, FinishOperationStep DEF WorkerStep
<1>2. ASSUME NEW o \in Ops, TreeNotStopped(o) \/ FinishFails(o) \/ CommandEnds(o)
      PROVE  LauncherInv'
  BY <1>2, TreeNotStoppedStep, FinishFailsStep, CommandEndsStep
<1>3. ASSUME NEW l \in Launchers, Submit(l) \/ RecoveryStep(l) PROVE LauncherInv'
  BY <1>3, SubmitStep, StopRecordedTreeStep, InterruptRecoveredStep DEF RecoveryStep
<1>4. CASE PassDeadline
  BY <1>4 DEF PassDeadline, LauncherInv, LauncherTypeOK, LifeTypeOK, OpFits, ThreadFits,
     CoveredFits, Covered, ControlPast, RecoveryFits
<1>5. CASE LifeOfLaunchers
  BY <1>5, LifeOfLaunchersStep
<1>6. CASE UNCHANGED launcherVars
  BY <1>6 DEF launcherVars, LauncherInv, LauncherTypeOK, LifeTypeOK, OpFits, ThreadFits,
     CoveredFits, Covered, ControlPast, RecoveryFits
<1>7. QED
  BY <1>1, <1>2, <1>3, <1>4, <1>5, <1>6 DEF LauncherNext

\* While processes of a command that passed its gate may be alive, its
\* operation holds the lock and its row names them, however launchers die, are
\* late and recover (_run, _operation_worker).
THEOREM LockCovers ==
    LauncherSpec => [](LauncherTypeOK /\ LockCoversTrees)
<1>1. LauncherInv => LauncherTypeOK /\ LockCoversTrees
  BY DEF LauncherInv, OpFits, CoveredFits, Covered, LockCoversTrees
<1>2. QED
  BY <1>1, LauncherInvInit, LauncherInvStep, PTL DEF LauncherSpec

-----------------------------------------------------------------------------
\* Jobs that distil lessons.

WorkingPcs == {"claimed", "finalize", "defer"}

\* A call knows its own identity when it has claimed a job; who holds it, then,
\* finishes it, or marks it.
JobKept(i) ==
    jobs[i].state = "claimed" =>
        \E w \in Recorders :
            /\ ClaimantOf(jobs[i].token) = w
            /\ \/ life[ProcessOf(w)] = "gone"
               \/ Mark(i, jobs[i].token) \in marks[ProcessOf(w)] \cup lost
               \/ /\ Token(w) = jobs[i].token /\ call[w].item = i
                  /\ call[w].pc \in WorkingPcs /\ call[w].known

\* A token is in a job while that is claimed.
TokensFit ==
    \A i \in Interactions : jobs[i].state = "claimed" <=> jobs[i].token # NoToken

\* What is marked is over.
MarksPast ==
    \A p \in Instances : \A m \in marks[p] :
        \A w \in Recorders, n \in 1..MaxCalls :
            m[2] = <<w, n>> => /\ n <= call[w].serial
                               /\ n = call[w].serial => call[w].pc = "idle"

CallsBegun ==
    \A w \in Recorders : call[w].pc # "idle" => call[w].serial # 0

DistillInv ==
    /\ DistillTypeOK /\ PidsUnique /\ TokensFit /\ MarksPast /\ CallsBegun
    /\ \A i \in Interactions : JobKept(i)

CallsOK == call \in [Recorders -> Calls]

\* Call w goes to pc, with the same serial and item; the others stay.
CallMoves(w, pc) ==
    /\ \A v \in Recorders \ {w} : call'[v] = call[v]
    /\ call'[w].pc = pc /\ call'[w].serial = call[w].serial
    /\ call'[w].item = call[w].item

\* Types.
CallPcs == {"idle", "record", "claimed", "finalize", "defer"}

LEMMA CallPcRow ==
    ASSUME NEW C \in Calls, NEW pc \in CallPcs
    PROVE  [C EXCEPT !.pc = pc] \in Calls
BY ZenonT(30) DEF Calls, CallPcs

LEMMA CallFoundRow ==
    ASSUME NEW C \in Calls, NEW pc \in CallPcs, NEW found \in BOOLEAN
    PROVE  [C EXCEPT !.pc = pc, !.candidate = found] \in Calls
BY ZenonT(30) DEF Calls, CallPcs

LEMMA CallDoneRow ==
    ASSUME NEW C \in Calls
    PROVE  [C EXCEPT !.pc = "idle", !.signal = "good", !.known = TRUE,
                     !.candidate = FALSE] \in Calls
<1>1. /\ "idle" \in {"idle", "record", "claimed", "finalize", "defer"}
      /\ "good" \in {"good", "bad"} /\ TRUE \in BOOLEAN /\ FALSE \in BOOLEAN
  OBVIOUS
<1>2. QED
  BY <1>1, ZenonT(30) DEF Calls

LEMMA CallToStep ==
    ASSUME CallsOK, NEW w \in Recorders, NEW pc \in CallPcs, CallTo(w, pc)
    PROVE  CallsOK' /\ CallMoves(w, pc) /\ call'[w].known = call[w].known
<1>1. call' = [call EXCEPT ![w] = [call[w] EXCEPT !.pc = pc]]
  BY DEF CallsOK, CallTo
<1>2. [call[w] EXCEPT !.pc = pc] \in Calls
  BY CallPcRow DEF CallsOK
<1>3. CallsOK'
  BY <1>1, <1>2 DEF CallsOK
<1>4. QED
  BY <1>1, <1>3 DEF CallsOK, Calls, CallMoves

LEMMA CallFoundStep ==
    ASSUME CallsOK, NEW w \in Recorders, NEW found \in BOOLEAN,
           call' = [call EXCEPT ![w].pc = "finalize", ![w].candidate = found]
    PROVE  CallsOK' /\ CallMoves(w, "finalize") /\ call'[w].known = call[w].known
<1>1. call' = [call EXCEPT ![w] = [call[w] EXCEPT !.pc = "finalize", !.candidate = found]]
  BY DEF CallsOK
<1>2. [call[w] EXCEPT !.pc = "finalize", !.candidate = found] \in Calls
  BY CallFoundRow DEF CallsOK, CallPcs
<1>3. CallsOK'
  BY <1>1, <1>2 DEF CallsOK
<1>4. QED
  BY <1>1, <1>3 DEF CallsOK, Calls, CallMoves

LEMMA FinishStep ==
    ASSUME CallsOK, NEW w \in Recorders, Finish(w)
    PROVE  CallsOK' /\ CallMoves(w, "idle")
<1>1. [call[w] EXCEPT !.pc = "idle", !.signal = "good", !.known = TRUE,
                      !.candidate = FALSE] \in Calls
  BY CallDoneRow DEF CallsOK
<1>2. CallsOK'
  BY <1>1 DEF CallsOK, Finish
<1>3. QED
  BY <1>2 DEF CallsOK, Calls, CallMoves, Finish

LEMMA TokenTyped ==
    ASSUME DistillInv, NEW w \in Recorders, call[w].pc # "idle"
    PROVE  /\ Token(w) \in Tokens /\ Token(w) # NoToken /\ ClaimantOf(Token(w)) = w
           /\ ProcessOf(w) \in Instances
<1>1. call[w].serial \in 1..MaxCalls
  BY DistillationAssumption DEF DistillInv, DistillTypeOK, CallsBegun, Calls
<1>2. QED
  BY <1>1, DistillationAssumption DEF Token, Tokens, ClaimantOf, ProcessOf

LEMMA JobTyped ==
    ASSUME NEW i \in Interactions, jobs \in [Interactions -> Jobs], NEW state \in JobStates
    PROVE  /\ JobTo(i, state) \in [Interactions -> Jobs]
           /\ JobTo(i, state)[i] = [state |-> state, token |-> NoToken]
           /\ \A q \in Interactions \ {i} : JobTo(i, state)[q] = jobs[q]
BY DEF JobTo, Jobs

\* A job that is cancelled or ended, or stays so.
LEMMA CancelTyped ==
    ASSUME NEW i \in Interactions, jobs \in [Interactions -> Jobs], TokensFit
    PROVE  /\ CancelJob(i) \in [Interactions -> Jobs]
           /\ CancelJob(i)[i].state # "claimed" /\ CancelJob(i)[i].token = NoToken
           /\ \A q \in Interactions \ {i} : CancelJob(i)[q] = jobs[q]
<1>1. CASE jobs[i].state \in TerminalStates
  BY <1>1 DEF CancelJob, TerminalStates, TokensFit
<1>2. CASE jobs[i].state \notin TerminalStates
  <2>1. CancelJob(i) = JobTo(i, "cancelled")
    BY <1>2 DEF CancelJob
  <2>2. QED
    BY <2>1, JobTyped DEF JobStates
<1>3. QED
  BY <1>1, <1>2

\* A step of one call: its job is open, ended or kept, its mark is set when it
\* is over, and marks of its job alone are taken away.
LEMMA CallStep ==
    ASSUME DistillInv, DistillTypeOK', UNCHANGED life,
           NEW w \in Recorders, NEW i \in Interactions, call[w].pc # "idle",
           call[w].item = i, NEW pc, CallMoves(w, pc),
           \A q \in Interactions \ {i} : jobs'[q] = jobs[q],
           jobs'[i].state = "claimed" <=> jobs'[i].token # NoToken,
           JobKept(i)',
           \A p \in Instances : marks'[p] \ marks[p] \subseteq
                IF pc = "idle" THEN {Mark(i, Token(w))} ELSE {},
           \A p \in Instances : \A m \in marks[p] \ marks'[p] : m[1] = i,
           lost \subseteq lost'
    PROVE  DistillInv'
<1>1. PidsUnique' /\ TokensFit'
  BY DEF DistillInv, PidsUnique, TokensFit
<1>2. CallsBegun'
  BY DEF DistillInv, CallsBegun, CallMoves
<1>3. MarksPast'
  <2>1. SUFFICES ASSUME NEW p \in Instances, NEW m \in marks'[p], NEW v \in Recorders,
                        NEW n \in 1..MaxCalls, m[2] = <<v, n>>
                 PROVE  /\ n <= call'[v].serial
                        /\ n = call'[v].serial => call'[v].pc = "idle"
    BY DEF MarksPast
  <2>2. CASE m \in marks[p]
    <3>1. n <= call[v].serial /\ (n = call[v].serial => call[v].pc = "idle")
      BY <2>1, <2>2 DEF DistillInv, MarksPast
    <3>2. QED
      BY <3>1 DEF CallMoves
  <2>3. CASE m \notin marks[p]
    <3>1. pc = "idle" /\ m = Mark(i, Token(w))
      BY <2>1, <2>3
    <3>2. v = w /\ n = call[w].serial
      BY <2>1, <3>1 DEF Mark, Token
    <3>3. QED
      BY <3>1, <3>2 DEF CallMoves
  <2>4. QED
    BY <2>2, <2>3
<1>4. ASSUME NEW q \in Interactions, q # i PROVE JobKept(q)'
  <2>1. SUFFICES ASSUME jobs[q].state = "claimed" PROVE JobKept(q)'
    BY <1>4 DEF JobKept
  <2>2. PICK v \in Recorders :
            /\ ClaimantOf(jobs[q].token) = v
            /\ \/ life[ProcessOf(v)] = "gone"
               \/ Mark(q, jobs[q].token) \in marks[ProcessOf(v)] \cup lost
               \/ /\ Token(v) = jobs[q].token /\ call[v].item = q
                  /\ call[v].pc \in WorkingPcs /\ call[v].known
    BY <2>1 DEF DistillInv, JobKept
  <2>3. jobs'[q] = jobs[q] /\ ProcessOf(v) \in Instances /\ Mark(q, jobs[q].token)[1] = q
    BY <1>4, DistillationAssumption DEF ProcessOf, Mark
  <2>4. Mark(q, jobs[q].token) \in marks[ProcessOf(v)] \cup lost
          => Mark(q, jobs[q].token) \in marks'[ProcessOf(v)] \cup lost'
    BY <1>4, <2>3
  <2>5. call[v].item = q => call'[v] = call[v]
    BY <1>4 DEF CallMoves
  <2>6. QED
    BY <2>2, <2>3, <2>4, <2>5 DEF JobKept, Mark, Token
<1>5. QED
  BY <1>1, <1>2, <1>3, <1>4 DEF DistillInv

LEMMA BeginRecordStep ==
    ASSUME DistillInv, NEW w \in Recorders, NEW i \in Interactions, BeginRecord(w, i)
    PROVE  DistillInv'
<1>1. PICK signal \in {"good", "bad"}, own \in ProbeStates(ProcessOf(w)) :
          call' = [call EXCEPT ![w] =
                     [pc |-> "record", item |-> i, signal |-> signal,
                      serial |-> @.serial + 1, known |-> own = "alive",
                      candidate |-> FALSE]]
  BY DEF BeginRecord
<1>2. /\ UNCHANGED <<life, kept, outcomes, jobs, lessons, marks, lost, errors>>
      /\ call \in [Recorders -> Calls] /\ call[w].pc = "idle"
      /\ call[w].serial \in Nat /\ call[w].serial < MaxCalls
  BY DistillationAssumption DEF BeginRecord, DistillInv, DistillTypeOK, Calls
<1>3. [pc |-> "record", item |-> i, signal |-> signal, serial |-> call[w].serial + 1,
       known |-> own = "alive", candidate |-> FALSE] \in Calls
  BY <1>2, DistillationAssumption DEF Calls
<1>4. /\ call' \in [Recorders -> Calls] /\ \A v \in Recorders \ {w} : call'[v] = call[v]
      /\ call'[w].pc = "record" /\ call'[w].serial = call[w].serial + 1
  BY <1>1, <1>2, <1>3
<1>5. DistillTypeOK' /\ PidsUnique' /\ TokensFit' /\ CallsBegun'
  BY <1>2, <1>4
  DEF DistillInv, DistillTypeOK, LifeTypeOK, PidsUnique, TokensFit, CallsBegun
<1>6. MarksPast'
  BY <1>2, <1>4 DEF DistillInv, MarksPast
<1>7. ASSUME NEW q \in Interactions PROVE JobKept(q)'
  <2>1. JobKept(q) /\ call[w].pc \notin WorkingPcs
    BY <1>2 DEF DistillInv, WorkingPcs
  <2>2. \A v \in Recorders \ {w} : Token(v)' = Token(v)
    BY <1>4 DEF Token
  <2>3. QED
    BY <1>2, <1>4, <2>1, <2>2 DEF JobKept, Mark
<1>8. QED
  BY <1>5, <1>6, <1>7 DEF DistillInv

\* A call at work.
LEMMA CallFacts ==
    ASSUME DistillInv, NEW w \in Recorders, NEW pc \in CallPcs \ {"idle"},
           NEW i \in Interactions, In(w, pc, i)
    PROVE  /\ CallsOK /\ call[w].pc = pc /\ call[w].item = i /\ jobs \in [Interactions -> Jobs]
           /\ Token(w) \in Tokens /\ Token(w) # NoToken /\ ClaimantOf(Token(w)) = w
           /\ ProcessOf(w) \in Instances /\ life[ProcessOf(w)] = "up" /\ TokensFit /\ JobKept(i)
           /\ marks \in [Instances -> SUBSET (Interactions \X Tokens)]
           /\ outcomes \in [Interactions -> SUBSET {"good", "bad"}]
<1>1. call[w].pc = pc /\ call[w].item = i /\ life[ProcessOf(w)] = "up" /\ pc # "idle"
  BY DEF In
<1>2. QED
  BY <1>1, TokenTyped DEF DistillInv, DistillTypeOK, CallsOK

\* Only the call moves, and marks of its job are lost; a job that it holds it
\* goes on holding, unless it holds none.
LEMMA CallMovesOn ==
    ASSUME DistillInv, DistillTypeOK', UNCHANGED <<life, jobs>>,
           NEW w \in Recorders, NEW i \in Interactions, call[w].pc # "idle",
           call[w].item = i, NEW pc, CallMoves(w, pc),
           \/ ~ Mine(w, i) \/ call[w].pc \notin WorkingPcs
           \/ pc \in WorkingPcs /\ call'[w].known = call[w].known,
           lost \subseteq lost',
           \A p \in Instances :
               /\ marks'[p] \subseteq marks[p] /\ marks[p] \subseteq marks'[p] \cup lost'
               /\ \A m \in marks[p] \ marks'[p] : m[1] = i
    PROVE  DistillInv'
<1>1. JobKept(i)'
  <2>1. SUFFICES ASSUME jobs[i].state = "claimed" PROVE JobKept(i)'
    BY DEF JobKept
  <2>2. PICK v \in Recorders :
            /\ ClaimantOf(jobs[i].token) = v
            /\ \/ life[ProcessOf(v)] = "gone"
               \/ Mark(i, jobs[i].token) \in marks[ProcessOf(v)] \cup lost
               \/ /\ Token(v) = jobs[i].token /\ call[v].item = i
                  /\ call[v].pc \in WorkingPcs /\ call[v].known
    BY <2>1 DEF DistillInv, JobKept
  <2>6. /\ ProcessOf(v) \in Instances
        /\ marks[ProcessOf(v)] \cup lost \subseteq marks'[ProcessOf(v)] \cup lost'
    BY DistillationAssumption DEF ProcessOf
  <2>3. CASE v # w
    BY <2>2, <2>3, <2>6 DEF JobKept, CallMoves, Token, Mark
  <2>4. CASE v = w
    <3>1. Token(w) = jobs[i].token => Mine(w, i)
      BY <2>1 DEF Mine, DistillInv, DistillTypeOK, Jobs
    <3>2. Token(w)' = Token(w)
      BY DEF Token, CallMoves
    <3>3. QED
      BY <2>2, <2>4, <2>6, <3>1, <3>2 DEF JobKept, CallMoves, Mark
  <2>5. QED
    BY <2>3, <2>4
<1>2. QED
  BY <1>1, CallStep DEF DistillInv, TokensFit

\* The job of a call is no longer claimed, and the call is over.
LEMMA JobOver ==
    ASSUME DistillInv, DistillTypeOK', UNCHANGED <<life, marks, lost>>,
           NEW w \in Recorders, NEW i \in Interactions, call[w].pc # "idle",
           call[w].item = i, CallMoves(w, "idle"),
           \A q \in Interactions \ {i} : jobs'[q] = jobs[q],
           jobs'[i].state # "claimed" /\ jobs'[i].token = NoToken
    PROVE  DistillInv'
<1>1. JobKept(i)'
  BY DEF JobKept
<1>2. QED
  BY <1>1, CallStep

\* Who takes a job, cancels it, or leaves it.
LEMMA RecordOutcomeStep ==
    ASSUME DistillInv, NEW w \in Recorders, NEW i \in Interactions, RecordOutcome(w, i)
    PROVE  DistillInv'
<1>1. /\ CallsOK /\ call[w].pc = "record" /\ call[w].item = i /\ jobs \in [Interactions -> Jobs]
      /\ Token(w) \in Tokens /\ Token(w) # NoToken /\ ClaimantOf(Token(w)) = w
      /\ ProcessOf(w) \in Instances /\ TokensFit /\ JobKept(i)
      /\ marks \in [Instances -> SUBSET (Interactions \X Tokens)]
      /\ outcomes \in [Interactions -> SUBSET {"good", "bad"}]
      /\ UNCHANGED <<life, kept, lessons, lost, errors>>
  BY CallFacts DEF RecordOutcome, CallPcs
<1>2. CASE Finish(w) /\ UNCHANGED <<outcomes, jobs, marks>>
  <2>1. CallsOK' /\ CallMoves(w, "idle")
    BY <1>1, <1>2, FinishStep
  <2>2. DistillTypeOK'
    BY <1>1, <1>2, <2>1 DEF DistillInv, DistillTypeOK, LifeTypeOK, CallsOK
  <2>3. QED
    BY <1>1, <1>2, <2>1, <2>2, CallMovesOn DEF WorkingPcs
<1>3. ASSUME outcomes' = [outcomes EXCEPT ![i] = outcomes[i] \cup {call[w].signal}]
      PROVE  outcomes' \in [Interactions -> SUBSET {"good", "bad"}]
  BY <1>1, <1>3 DEF CallsOK, Calls
<1>4. CASE /\ outcomes' = [outcomes EXCEPT ![i] = outcomes[i] \cup {call[w].signal}]
           /\ jobs' = CancelJob(i) /\ Finish(w) /\ UNCHANGED marks
  <2>1. CallsOK' /\ CallMoves(w, "idle")
    BY <1>1, <1>4, FinishStep
  <2>2. /\ jobs' \in [Interactions -> Jobs] /\ jobs'[i].state # "claimed"
        /\ jobs'[i].token = NoToken /\ \A q \in Interactions \ {i} : jobs'[q] = jobs[q]
    BY <1>1, <1>4, CancelTyped
  <2>3. DistillTypeOK'
    BY <1>1, <1>3, <1>4, <2>1, <2>2 DEF DistillInv, DistillTypeOK, LifeTypeOK, CallsOK
  <2>4. QED
    BY <1>1, <1>4, <2>1, <2>2, <2>3, JobOver
<1>5. CASE /\ outcomes' = [outcomes EXCEPT ![i] = outcomes[i] \cup {call[w].signal}]
           /\ Claiming(w, i) /\ marks' = MarksLeft(w, i)
  <2>1. /\ marks' \in [Instances -> SUBSET (Interactions \X Tokens)]
        /\ \A p \in Instances : marks'[p] \subseteq marks[p]
        /\ \A p \in Instances : \A m \in marks[p] \ marks'[p] : m[1] = i
        /\ jobs[i].state = "claimed" /\ Consumed(w, i) = {} => marks' = marks
    BY <1>1, <1>5 DEF MarksLeft, MarksOf, Consumed, Mark
  <2>2. CASE /\ jobs' = [jobs EXCEPT ![i] = [state |-> "claimed", token |-> Token(w)]]
             /\ call[w].known /\ CallTo(w, "claimed")
    <3>1. CallsOK' /\ CallMoves(w, "claimed") /\ call'[w].known
      BY <1>1, <2>2, CallToStep DEF CallPcs
    <3>2. /\ jobs' \in [Interactions -> Jobs]
          /\ jobs'[i] = [state |-> "claimed", token |-> Token(w)]
          /\ \A q \in Interactions \ {i} : jobs'[q] = jobs[q]
      BY <1>1, <2>2 DEF Jobs, JobStates
    <3>3. DistillTypeOK'
      BY <1>1, <1>3, <1>5, <2>1, <3>1, <3>2 DEF DistillInv, DistillTypeOK, LifeTypeOK, CallsOK
    <3>4. Token(w)' = Token(w)
      BY <3>1 DEF Token, CallMoves
    <3>5. JobKept(i)'
      BY <1>1, <3>1, <3>2, <3>4 DEF JobKept, CallMoves, WorkingPcs
    <3>6. \A p \in Instances : marks'[p] \ marks[p] \subseteq {}
      BY <2>1
    <3>7. QED
      BY <1>1, <2>1, <3>1, <3>2, <3>3, <3>5, <3>6, CallStep
  <2>3. CASE jobs' = JobTo(i, "retryable") /\ Finish(w)
    <3>1. CallsOK' /\ CallMoves(w, "idle")
      BY <1>1, <2>3, FinishStep
    <3>2. /\ jobs' \in [Interactions -> Jobs]
          /\ jobs'[i] = [state |-> "retryable", token |-> NoToken]
          /\ \A q \in Interactions \ {i} : jobs'[q] = jobs[q]
      BY <1>1, <2>3, JobTyped DEF JobStates
    <3>3. DistillTypeOK'
      BY <1>1, <1>3, <1>5, <2>1, <3>1, <3>2 DEF DistillInv, DistillTypeOK, LifeTypeOK, CallsOK
    <3>4. JobKept(i)'
      BY <3>2 DEF JobKept
    <3>5. QED
      BY <1>1, <2>1, <3>1, <3>2, <3>3, <3>4, CallStep
  <2>4. CASE /\ UNCHANGED jobs /\ Finish(w)
             /\ \/ jobs[i].state \in TerminalStates
                \/ jobs[i].state = "claimed" /\ Consumed(w, i) = {}
    <3>1. CallsOK' /\ CallMoves(w, "idle")
      BY <1>1, <2>4, FinishStep
    <3>2. DistillTypeOK'
      BY <1>1, <1>3, <1>5, <2>1, <2>4, <3>1 DEF DistillInv, DistillTypeOK, LifeTypeOK, CallsOK
    <3>3. CASE jobs[i].state = "claimed" /\ Consumed(w, i) = {}
      BY <1>1, <2>1, <2>4, <3>1, <3>2, <3>3, CallMovesOn DEF WorkingPcs
    <3>4. CASE jobs[i].state \in TerminalStates
      <4>1. JobKept(i)' /\ (jobs'[i].state = "claimed" <=> jobs'[i].token # NoToken)
        BY <1>1, <2>4, <3>4 DEF JobKept, TerminalStates, TokensFit
      <4>2. QED
        BY <1>1, <2>1, <2>4, <3>1, <3>2, <4>1, CallStep
    <3>5. QED
      BY <2>4, <3>3, <3>4
  <2>5. QED
    BY <1>5, <2>2, <2>3, <2>4 DEF Claiming
<1>6. QED
  BY <1>2, <1>4, <1>5 DEF RecordOutcome

\* A call whose transaction fails, or whose model answers, goes on.
LEMMA CallGoesOn ==
    ASSUME DistillInv, NEW w \in Recorders, NEW i \in Interactions,
           RecordFails(w, i) \/ Distil(w, i) \/ FinalizeFails(w, i)
    PROVE  DistillInv'
<1>1. PICK pc \in {"record", "claimed", "finalize"} : In(w, pc, i)
  BY DEF RecordFails, Distil, FinalizeFails
<1>2. CallsOK /\ call[w].pc = pc /\ call[w].item = i
  BY <1>1, CallFacts DEF CallPcs
<1>3. /\ CallsOK' /\ call'[w].known = call[w].known
      /\ \E to \in {"defer", "finalize"} : CallMoves(w, to)
  BY <1>2, CallToStep, CallFoundStep DEF RecordFails, Distil, FinalizeFails, CallPcs
<1>4. UNCHANGED <<life, kept, outcomes, jobs, lessons>> /\ errors' \in 0..MaxErrors
  BY DistillationAssumption
  DEF RecordFails, Distil, FinalizeFails, DistillInv, DistillTypeOK
<1>5. /\ marks' \in [Instances -> SUBSET (Interactions \X Tokens)]
      /\ lost' \subseteq Interactions \X Tokens /\ lost \subseteq lost'
      /\ \A p \in Instances :
            /\ marks'[p] \subseteq marks[p] /\ marks[p] \subseteq marks'[p] \cup lost'
            /\ \A m \in marks[p] \ marks'[p] : m[1] = i
  <2>1. /\ marks \in [Instances -> SUBSET (Interactions \X Tokens)]
        /\ lost \subseteq Interactions \X Tokens /\ ProcessOf(w) \in Instances
    BY DistillationAssumption DEF DistillInv, DistillTypeOK, ProcessOf
  <2>2. CASE UNCHANGED marks
    <3>1. UNCHANGED lost
      BY <2>2 DEF RecordFails, Distil, FinalizeFails
    <3>2. QED
      BY <2>1, <2>2, <3>1
  <2>3. CASE /\ marks' = MarksLeft(w, i)
             /\ lost' = lost \cup (marks[ProcessOf(w)] \ marks'[ProcessOf(w)])
    BY <2>1, <2>3 DEF MarksLeft, MarksOf, Consumed, Mark
  <2>4. QED
    BY <2>2, <2>3 DEF RecordFails, Distil, FinalizeFails
<1>6. DistillTypeOK'
  BY <1>3, <1>4, <1>5 DEF DistillInv, DistillTypeOK, LifeTypeOK, CallsOK
<1>7. QED
  BY <1>2, <1>3, <1>4, <1>5, <1>6, CallMovesOn DEF WorkingPcs

\* The job is stored, ended, cancelled or returned by its claimant.
LEMMA FinalizeJobStep ==
    ASSUME DistillInv, NEW w \in Recorders, NEW i \in Interactions, FinalizeJob(w, i)
    PROVE  DistillInv'
<1>1. /\ CallsOK /\ call[w].pc = "finalize" /\ call[w].item = i
      /\ jobs \in [Interactions -> Jobs] /\ Finish(w)
      /\ UNCHANGED <<life, kept, outcomes, marks, lost, errors>>
  BY CallFacts DEF FinalizeJob, CallPcs
<1>2. CallsOK' /\ CallMoves(w, "idle")
  BY <1>1, FinishStep
<1>3. CASE ~ Mine(w, i)
  <2>1. UNCHANGED <<jobs, lessons>>
    BY <1>3 DEF FinalizeJob
  <2>2. DistillTypeOK'
    BY <1>1, <1>2, <2>1 DEF DistillInv, DistillTypeOK, LifeTypeOK, CallsOK
  <2>3. QED
    BY <1>1, <1>2, <1>3, <2>1, <2>2, CallMovesOn
<1>4. CASE Mine(w, i)
  <2>1. PICK state \in TerminalStates : jobs' = JobTo(i, state)
    BY <1>4 DEF FinalizeJob, TerminalStates
  <2>2. state \in JobStates /\ state # "claimed"
    BY DEF TerminalStates, JobStates
  <2>3. /\ jobs' \in [Interactions -> Jobs] /\ jobs'[i] = [state |-> state, token |-> NoToken]
        /\ \A q \in Interactions \ {i} : jobs'[q] = jobs[q]
    BY <1>1, <2>1, <2>2, JobTyped
  <2>4. lessons' \in [Interactions -> 0..1]
    BY <1>4 DEF FinalizeJob, DistillInv, DistillTypeOK
  <2>5. DistillTypeOK'
    BY <1>1, <1>2, <2>3, <2>4 DEF DistillInv, DistillTypeOK, LifeTypeOK, CallsOK
  <2>6. QED
    BY <1>1, <1>2, <2>2, <2>3, <2>5, JobOver
<1>5. QED
  BY <1>3, <1>4

LEMMA DeferStep ==
    ASSUME DistillInv, NEW w \in Recorders, NEW i \in Interactions, Defer(w, i)
    PROVE  DistillInv'
<1>1. /\ CallsOK /\ call[w].pc = "defer" /\ call[w].item = i /\ TokensFit
      /\ jobs \in [Interactions -> Jobs] /\ Finish(w)
      /\ UNCHANGED <<life, kept, outcomes, lessons, marks, lost, errors>>
  BY CallFacts DEF Defer, CallPcs
<1>2. CallsOK' /\ CallMoves(w, "idle")
  BY <1>1, FinishStep
<1>3. CASE ~ Mine(w, i)
  <2>1. UNCHANGED jobs
    BY <1>3 DEF Defer
  <2>2. DistillTypeOK'
    BY <1>1, <1>2, <2>1 DEF DistillInv, DistillTypeOK, LifeTypeOK, CallsOK
  <2>3. QED
    BY <1>1, <1>2, <1>3, <2>1, <2>2, CallMovesOn
<1>4. CASE Mine(w, i)
  <2>1. jobs' \in {JobTo(i, "retryable"), CancelJob(i)}
    BY <1>4 DEF Defer
  <2>2. "retryable" \in JobStates
    BY DEF JobStates
  <2>3. /\ jobs' \in [Interactions -> Jobs] /\ jobs'[i].state # "claimed"
        /\ jobs'[i].token = NoToken /\ \A q \in Interactions \ {i} : jobs'[q] = jobs[q]
    <3>1. CASE jobs' = JobTo(i, "retryable")
      <4>1. /\ jobs' \in [Interactions -> Jobs]
            /\ jobs'[i] = [state |-> "retryable", token |-> NoToken]
            /\ \A q \in Interactions \ {i} : jobs'[q] = jobs[q]
        BY <1>1, <2>2, <3>1, JobTyped
      <4>2. QED
        BY <4>1
    <3>2. CASE jobs' = CancelJob(i)
      BY <1>1, <3>2, CancelTyped
    <3>3. QED
      BY <2>1, <3>1, <3>2
  <2>4. DistillTypeOK'
    BY <1>1, <1>2, <2>3 DEF DistillInv, DistillTypeOK, LifeTypeOK, CallsOK
  <2>5. QED
    BY <1>1, <1>2, <2>3, <2>4, JobOver
<1>5. QED
  BY <1>3, <1>4

\* A claim that cannot be returned is marked by the process that knows itself.
LEMMA DeferFailsStep ==
    ASSUME DistillInv, NEW w \in Recorders, NEW i \in Interactions, DeferFails(w, i)
    PROVE  DistillInv'
<1>1. /\ CallsOK /\ call[w].pc = "defer" /\ call[w].item = i /\ JobKept(i) /\ TokensFit
      /\ Token(w) \in Tokens /\ ClaimantOf(Token(w)) = w /\ ProcessOf(w) \in Instances
      /\ marks \in [Instances -> SUBSET (Interactions \X Tokens)]
      /\ jobs \in [Interactions -> Jobs] /\ Finish(w)
      /\ UNCHANGED <<life, kept, outcomes, jobs, lessons, lost>> /\ errors' \in 0..MaxErrors
  BY CallFacts, DistillationAssumption DEF DeferFails, CallPcs, DistillInv, DistillTypeOK
<1>2. CallsOK' /\ CallMoves(w, "idle")
  BY <1>1, FinishStep
<1>3. /\ marks' \in [Instances -> SUBSET (Interactions \X Tokens)]
      /\ \A p \in Instances : marks[p] \subseteq marks'[p]
      /\ \A p \in Instances : marks'[p] \ marks[p] \subseteq {Mark(i, Token(w))}
      /\ call[w].known => Mark(i, Token(w)) \in marks'[ProcessOf(w)]
  <2>1. Mark(i, Token(w)) \in Interactions \X Tokens
    BY <1>1 DEF Mark
  <2>2. marks' = [marks EXCEPT ![ProcessOf(w)] =
                    @ \cup (IF call[w].known THEN {Mark(i, Token(w))} ELSE {})]
    BY DEF DeferFails
  <2>3. QED
    BY <1>1, <2>1, <2>2
<1>4. DistillTypeOK'
  BY <1>1, <1>2, <1>3 DEF DistillInv, DistillTypeOK, LifeTypeOK, CallsOK
<1>5. JobKept(i)'
  <2>1. SUFFICES ASSUME jobs[i].state = "claimed" PROVE JobKept(i)'
    BY <1>1 DEF JobKept
  <2>2. PICK v \in Recorders :
            /\ ClaimantOf(jobs[i].token) = v
            /\ \/ life[ProcessOf(v)] = "gone"
               \/ Mark(i, jobs[i].token) \in marks[ProcessOf(v)] \cup lost
               \/ /\ Token(v) = jobs[i].token /\ call[v].item = i
                  /\ call[v].pc \in WorkingPcs /\ call[v].known
    BY <1>1, <2>1 DEF JobKept
  <2>3. ProcessOf(v) \in Instances
    BY DistillationAssumption DEF ProcessOf
  <2>4. CASE \/ life[ProcessOf(v)] = "gone"
             \/ Mark(i, jobs[i].token) \in marks[ProcessOf(v)] \cup lost
    BY <1>1, <1>3, <2>2, <2>3, <2>4 DEF JobKept, Mark
  <2>5. CASE v = w /\ Token(v) = jobs[i].token /\ call[v].known
    BY <1>1, <1>3, <2>2, <2>5 DEF JobKept, Mark
  <2>6. CASE v # w /\ Token(v) = jobs[i].token /\ call[v].item = i
             /\ call[v].pc \in WorkingPcs /\ call[v].known
    BY <1>1, <1>2, <2>2, <2>6 DEF JobKept, CallMoves, Token
  <2>7. QED
    BY <2>2, <2>4, <2>5, <2>6
<1>6. QED
  BY <1>1, <1>2, <1>3, <1>4, <1>5, CallStep DEF TokensFit

LEMMA DiscardStep ==
    ASSUME DistillInv, NEW i \in Interactions, Discard(i)
    PROVE  DistillInv'
<1>1. /\ UNCHANGED <<life, lessons, marks, lost, call, errors>> /\ kept' \subseteq kept
      /\ outcomes' = [outcomes EXCEPT ![i] = {}] /\ jobs' = [jobs EXCEPT ![i] = NoJob]
  BY DEF Discard
<1>2. NoJob \in Jobs /\ NoJob.state # "claimed" /\ NoJob.token = NoToken
  BY DEF NoJob, Jobs, JobStates
<1>3. DistillTypeOK'
  BY <1>1, <1>2 DEF DistillInv, DistillTypeOK, LifeTypeOK
<1>4. jobs'[i] = NoJob /\ \A q \in Interactions \ {i} : jobs'[q] = jobs[q]
  BY <1>1 DEF DistillInv, DistillTypeOK
<1>5. TokensFit' /\ PidsUnique' /\ MarksPast' /\ CallsBegun'
  BY <1>1, <1>2, <1>4 DEF DistillInv, TokensFit, PidsUnique, MarksPast, CallsBegun
<1>6. ASSUME NEW q \in Interactions PROVE JobKept(q)'
  BY <1>1, <1>2, <1>4 DEF DistillInv, JobKept, Token, Mark
<1>7. QED
  BY <1>3, <1>5, <1>6 DEF DistillInv

LEMMA LifeOfRecordersStep ==
    ASSUME DistillInv, LifeOfRecorders
    PROVE  DistillInv'
<1>1. PICK p \in Instances : Start(p) \/ Kill(p)
  BY DEF LifeOfRecorders
<1>2. UNCHANGED <<kept, outcomes, jobs, lessons, marks, lost, call, errors>>
  BY DEF LifeOfRecorders
<1>3. LivesOK' /\ \A j \in Instances : life[j] = "gone" => life'[j] = "gone"
  BY <1>1, LivesStep DEF DistillInv, DistillTypeOK, LivesOK
<1>4. DistillTypeOK' /\ PidsUnique' /\ TokensFit' /\ MarksPast' /\ CallsBegun'
  BY <1>2, <1>3 DEF DistillInv, DistillTypeOK, LivesOK, TokensFit, MarksPast, CallsBegun
<1>5. \A w \in Recorders : ProcessOf(w) \in Instances
  BY DistillationAssumption DEF ProcessOf
<1>6. ASSUME NEW i \in Interactions PROVE JobKept(i)'
  BY <1>2, <1>3, <1>5 DEF DistillInv, JobKept, Token, Mark
<1>7. QED
  BY <1>4, <1>6 DEF DistillInv

\* No outcome has been recorded.
NoOutcomeYet ==
    /\ kept = Interactions
    /\ outcomes = [i \in Interactions |-> {}]
    /\ jobs = [i \in Interactions |-> NoJob]
    /\ lessons = [i \in Interactions |-> 0]
    /\ marks = [p \in Instances |-> {}] /\ lost = {}
    /\ call \in [Recorders -> [pc : {"idle"}, item : Interactions,
                    signal : {"good"}, serial : {0}, known : {TRUE},
                    candidate : {FALSE}]]
    /\ errors = 0

LEMMA NoOutcomeYetInv == LivesOK /\ NoOutcomeYet => DistillInv
<1> SUFFICES ASSUME LivesOK, NoOutcomeYet PROVE DistillInv
  OBVIOUS
<1>1. NoJob \in Jobs /\ NoJob.state # "claimed" /\ NoJob.token = NoToken
  BY DEF NoJob, Jobs, JobStates
<1>2. call \in [Recorders -> Calls] /\ \A w \in Recorders : call[w].pc = "idle"
  <2>1. 0 \in 0..MaxCalls
    BY DistillationAssumption
  <2>2. call \in [Recorders -> [pc : {"idle"}, item : Interactions,
                    signal : {"good"}, serial : {0}, known : {TRUE},
                    candidate : {FALSE}]]
    BY DEF NoOutcomeYet
  <2>3. QED
    BY <2>1, <2>2 DEF Calls
<1>3. 0 \in 0..MaxErrors
  BY DistillationAssumption
<1>4. DistillTypeOK /\ PidsUnique
  BY <1>1, <1>2, <1>3 DEF NoOutcomeYet, DistillTypeOK, LivesOK
<1>5. QED
  BY <1>1, <1>2, <1>4
  DEF NoOutcomeYet, DistillInv, TokensFit, MarksPast, CallsBegun, JobKept

LEMMA DistillInvInit == DistillInit => DistillInv
BY LivesInit, NoOutcomeYetInv DEF DistillInit, NoOutcomeYet

LEMMA DistillInvStep == DistillInv /\ [DistillNext]_distillVars => DistillInv'
<1> SUFFICES ASSUME DistillInv, [DistillNext]_distillVars PROVE DistillInv'
  OBVIOUS
<1>1. ASSUME NEW w \in Recorders, NEW i \in Interactions,
             \/ BeginRecord(w, i) \/ RecordOutcome(w, i) \/ RecordFails(w, i)
             \/ Distil(w, i) \/ FinalizeJob(w, i) \/ FinalizeFails(w, i)
             \/ Defer(w, i) \/ DeferFails(w, i)
      PROVE  DistillInv'
  BY <1>1, BeginRecordStep, RecordOutcomeStep, CallGoesOn, FinalizeJobStep,
     DeferStep, DeferFailsStep
<1>2. ASSUME NEW i \in Interactions, Discard(i) PROVE DistillInv'
  BY <1>2, DiscardStep
<1>3. CASE LifeOfRecorders
  BY <1>3, LifeOfRecordersStep
<1>4. CASE UNCHANGED distillVars
  BY <1>4 DEF distillVars, DistillInv, DistillTypeOK, LifeTypeOK, PidsUnique, TokensFit,
     MarksPast, CallsBegun, JobKept, Token, Mark
<1>5. QED
  BY <1>1, <1>2, <1>3, <1>4 DEF DistillNext

LEMMA KeptIsReclaimable == DistillInv => JobsReclaimable
<1> SUFFICES ASSUME DistillInv, NEW i \in Interactions, jobs[i].state = "claimed"
             PROVE  LET token == jobs[i].token
                        w == ClaimantOf(token)
                    IN  \/ life[ProcessOf(w)] = "gone"
                        \/ Mark(i, token) \in marks[ProcessOf(w)] \cup lost
                        \/ /\ Token(w) = token /\ call[w].item = i
                           /\ call[w].pc \in {"claimed", "finalize", "defer"}
  BY DEF JobsReclaimable
<1>1. QED
  BY DEF DistillInv, JobKept, WorkingPcs

\* A claimed job belongs to a call that will finish or return it, or to a dead
\* process, or is marked (abandon_lesson_distillation_claim).
THEOREM JobsStayOpen ==
    DistillSpec => [](DistillTypeOK /\ JobsReclaimable)
<1>1. DistillInv => DistillTypeOK /\ JobsReclaimable
  BY KeptIsReclaimable DEF DistillInv
<1>2. QED
  BY <1>1, DistillInvInit, DistillInvStep, PTL DEF DistillSpec

-----------------------------------------------------------------------------
\* What a step may do to lessons and to claims.

GroundedStep ==
    \A i \in Interactions :
        lessons'[i] # lessons[i] =>
            /\ Convincing(outcomes[i]) /\ jobs[i].state = "claimed"
            /\ life[ProcessOf(ClaimantOf(jobs[i].token))] = "up"

KeepsClaim(w, i) ==
    (In(w, "claimed", i) \/ In(w, "finalize", i)) /\ Mine(w, i) =>
        \/ Mine(w, i)'
        \/ ~ Convincing(outcomes'[i])
        \/ call'[w].pc \notin {"claimed", "finalize"}

\* Lessons are written where a job is finalized.
LEMMA LessonsStep ==
    ASSUME DistillInv, [DistillNext]_distillVars
    PROVE  GroundedStep
<1>1. CASE UNCHANGED lessons
  BY <1>1 DEF GroundedStep
<1>2. ASSUME NEW w \in Recorders, NEW i \in Interactions, FinalizeJob(w, i),
             lessons' # lessons
      PROVE  GroundedStep
  <2>1. /\ Mine(w, i) /\ Convincing(outcomes[i]) /\ lessons' = [lessons EXCEPT ![i] = 1]
        /\ In(w, "finalize", i)
    BY <1>2 DEF FinalizeJob
  <2>2. ClaimantOf(Token(w)) = w /\ life[ProcessOf(w)] = "up"
    BY <2>1, CallFacts DEF CallPcs
  <2>3. jobs[i].state = "claimed" /\ jobs[i].token = Token(w)
    BY <2>1 DEF Mine
  <2>4. \A q \in Interactions \ {i} : lessons'[q] = lessons[q]
    BY <2>1 DEF DistillInv, DistillTypeOK
  <2>5. QED
    BY <2>1, <2>2, <2>3, <2>4 DEF GroundedStep
<1>3. ASSUME NEW w \in Recorders, NEW i \in Interactions,
             \/ BeginRecord(w, i) \/ RecordOutcome(w, i) \/ RecordFails(w, i)
             \/ Distil(w, i) \/ FinalizeFails(w, i) \/ Defer(w, i) \/ DeferFails(w, i)
      PROVE  UNCHANGED lessons
  BY <1>3 DEF BeginRecord, RecordOutcome, RecordFails, Distil, FinalizeFails,
              Defer, DeferFails
<1>4. ASSUME NEW i \in Interactions, Discard(i)
      PROVE  UNCHANGED lessons
  BY <1>4 DEF Discard
<1>5. CASE LifeOfRecorders
  BY <1>1, <1>5 DEF LifeOfRecorders
<1>6. QED
  BY <1>1, <1>2, <1>3, <1>4, <1>5 DEF DistillNext, distillVars

\* A live claim is neither dead nor marked.
LEMMA LiveClaimIsClosed ==
    ASSUME DistillInv, NEW w \in Recorders, NEW i \in Interactions, NEW v \in Recorders,
           In(w, "claimed", i) \/ In(w, "finalize", i), Mine(w, i)
    PROVE  ~ OpenJob(v, i) /\ jobs[i].state = "claimed"
<1>1. PICK pc \in {"claimed", "finalize"} : In(w, pc, i)
  OBVIOUS
<1>2. /\ Token(w) \in Tokens /\ ClaimantOf(Token(w)) = w /\ ProcessOf(w) \in Instances
      /\ life[ProcessOf(w)] = "up" /\ call[w].pc # "idle"
  BY <1>1, CallFacts DEF CallPcs
<1>3. jobs[i].state = "claimed" /\ jobs[i].token = Token(w)
  BY DEF Mine
<1>4. ~ DeadClaimant(i)
  BY <1>2, <1>3, LiveIsNotDead DEF DeadClaimant, LivesOK, DistillInv, DistillTypeOK
<1>5. ProcessOf(v) \in Instances
  BY DistillationAssumption DEF ProcessOf
<1>6. ASSUME NEW m \in marks[ProcessOf(v)], m = Mark(i, Token(w)) PROVE FALSE
  <2>1. m[2] = <<w, call[w].serial>> /\ call[w].serial \in 1..MaxCalls
    BY <1>2, <1>6 DEF Mark, Token, Tokens
  <2>2. QED
    BY <1>2, <1>5, <1>6, <2>1 DEF DistillInv, MarksPast
<1>7. Consumed(v, i) = {}
  BY <1>3, <1>6 DEF Consumed
<1>8. QED
  BY <1>3, <1>4, <1>7 DEF OpenJob

\* Nobody takes a claim from a live call.
LEMMA ClaimStep ==
    ASSUME DistillInv, [DistillNext]_distillVars, NEW w \in Recorders, NEW i \in Interactions
    PROVE  KeepsClaim(w, i)
<1> SUFFICES ASSUME In(w, "claimed", i) \/ In(w, "finalize", i), Mine(w, i),
                    Convincing(outcomes'[i]), call'[w].pc \in {"claimed", "finalize"}
             PROVE  Mine(w, i)'
  BY DEF KeepsClaim
<1>1. /\ call[w].pc \in {"claimed", "finalize"} /\ CallsOK /\ call[w].item = i
      /\ jobs \in [Interactions -> Jobs] /\ outcomes \in [Interactions -> SUBSET {"good", "bad"}]
  BY CallFacts DEF In, CallPcs
<1>2. ASSUME UNCHANGED jobs, call'[w].serial = call[w].serial
      PROVE  Mine(w, i)'
  BY <1>2 DEF Mine, Token
<1>3. ASSUME NEW v \in Recorders, NEW q \in Interactions, RecordOutcome(v, q)
      PROVE  Mine(w, i)'
  <2>1. /\ call[v].pc = "record" /\ v # w
        /\ \E pc \in CallPcs : CallMoves(v, pc)
    <3>1. call[v].pc = "record"
      BY <1>3 DEF RecordOutcome, In
    <3>2. (\E pc \in CallPcs : CallTo(v, pc)) \/ Finish(v)
      BY <1>3 DEF RecordOutcome, Claiming, CallPcs
    <3>3. QED
      BY <1>1, <3>1, <3>2, CallToStep, FinishStep DEF CallPcs
  <2>2. call'[w] = call[w]
    BY <2>1 DEF CallMoves
  <2>3. CASE q # i
    <3>1. jobs'[i] = jobs[i]
      BY <1>1, <1>3, <2>3 DEF RecordOutcome, Claiming, JobTo, CancelJob
    <3>2. QED
      BY <2>2, <3>1 DEF Mine, Token
  <2>4. CASE q = i
    <3>1. ~ OpenJob(v, i) /\ jobs[i].state = "claimed"
      BY LiveClaimIsClosed
    <3>2. CASE i \notin kept
      BY <1>2, <1>3, <2>2, <2>4, <3>2 DEF RecordOutcome
    <3>3. CASE i \in kept
      <4>1. outcomes' = [outcomes EXCEPT ![i] = outcomes[i] \cup {call[v].signal}]
        BY <1>3, <2>4, <3>3 DEF RecordOutcome
      <4>2. outcomes'[i] = outcomes[i] \cup {call[v].signal}
        BY <1>1, <4>1
      <4>3. Claiming(v, i)
        BY <1>3, <2>4, <3>3, <4>2 DEF RecordOutcome
      <4>4. UNCHANGED jobs
        BY <3>1, <4>3 DEF Claiming
      <4>5. QED
        BY <1>2, <2>2, <4>4
    <3>4. QED
      BY <3>2, <3>3
  <2>5. QED
    BY <2>3, <2>4
<1>4. ASSUME NEW v \in Recorders, NEW q \in Interactions, FinalizeJob(v, q) \/ Defer(v, q)
      PROVE  Mine(w, i)'
  <2>1. Finish(v) /\ CallMoves(v, "idle")
    BY <1>1, <1>4, FinishStep DEF FinalizeJob, Defer
  <2>2. v # w /\ call'[w] = call[w]
    BY <2>1 DEF CallMoves
  <2>3. q = i => ~ Mine(v, q)
    BY <2>2 DEF Mine, Token
  <2>4. jobs'[i] = jobs[i]
    BY <1>1, <1>4, <2>3 DEF FinalizeJob, Defer, JobTo, CancelJob
  <2>5. QED
    BY <2>2, <2>4 DEF Mine, Token
<1>5. ASSUME NEW v \in Recorders, NEW q \in Interactions,
             RecordFails(v, q) \/ Distil(v, q) \/ FinalizeFails(v, q)
      PROVE  Mine(w, i)'
  <2>1. \E pc \in CallPcs : CallMoves(v, pc)
    BY <1>1, <1>5, CallToStep, CallFoundStep DEF RecordFails, Distil, FinalizeFails, CallPcs
  <2>2. call'[w].serial = call[w].serial /\ UNCHANGED jobs
    BY <1>5, <2>1 DEF CallMoves, RecordFails, Distil, FinalizeFails
  <2>3. QED
    BY <1>2, <2>2
<1>6. ASSUME NEW v \in Recorders, NEW q \in Interactions, DeferFails(v, q)
      PROVE  Mine(w, i)'
  <2>1. CallMoves(v, "idle") /\ UNCHANGED jobs
    BY <1>1, <1>6, FinishStep DEF DeferFails
  <2>2. call'[w].serial = call[w].serial
    BY <2>1 DEF CallMoves
  <2>3. QED
    BY <1>2, <2>1, <2>2
<1>7. ASSUME NEW v \in Recorders, NEW q \in Interactions, BeginRecord(v, q)
      PROVE  Mine(w, i)'
  <2>1. v # w /\ UNCHANGED jobs
    BY <1>1, <1>7 DEF BeginRecord
  <2>2. call'[w] = call[w]
    BY <1>1, <1>7, <2>1 DEF BeginRecord, CallsOK
  <2>3. QED
    BY <1>2, <2>1, <2>2
<1>8. ASSUME NEW q \in Interactions, Discard(q) PROVE Mine(w, i)'
  <2>1. q # i
    BY <1>1, <1>8 DEF Discard, Convincing
  <2>2. jobs'[i] = jobs[i] /\ UNCHANGED call
    BY <1>8, <2>1, <1>1 DEF Discard
  <2>3. QED
    BY <2>2 DEF Mine, Token
<1>9. CASE LifeOfRecorders \/ UNCHANGED distillVars
  BY <1>2, <1>9 DEF LifeOfRecorders, distillVars
<1>10. QED
  BY <1>3, <1>4, <1>5, <1>6, <1>7, <1>8, <1>9 DEF DistillNext

\* A lesson is stored on the evidence there is by the claimant of its job
\* (finalize_lesson_distillation), and no claim is taken from a live one
\* (record_outcome_and_claim_lesson_distillation).
THEOREM LessonsAreSafe == DistillSpec => LessonsSafe
<1>1. DistillInv /\ [DistillNext]_distillVars =>
        /\ [GroundedStep]_distillVars
        /\ [\A w \in Recorders, i \in Interactions : KeepsClaim(w, i)]_distillVars
  BY LessonsStep, ClaimStep
<1>2. LessonsSafe <=>
        /\ [][GroundedStep]_distillVars
        /\ [][\A w \in Recorders, i \in Interactions : KeepsClaim(w, i)]_distillVars
  BY DEF LessonsSafe, LessonsGrounded, ClaimNotStolen, GroundedStep, KeepsClaim
<1>3. QED
  BY <1>1, <1>2, DistillInvInit, DistillInvStep, PTL DEF DistillSpec

-----------------------------------------------------------------------------
\* Services of a host.

\* Identities are given in order; who has none is not there.
BornFits ==
    \A p \in Pids : /\ table[p].born <= born /\ table[p].parent <= born
                    /\ table[p].is = "none" => table[p].born = 0

\* What a sweep has seen, and still is the same, is an orphan.
SweepFits ==
    /\ \A p \in Pids : /\ sweep.seen[p] <= born
                       /\ sweep.seen[p] # 0 /\ table[p].born = sweep.seen[p]
                            => table[p].is \in {"probe", "runner"} /\ ~ HasLiveParent(p)
    /\ "in_use" \notin accidents

\* What a stop is about to end is a server, was one, or its id was reused.
StopFits ==
    /\ \A c \in Callers : Reached(c, "kill") =>
          \A p \in command[c].pids :
              table[p].is # "none" /\ ~ IsServer(p) => "reused" \in accidents
    /\ "stranger" \in accidents => "reused" \in accidents

\* Where listeners are not known and no accident happened: there is one server
\* and one command that starts it; it is recorded or about to be, and who is to
\* remove the record is to stop the server.
Untroubled == posix /\ accidents \cap {"hurried", "crossed"} = {}
Serving(p) == table[p].is = "sonder_serve"
Recording(p) == \E c \in Callers : Reached(c, "record") /\ command[c].read = p
RecordFits ==
    /\ \A p, q \in Pids : Serving(p) /\ Serving(q) => p = q
    /\ \A c, d \in Callers :
          Reached(c, "record") /\ command[d].pc \in {"record", "wait"} => c = d
    /\ \A c \in Callers, p \in Pids :
          Reached(c, "record") /\ Serving(p) => command[c].read = p
    /\ \A p \in Pids :
          Serving(p) => pidfile["sonder_serve"] = p \/ Recording(p)
    /\ \A c \in Callers, p \in Pids :
          Reached(c, "kill") /\ Serving(p) => p \in command[c].pids \/ Recording(p)

HostInv ==
    /\ HostTypeOK /\ BornFits /\ SweepFits /\ StopFits
    /\ Untroubled => RecordFits

Command == [pc : CommandPcs, does : CommandKinds, pids : SUBSET Pids,
            read : Pids \cup {NoPid}]
Sweep == [pc : {"idle", "first", "second", "terminate"}, models : BOOLEAN,
          seen : [Pids -> 0..MaxBorn]]

CommandsOK == command \in [Callers -> Command]
TableOK == table \in [Pids -> Process]

\* The parts of the invariant.
LEMMA HostParts ==
    ASSUME HostInv
    PROVE  HostTypeOK /\ BornFits /\ SweepFits /\ StopFits /\ (Untroubled => RecordFits)
BY Zenon DEF HostInv

LEMMA HostTypes ==
    ASSUME HostTypeOK
    PROVE  /\ posix \in BOOLEAN /\ TableOK /\ born \in Nat /\ born \in 0..MaxBorn
           /\ pidfile \in [Services -> Pids \cup {NoPid}]
           /\ CommandsOK /\ commands \in 0..MaxCommands /\ sweep \in Sweep
           /\ accidents \subseteq Accidents
<1>1. TableOK
  BY Zenon DEF HostTypeOK, TableOK
<1>2. CommandsOK
  BY Zenon DEF HostTypeOK, CommandsOK, Command
<1>3. sweep \in Sweep
  BY Zenon DEF HostTypeOK, Sweep
<1>4. born \in 0..MaxBorn /\ posix \in BOOLEAN /\ commands \in 0..MaxCommands /\ accidents \subseteq Accidents
      /\ pidfile \in [Services -> Pids \cup {NoPid}]
  BY Zenon DEF HostTypeOK
<1>5. born \in Nat
  BY <1>4, HostAssumption
<1>6. QED
  BY <1>1, <1>2, <1>3, <1>4, <1>5

LEMMA TablesTyped ==
    ASSUME HostTypeOK
    PROVE  \A p \in Pids : /\ table[p] \in Process
                           /\ table[p].born \in Nat /\ table[p].parent \in Nat
                           /\ sweep.seen[p] \in Nat
<1>1. TableOK /\ sweep \in Sweep
  BY HostTypes
<1>2. QED
  BY <1>1, HostAssumption DEF TableOK, Process, Sweep

\* Types.
LEMMA IsTyped ==
    ASSUME NEW pc \in CommandPcs, NEW does \in CommandKinds
    PROVE  Is(pc, does) \in Command /\ Is(pc, does).pc = pc /\ Is(pc, does).pids = {}
BY DEF Is, Command, NoCommand

LEMMA IsReadTyped ==
    ASSUME NEW pc \in CommandPcs, NEW does \in CommandKinds, NEW p \in Pids
    PROVE  /\ [Is(pc, does) EXCEPT !.read = p] \in Command
           /\ [Is(pc, does) EXCEPT !.read = p].pc = pc
           /\ [Is(pc, does) EXCEPT !.read = p].read = p
BY DEF Is, Command, NoCommand

LEMMA IsPidsTyped ==
    ASSUME NEW pc \in CommandPcs, NEW does \in CommandKinds, NEW S \in SUBSET Pids
    PROVE  /\ [Is(pc, does) EXCEPT !.pids = S] \in Command
           /\ [Is(pc, does) EXCEPT !.pids = S].pc = pc
           /\ [Is(pc, does) EXCEPT !.pids = S].pids = S
BY DEF Is, Command, NoCommand

LEMMA NoCommandTyped == NoCommand \in Command /\ NoCommand.pc = "idle"
BY DEF NoCommand, Command, CommandPcs, CommandKinds

\* Command c is next now, the others are as they were.
CommandIs(c, next) ==
    /\ CommandsOK' /\ command'[c] = next
    /\ \A d \in Callers \ {c} : command'[d] = command[d]

LEMMA GoesStep ==
    ASSUME CommandsOK, NEW c \in Callers, NEW next \in Command, Goes(c, next)
    PROVE  CommandIs(c, next)
BY DEF CommandsOK, Goes, CommandIs

LEMMA GoesTo ==
    ASSUME CommandsOK, NEW c \in Callers, NEW pc \in CommandPcs,
           NEW does \in CommandKinds, Goes(c, Is(pc, does))
    PROVE  CommandIs(c, command'[c]) /\ command'[c].pc = pc
<1>1. CommandIs(c, Is(pc, does))
  BY IsTyped, GoesStep
<1>2. QED
  BY <1>1, IsTyped DEF CommandIs

LEMMA ReturnsStep ==
    ASSUME CommandsOK, NEW c \in Callers, Returns(c)
    PROVE  CommandIs(c, command'[c]) /\ command'[c].pc = "idle"
<1>1. CommandIs(c, NoCommand)
  BY NoCommandTyped, GoesStep DEF Returns
<1>2. QED
  BY <1>1, NoCommandTyped DEF CommandIs

LEMMA NoProcessTyped == NoProcessAt \in Process
BY HostAssumption DEF NoProcessAt, Process

\* Processes have ended, or bound their port.
Shrinks ==
    /\ born' = born /\ TableOK'
    /\ \A p \in Pids : \/ table'[p] = NoProcessAt
                       \/ /\ table'[p].is = table[p].is /\ table'[p].born = table[p].born
                          /\ table'[p].parent = table[p].parent

\* A process has been born with id p.
Grows(p) ==
    /\ born' = born + 1 /\ born' \in 0..MaxBorn /\ TableOK'
    /\ table[p].is = "none" /\ table'[p].born = born' /\ table'[p].parent <= born
    /\ table'[p].is # "none"
    /\ \A q \in Pids \ {p} : table'[q] = table[q]

LEMMA SameTable ==
    ASSUME TableOK, UNCHANGED <<table, born>>
    PROVE  Shrinks
BY DEF TableOK, Shrinks

LEMMA GoneStep ==
    ASSUME TableOK, born' = born, NEW S \in SUBSET Pids,
           table' = [p \in Pids |-> IF p \in S THEN NoProcessAt ELSE table[p]]
    PROVE  Shrinks
BY NoProcessTyped DEF TableOK, Shrinks

LEMMA GrowStep ==
    ASSUME HostTypeOK, NEW p \in Pids, NEW is, NEW parent \in 0..born, Born(p, is, parent),
           is \in {"sonder_serve", "ollama", "runner", "probe", "other"}
    PROVE  Grows(p) /\ table'[p].is = is
<1> DEFINE P == [is |-> is, born |-> born + 1, parent |-> parent, up |-> is \notin Services]
<1>1. born \in Nat /\ born < MaxBorn /\ born' = born + 1 /\ MaxBorn \in Nat
  BY HostAssumption DEF HostTypeOK, Born
<1>2. P \in Process
  BY <1>1 DEF Process
<1>3. table' = [table EXCEPT ![p] = P] /\ table[p].is = "none"
  BY DEF Born, Running
<1>4. QED
  BY <1>1, <1>2, <1>3 DEF HostTypeOK, TableOK, Grows

\* The conjuncts of the invariant that tables matter to.
LEMMA ShrinkFits ==
    ASSUME HostInv, Shrinks, "in_use" \notin accidents',
           \A p \in Pids : sweep'.seen[p] \in {0, sweep.seen[p]}
    PROVE  BornFits' /\ SweepFits'
<1>1. born \in Nat /\ BornFits /\ SweepFits /\ HostTypeOK
  BY HostParts, HostTypes
<1>2. BornFits'
  BY <1>1 DEF BornFits, Shrinks, NoProcessAt
<1>3. \A n \in Nat : AliveBorn(n)' => AliveBorn(n)
  BY DEF AliveBorn, Shrinks, NoProcessAt
<1>4. ASSUME NEW p \in Pids, sweep'.seen[p] # 0, table'[p].born = sweep'.seen[p]
      PROVE  table'[p].is \in {"probe", "runner"} /\ ~ HasLiveParent(p)'
  <2>1. /\ table'[p].is = table[p].is /\ table'[p].born = table[p].born
        /\ table'[p].parent = table[p].parent
    BY <1>4 DEF Shrinks, NoProcessAt
  <2>2. table[p].is \in {"probe", "runner"} /\ ~ HasLiveParent(p)
    BY <1>1, <1>4, <2>1 DEF SweepFits
  <2>3. table[p].parent \in Nat
    BY <1>1, TablesTyped
  <2>4. QED
    BY <1>3, <2>1, <2>2, <2>3 DEF HasLiveParent
<1>5. QED
  BY <1>1, <1>2, <1>4 DEF SweepFits, Shrinks

LEMMA GrowFits ==
    ASSUME HostInv, NEW p \in Pids, Grows(p), sweep' = sweep, "in_use" \notin accidents'
    PROVE  BornFits' /\ SweepFits'
<1>1. /\ born \in Nat /\ BornFits /\ SweepFits
      /\ \A q \in Pids : table[q].parent \in Nat /\ table[q].born \in Nat
                           /\ sweep.seen[q] \in Nat
  BY HostParts, HostTypes, TablesTyped
<1>0. table'[p].parent \in Nat
  BY HostAssumption DEF Grows, TableOK, Process
<1>2. BornFits'
  BY <1>0, <1>1 DEF BornFits, Grows
<1>3. \A n \in 0..born : AliveBorn(n)' => AliveBorn(n)
  BY <1>1 DEF AliveBorn, Grows
<1>4. ASSUME NEW q \in Pids, sweep.seen[q] # 0, table'[q].born = sweep.seen[q]
      PROVE  table'[q].is \in {"probe", "runner"} /\ ~ HasLiveParent(q)'
  <2>1. q # p /\ table'[q] = table[q]
    BY <1>1, <1>4 DEF SweepFits, Grows
  <2>2. table[q].is \in {"probe", "runner"} /\ ~ HasLiveParent(q) /\ table[q].parent \in 0..born
    BY <1>1, <1>4, <2>1 DEF SweepFits, BornFits
  <2>3. QED
    BY <1>3, <2>1, <2>2 DEF HasLiveParent
<1>5. QED
  BY <1>1, <1>2, <1>4 DEF SweepFits, Grows

\* Whoever is at "kill" has still servers to stop.
LEMMA ShrinkStops ==
    ASSUME HostInv, Shrinks, accidents \subseteq accidents', "stranger" \in accidents' => "reused" \in accidents',
           \A c \in Callers : Reached(c, "kill")' =>
                command'[c] = command[c] \/ \A p \in command'[c].pids : IsServer(p)'
    PROVE  StopFits'
BY DEF HostInv, StopFits, Shrinks, Reached, IsServer, NoProcessAt, HostTypeOK

LEMMA GrowStops ==
    ASSUME HostInv, NEW p \in Pids, Grows(p),
           accidents \cup Reuses(p) \subseteq accidents',
           "stranger" \in accidents' => "stranger" \in accidents,
           \A c \in Callers : Reached(c, "kill")' => command'[c] = command[c]
    PROVE  StopFits'
<1>1. "stranger" \in accidents' => "reused" \in accidents'
  BY DEF HostInv, StopFits, Reuses
<1>2. ASSUME NEW c \in Callers, Reached(c, "kill")', NEW q \in command'[c].pids,
             table'[q].is # "none" /\ ~ IsServer(q)'
      PROVE  "reused" \in accidents'
  <2>1. command'[c] = command[c] /\ Reached(c, "kill") /\ q \in command[c].pids /\ q \in Pids
    BY <1>2 DEF Reached, HostInv, HostTypeOK
  <2>2. CASE q = p
    BY <2>1, <2>2 DEF Reuses
  <2>3. CASE q # p
    BY <1>2, <2>1, <2>3 DEF HostInv, StopFits, Grows, IsServer
  <2>4. QED
    BY <2>2, <2>3
<1>3. QED
  BY <1>1, <1>2 DEF StopFits

\* A step in which no command comes to start, record or stop the server, and
\* its record stays.
LEMMA QuietRecord ==
    ASSUME HostInv, Untroubled' => Untroubled,
           \A p \in Pids : Serving(p)' => Serving(p),
           Untroubled => pidfile'["sonder_serve"] = pidfile["sonder_serve"],
           \A c \in Callers :
              \/ command'[c] = command[c]
              \/ /\ command'[c].pc \notin {"record", "wait", "kill"}
                 /\ command[c].pc # "record"
    PROVE  (Untroubled => RecordFits)'
<1> SUFFICES ASSUME Untroubled' PROVE RecordFits'
  OBVIOUS
<1>1. RecordFits /\ Untroubled
  BY DEF HostInv
<1>2. \A p \in Pids : Recording(p) => Recording(p)'
  BY DEF Recording, Reached
<1>3. QED
  BY <1>1, <1>2 DEF RecordFits, Reached

LEMMA TypeStep ==
    ASSUME HostTypeOK, posix' = posix, TableOK', born' \in 0..MaxBorn,
           pidfile' \in [Services -> Pids \cup {NoPid}], CommandsOK',
           commands' \in 0..MaxCommands, sweep' \in Sweep, accidents' \subseteq Accidents
    PROVE  HostTypeOK'
<1>1. posix \in BOOLEAN
  BY HostTypes
<1>2. QED
  BY <1>1 DEF HostTypeOK, TableOK, CommandsOK, Command, Sweep

\* A step of a command that leaves the processes alone.
LEMMA CommandStep ==
    ASSUME HostInv, UNCHANGED <<posix, table, born, sweep>>,
           NEW c \in Callers, CommandIs(c, command'[c]),
           pidfile' \in [Services -> Pids \cup {NoPid}],
           commands' \in 0..MaxCommands,
           accidents' \in {accidents, accidents \cup {"crossed"}},
           Reached(c, "kill")' => \A p \in command'[c].pids : IsServer(p)'
    PROVE  HostTypeOK' /\ BornFits' /\ SweepFits' /\ StopFits'
<1>1. HostTypeOK /\ TableOK /\ born \in 0..MaxBorn /\ sweep \in Sweep /\ accidents \subseteq Accidents
      /\ SweepFits
  BY HostParts, HostTypes
<1>2. HostTypeOK'
  <2>1. accidents' \subseteq Accidents
    BY <1>1 DEF Accidents
  <2>2. CommandsOK'
    BY DEF CommandIs
  <2>3. TableOK'
    BY <1>1 DEF TableOK
  <2>4. QED
    BY <1>1, <2>1, <2>2, <2>3, TypeStep
<1>3. Shrinks
  BY <1>1, SameTable
<1>4. BornFits' /\ SweepFits'
  BY <1>1, <1>3, ShrinkFits DEF SweepFits
<1>5. StopFits'
  <2>1. accidents \subseteq accidents' /\ ("stranger" \in accidents' => "reused" \in accidents')
    BY HostParts DEF StopFits
  <2>2. \A d \in Callers : Reached(d, "kill")' =>
           command'[d] = command[d] \/ \A p \in command'[d].pids : IsServer(p)'
    BY DEF CommandIs
  <2>3. QED
    BY <1>3, <2>1, <2>2, ShrinkStops
<1>6. QED
  BY <1>2, <1>4, <1>5

\* The same, if the command does nothing with the server.
LEMMA QuietCommand ==
    ASSUME HostInv, UNCHANGED <<posix, table, born, sweep, accidents>>,
           NEW c \in Callers, CommandIs(c, command'[c]),
           pidfile' \in [Services -> Pids \cup {NoPid}],
           commands' \in 0..MaxCommands,
           Untroubled => pidfile'["sonder_serve"] = pidfile["sonder_serve"],
           command'[c].pc \notin {"record", "wait", "kill"}, ~ Reached(c, "record")
    PROVE  HostInv'
<1>1. HostTypeOK' /\ BornFits' /\ SweepFits' /\ StopFits'
  BY CommandStep DEF Reached
<1>2. (Untroubled => RecordFits)'
  <2>1. Untroubled' => Untroubled
    BY DEF Untroubled
  <2>2. \A p \in Pids : Serving(p)' => Serving(p)
    BY DEF Serving
  <2>3. \A d \in Callers :
              \/ command'[d] = command[d]
              \/ /\ command'[d].pc \notin {"record", "wait", "kill"}
                 /\ command[d].pc # "record"
    BY DEF CommandIs, Reached
  <2>4. QED
    BY <2>1, <2>2, <2>3, QuietRecord
<1>3. QED
  BY <1>1, <1>2 DEF HostInv

LEMMA Bookkept ==
    ASSUME HostInv, NEW s \in Services, NEW p \in Pids \cup {NoPid},
           pidfile' = pidfile \/ pidfile' = [pidfile EXCEPT ![s] = p]
    PROVE  /\ pidfile' \in [Services -> Pids \cup {NoPid}]
           /\ s # "sonder_serve" => pidfile'["sonder_serve"] = pidfile["sonder_serve"]
           /\ p = pidfile["sonder_serve"] => pidfile'["sonder_serve"] = pidfile["sonder_serve"]
           /\ pidfile' = [pidfile EXCEPT ![s] = p] => pidfile'[s] = p
<1>1. pidfile \in [Services -> Pids \cup {NoPid}]
  BY HostParts, HostTypes
<1>2. QED
  BY <1>1 DEF Services

LEMMA InvokeStep ==
    ASSUME HostInv, NEW c \in Callers, NEW does \in CommandKinds, Invoke(c, does)
    PROVE  HostInv'
<1>1. CommandsOK /\ commands \in 0..MaxCommands /\ MaxCommands \in Nat
      /\ pidfile \in [Services -> Pids \cup {NoPid}]
  BY HostParts, HostTypes, HostAssumption
<1>2. PICK pc \in {"pids", "status", "daemon"} : Goes(c, Is(pc, does))
  BY DEF Invoke
<1>3. CommandIs(c, command'[c]) /\ command'[c].pc = pc
  BY <1>1, <1>2, GoesTo DEF CommandPcs
<1>4. commands' \in 0..MaxCommands /\ ~ Reached(c, "record")
  BY <1>1 DEF Invoke, Reached
<1>5. QED
  BY <1>1, <1>2, <1>3, <1>4, QuietCommand DEF Invoke, processes

\* What the record is of is known: of a process or of none.
LEMMA RepairedTyped ==
    ASSUME HostInv
    PROVE  /\ Repaired \subseteq Pids \cup {NoPid} /\ Listeners \subseteq Pids
           /\ pidfile["sonder_serve"] \in Pids \cup {NoPid}
           /\ Untroubled => Listeners = {} /\ Repaired = {pidfile["sonder_serve"]}
<1>1. pidfile["sonder_serve"] \in Pids \cup {NoPid}
  BY HostParts, HostTypes DEF Services
<1>2. Listeners \subseteq Pids /\ (Untroubled => Listeners = {})
  BY DEF Listeners, Up, Running, Untroubled
<1>3. QED
  BY <1>1, <1>2 DEF Repaired

LEMMA ReadPidsStep ==
    ASSUME HostInv, NEW c \in Callers, ReadPids(c)
    PROVE  HostInv'
<1>1. /\ CommandsOK /\ commands \in 0..MaxCommands /\ (Untroubled => RecordFits)
      /\ pidfile \in [Services -> Pids \cup {NoPid}]
  BY HostParts, HostTypes
<1>2. command[c].does \in CommandKinds /\ "kill" \in CommandPcs
  BY <1>1 DEF CommandsOK, Command, CommandPcs
<1>3. ServersToStop \subseteq Pids
  BY RepairedTyped DEF ServersToStop, Recorded
<1>4. CommandIs(c, [Is("kill", command[c].does) EXCEPT !.pids = ServersToStop])
  BY <1>1, <1>2, <1>3, IsPidsTyped, GoesStep DEF ReadPids
<1>5. /\ CommandIs(c, command'[c]) /\ command'[c].pc = "kill"
      /\ command'[c].pids = ServersToStop
  BY <1>2, <1>3, <1>4, IsPidsTyped DEF CommandIs
<1>6. HostTypeOK' /\ BornFits' /\ SweepFits' /\ StopFits'
  <2>1. \A p \in command'[c].pids : IsServer(p)'
    BY <1>5 DEF ServersToStop, IsServer, ReadPids, processes
  <2>2. QED
    BY <1>1, <1>5, <2>1, CommandStep DEF ReadPids, processes, bookkeeping
<1>7. ASSUME Untroubled'
      PROVE  RecordFits'
  <2>1. RecordFits /\ UNCHANGED <<table, pidfile>>
    BY <1>1, <1>7 DEF Untroubled, ReadPids, processes, bookkeeping
  <2>2. \A d \in Callers : \A pc \in {"record", "wait"} :
           (command'[d].pc = pc <=> command[d].pc = pc) /\ (command[d].pc = pc => command'[d] = command[d])
    BY <1>5 DEF CommandIs, ReadPids, Reached
  <2>3. \A p \in Pids : Recording(p) <=> Recording(p)'
    BY <2>2 DEF Recording, Reached
  <2>4. \A p \in Pids : Serving(p) /\ p \notin ServersToStop => Recording(p)
    BY <2>1, HostAssumption DEF RecordFits, ServersToStop, Recorded, Serving, IsServer
  <2>5. \A d \in Callers, p \in Pids :
           Reached(d, "kill")' /\ Serving(p)' => p \in command'[d].pids \/ Recording(p)'
    BY <1>5, <2>1, <2>3, <2>4 DEF RecordFits, CommandIs, Reached, Serving
  <2>6. QED
    BY <2>1, <2>2, <2>3, <2>5 DEF RecordFits, Reached, Serving
<1>8. QED
  BY <1>6, <1>7 DEF HostInv

\* What a restart goes on with.
LEMMA AfterStopStep ==
    ASSUME CommandsOK, NEW c \in Callers, AfterStop(c)
    PROVE  /\ CommandIs(c, command'[c])
           /\ command'[c].pc \notin {"record", "wait", "kill"}
<1>1. CASE Returns(c)
  BY <1>1, ReturnsStep
<1>2. CASE Goes(c, Is("stop_daemon", "stop_all"))
  BY <1>2, GoesTo DEF CommandPcs, CommandKinds
<1>3. CASE Goes(c, Is("daemon", "start"))
  BY <1>3, GoesTo DEF CommandPcs, CommandKinds
<1>4. QED
  BY <1>1, <1>2, <1>3 DEF AfterStop

LEMMA StopFailsStep ==
    ASSUME HostInv, NEW c \in Callers, StopFails(c)
    PROVE  HostInv'
<1>1. CommandsOK /\ commands \in 0..MaxCommands
      /\ pidfile \in [Services -> Pids \cup {NoPid}]
  BY HostParts, HostTypes
<1>2. /\ CommandIs(c, command'[c])
      /\ command'[c].pc \notin {"record", "wait", "kill"}
  BY <1>1, AfterStopStep DEF StopFails
<1>3. QED
  BY <1>1, <1>2, QuietCommand DEF StopFails, Reached, processes, bookkeeping

\* A step that ends processes or changes what they do, and starts no server.
LEMMA ShrinkStep ==
    ASSUME HostInv, Shrinks, posix' = posix, sweep' = sweep, commands' = commands,
           NEW c \in Callers, CommandIs(c, command'[c]) \/ command' = command,
           command' = command \/ command'[c].pc \notin {"record", "wait", "kill"},
           pidfile' \in [Services -> Pids \cup {NoPid}],
           accidents' = accidents
    PROVE  HostTypeOK' /\ BornFits' /\ SweepFits' /\ StopFits'
<1>1. /\ HostTypeOK /\ born \in 0..MaxBorn /\ sweep \in Sweep /\ accidents \subseteq Accidents
      /\ SweepFits /\ CommandsOK /\ commands \in 0..MaxCommands
  BY HostParts, HostTypes
<1>2. CommandsOK'
  BY <1>1 DEF CommandIs, CommandsOK
<1>3. HostTypeOK'
  BY <1>1, <1>2, TypeStep DEF Shrinks
<1>4. BornFits' /\ SweepFits'
  BY <1>1, ShrinkFits DEF SweepFits
<1>5. StopFits'
  <2>1. "stranger" \in accidents' => "reused" \in accidents'
    BY HostParts DEF StopFits
  <2>2. \A d \in Callers : Reached(d, "kill")' => command'[d] = command[d]
    BY DEF CommandIs, Reached
  <2>3. QED
    BY <2>1, <2>2, ShrinkStops
<1>6. QED
  BY <1>3, <1>4, <1>5

LEMMA StopServersStep ==
    ASSUME HostInv, NEW c \in Callers, StopServers(c)
    PROVE  HostInv'
<1>1. /\ HostTypeOK /\ born \in 0..MaxBorn /\ sweep \in Sweep /\ accidents \subseteq Accidents
      /\ SweepFits /\ CommandsOK /\ commands \in 0..MaxCommands /\ StopFits /\ TableOK
      /\ pidfile \in [Services -> Pids \cup {NoPid}]
  BY HostParts, HostTypes
<1> DEFINE S == command[c].pids
<1>2. S \in SUBSET Pids /\ Reached(c, "kill")
  BY <1>1 DEF CommandsOK, Command, StopServers
<1>3. Shrinks
  BY <1>1, <1>2, GoneStep DEF StopServers
<1>4. /\ CommandIs(c, command'[c])
      /\ command'[c].pc \notin {"record", "wait", "kill"}
  BY <1>1, AfterStopStep DEF StopServers
<1>5. accidents' = accidents \/ (accidents' = accidents \cup {"stranger"} /\ "reused" \in accidents)
  <2>1. CASE {p \in S : table[p].is # "none" /\ ~ IsServer(p)} = {}
    BY <2>1 DEF StopServers
  <2>2. CASE {p \in S : table[p].is # "none" /\ ~ IsServer(p)} # {}
    <3>1. "reused" \in accidents
      BY <1>1, <1>2, <2>2 DEF StopFits
    <3>2. QED
      BY <2>2, <3>1 DEF StopServers
  <2>3. QED
    BY <2>1, <2>2
<1>6. pidfile' \in [Services -> Pids \cup {NoPid}]
  BY Bookkept, <1>1 DEF StopServers, Services
<1>7. HostTypeOK'
  <2>1. accidents' \subseteq Accidents
    BY <1>1, <1>5 DEF Accidents
  <2>2. QED
    BY <1>1, <1>3, <1>4, <1>6, <2>1, TypeStep DEF StopServers, Shrinks, CommandIs
<1>8. BornFits' /\ SweepFits'
  <2>1. "in_use" \notin accidents' /\ sweep' = sweep
    BY <1>1, <1>5 DEF SweepFits, StopServers
  <2>2. QED
    BY <1>3, <2>1, ShrinkFits
<1>9. StopFits'
  <2>1. accidents \subseteq accidents' /\ ("stranger" \in accidents' => "reused" \in accidents')
    BY <1>1, <1>5 DEF StopFits
  <2>2. \A d \in Callers : Reached(d, "kill")' => command'[d] = command[d]
    BY <1>4 DEF CommandIs, Reached
  <2>3. QED
    BY <1>3, <2>1, <2>2, ShrinkStops
<1>10. ASSUME Untroubled'
       PROVE  RecordFits'
  <2>1. RecordFits
    BY <1>5, <1>10, HostParts DEF Untroubled, StopServers
  <2>2. \A p \in Pids : Serving(p)' => Serving(p) /\ p \notin S
    BY DEF Serving, StopServers, NoProcessAt
  <2>3. \A d \in Callers : \/ command'[d] = command[d]
                           \/ d = c /\ command'[d].pc \notin {"record", "wait", "kill"}
    BY <1>4 DEF CommandIs
  <2>4. command[c].pc = "kill"
    BY <1>2 DEF Reached
  <2>5. \A p \in Pids : Recording(p) => Recording(p)'
    BY <2>3, <2>4 DEF Recording, Reached
  <2>6. \A p \in Pids : Serving(p)' => Recording(p)'
    BY <1>2, <2>1, <2>2, <2>5 DEF RecordFits
  <2>7. QED
    BY <2>1, <2>2, <2>3, <2>6 DEF RecordFits, Reached
<1>11. QED
  BY <1>7, <1>8, <1>9, <1>10 DEF HostInv

LEMMA StopDaemonStep ==
    ASSUME HostInv, NEW c \in Callers, StopDaemon(c)
    PROVE  HostInv'
<1>1. CommandsOK /\ TableOK /\ pidfile \in [Services -> Pids \cup {NoPid}]
  BY HostParts, HostTypes
<1>2. Recorded("ollama") \in SUBSET Pids
  BY <1>1 DEF Recorded, Services
<1>3. Shrinks
  BY <1>1, <1>2, GoneStep DEF StopDaemon
<1>4. CommandIs(c, command'[c]) /\ command'[c].pc = "idle"
  BY <1>1, ReturnsStep DEF StopDaemon
<1>5. /\ pidfile' \in [Services -> Pids \cup {NoPid}]
      /\ pidfile'["sonder_serve"] = pidfile["sonder_serve"]
  BY Bookkept DEF StopDaemon, Services
<1>6. HostTypeOK' /\ BornFits' /\ SweepFits' /\ StopFits'
  BY <1>3, <1>4, <1>5, ShrinkStep DEF StopDaemon, bookkeeping
<1>7. (Untroubled => RecordFits)'
  <2>1. Untroubled' => Untroubled
    BY DEF Untroubled, StopDaemon, bookkeeping
  <2>2. \A p \in Pids : Serving(p)' => Serving(p)
    BY <1>3 DEF Serving, Shrinks, NoProcessAt
  <2>3. \A d \in Callers :
              \/ command'[d] = command[d]
              \/ /\ command'[d].pc \notin {"record", "wait", "kill"}
                 /\ command[d].pc # "record"
    BY <1>4 DEF CommandIs, StopDaemon, Reached
  <2>4. QED
    BY <1>5, <2>1, <2>2, <2>3, QuietRecord
<1>8. QED
  BY <1>6, <1>7 DEF HostInv

\* A service binds its port, or a process ends.
LEMMA EndStep ==
    ASSUME HostInv, NEW p \in Pids, Bind(p) \/ Exit(p)
    PROVE  HostInv'
<1>1. /\ TableOK /\ CommandsOK /\ pidfile \in [Services -> Pids \cup {NoPid}]
      /\ HostTypeOK /\ born \in 0..MaxBorn /\ sweep \in Sweep /\ accidents \subseteq Accidents
      /\ commands \in 0..MaxCommands /\ SweepFits /\ StopFits
  BY HostParts, HostTypes
<1>2. UNCHANGED <<posix, born, pidfile, command, commands, sweep, accidents>>
  BY DEF Bind, Exit
<1>3. Shrinks
  <2>1. table[p] \in Process /\ [table[p] EXCEPT !.up = TRUE] \in Process
        /\ [table[p] EXCEPT !.up = TRUE].is = table[p].is
        /\ [table[p] EXCEPT !.up = TRUE].born = table[p].born
        /\ [table[p] EXCEPT !.up = TRUE].parent = table[p].parent
    BY <1>1 DEF TableOK, Process
  <2>2. PICK P \in {NoProcessAt, [table[p] EXCEPT !.up = TRUE]} : table' = [table EXCEPT ![p] = P]
    BY DEF Bind, Exit
  <2>3. /\ P \in Process
        /\ \/ P = NoProcessAt
           \/ /\ P.is = table[p].is /\ P.born = table[p].born
              /\ P.parent = table[p].parent
    <3>1. CASE P = NoProcessAt
      BY <3>1, NoProcessTyped, Zenon
    <3>2. CASE P = [table[p] EXCEPT !.up = TRUE]
      BY <2>1, <3>2, Zenon
    <3>3. QED
      BY <2>2, <3>1, <3>2
  <2>4. QED
    BY <1>1, <1>2, <2>2, <2>3 DEF Shrinks, TableOK
<1>4. HostTypeOK' /\ BornFits' /\ SweepFits' /\ StopFits'
  <2>1. HostTypeOK'
    BY <1>1, <1>2, <1>3, TypeStep DEF Shrinks, CommandsOK
  <2>2. BornFits' /\ SweepFits'
    BY <1>1, <1>2, <1>3, ShrinkFits DEF SweepFits
  <2>3. StopFits'
    BY <1>1, <1>2, <1>3, ShrinkStops DEF StopFits
  <2>4. QED
    BY <2>1, <2>2, <2>3
<1>5. (Untroubled => RecordFits)'
  <2>1. Untroubled' => Untroubled
    BY <1>2 DEF Untroubled
  <2>2. \A q \in Pids : Serving(q)' => Serving(q)
    BY <1>3 DEF Serving, Shrinks, NoProcessAt
  <2>3. QED
    BY <1>2, <2>1, <2>2, QuietRecord
<1>6. QED
  BY <1>4, <1>5 DEF HostInv

LEMMA NoteDaemonStep ==
    ASSUME HostInv, NEW c \in Callers, NoteDaemon(c)
    PROVE  HostInv'
<1>1. CommandsOK /\ commands \in 0..MaxCommands
  BY HostParts, HostTypes
<1>2. command[c].does \in CommandKinds /\ command[c].read \in Pids \cup {NoPid}
  BY <1>1 DEF CommandsOK, Command
<1>3. CommandIs(c, command'[c]) /\ command'[c].pc = "alias"
  BY <1>1, <1>2, GoesTo DEF NoteDaemon, CommandPcs
<1>4. /\ pidfile' \in [Services -> Pids \cup {NoPid}]
      /\ pidfile'["sonder_serve"] = pidfile["sonder_serve"]
  BY <1>2, Bookkept DEF NoteDaemon, Services
<1>5. QED
  BY <1>1, <1>3, <1>4, QuietCommand DEF NoteDaemon, Reached, processes, bookkeeping

LEMMA EnsureAliasStep ==
    ASSUME HostInv, NEW c \in Callers, EnsureAlias(c)
    PROVE  HostInv'
<1>1. CommandsOK /\ commands \in 0..MaxCommands
      /\ pidfile \in [Services -> Pids \cup {NoPid}]
  BY HostParts, HostTypes
<1>2. CommandIs(c, command'[c]) /\ command'[c].pc \in {"port", "idle"}
  <2>1. CASE Goes(c, Is("port", "start"))
    BY <1>1, <2>1, GoesTo DEF CommandPcs, CommandKinds
  <2>2. CASE Returns(c)
    BY <1>1, <2>2, ReturnsStep
  <2>3. QED
    BY <2>1, <2>2 DEF EnsureAlias
<1>3. QED
  BY <1>1, <1>2, QuietCommand DEF EnsureAlias, Reached, processes, bookkeeping

\* A command writes what it takes for the server into the record.
LEMMA CheckPortStep ==
    ASSUME HostInv, NEW c \in Callers, CheckPort(c)
    PROVE  HostInv'
<1>1. CommandsOK /\ commands \in 0..MaxCommands
  BY HostParts, HostTypes
<1>2. CommandIs(c, command'[c]) /\ command'[c].pc = "status"
  BY <1>1, GoesTo DEF CheckPort, CommandPcs, CommandKinds
<1>3. /\ pidfile' \in [Services -> Pids \cup {NoPid}]
      /\ Untroubled => pidfile'["sonder_serve"] = pidfile["sonder_serve"]
  <2>1. PICK p \in Repaired : pidfile' = [pidfile EXCEPT !["sonder_serve"] = p]
    BY DEF CheckPort
  <2>2. QED
    BY <2>1, RepairedTyped, Bookkept DEF Services
<1>4. QED
  BY <1>1, <1>2, <1>3, QuietCommand DEF CheckPort, Reached, processes, bookkeeping

LEMMA ShowStatusStep ==
    ASSUME HostInv, NEW c \in Callers, ShowStatus(c)
    PROVE  HostInv'
<1>1. CommandsOK /\ commands \in 0..MaxCommands
  BY HostParts, HostTypes
<1>2. CommandIs(c, command'[c]) /\ command'[c].pc = "idle"
  BY <1>1, ReturnsStep DEF ShowStatus
<1>3. /\ pidfile' \in [Services -> Pids \cup {NoPid}]
      /\ Untroubled => pidfile'["sonder_serve"] = pidfile["sonder_serve"]
  <2>1. PICK p \in Repaired : pidfile' = [pidfile EXCEPT !["sonder_serve"] = p]
    BY DEF ShowStatus
  <2>2. QED
    BY <2>1, RepairedTyped, Bookkept DEF Services
<1>4. QED
  BY <1>1, <1>2, <1>3, QuietCommand DEF ShowStatus, Reached, processes, bookkeeping

LEMMA AwaitServerStep ==
    ASSUME HostInv, NEW c \in Callers, AwaitServer(c)
    PROVE  HostInv'
<1>1. CommandsOK /\ commands \in 0..MaxCommands
      /\ pidfile \in [Services -> Pids \cup {NoPid}]
  BY HostParts, HostTypes
<1>2. CommandIs(c, command'[c]) /\ command'[c].pc = "status"
  BY <1>1, GoesTo DEF AwaitServer, CommandPcs, CommandKinds
<1>3. /\ pidfile' \in [Services -> Pids \cup {NoPid}]
      /\ Untroubled => pidfile'["sonder_serve"] = pidfile["sonder_serve"]
  <2>1. CASE pidfile' = pidfile
    BY <1>1, <2>1
  <2>2. CASE \E p \in IF Listeners = {} THEN {pidfile["sonder_serve"]} ELSE Listeners :
                pidfile' = [pidfile EXCEPT !["sonder_serve"] = p]
    <3>1. PICK p \in IF Listeners = {} THEN {pidfile["sonder_serve"]} ELSE Listeners :
                pidfile' = [pidfile EXCEPT !["sonder_serve"] = p]
      BY <2>2
    <3>2. p \in Pids \cup {NoPid} /\ (Untroubled => p = pidfile["sonder_serve"])
      BY RepairedTyped
    <3>3. QED
      BY <3>1, <3>2, Bookkept DEF Services
  <2>3. QED
    BY <2>1, <2>2 DEF AwaitServer
<1>4. QED
  BY <1>1, <1>2, <1>3, QuietCommand DEF AwaitServer, Reached, processes, bookkeeping

\* A step in which a process is born.
LEMMA GrowTypes ==
    ASSUME HostInv, NEW p \in Pids, Grows(p), posix' = posix, sweep' = sweep,
           commands' = commands, CommandsOK', pidfile' = pidfile,
           NEW hurried \in {{}, {"hurried"}},
           accidents' = (accidents \cup Reuses(p)) \cup hurried,
           \A c \in Callers : Reached(c, "kill")' => command'[c] = command[c]
    PROVE  HostTypeOK' /\ BornFits' /\ SweepFits' /\ StopFits'
<1>1. /\ pidfile \in [Services -> Pids \cup {NoPid}] /\ HostTypeOK /\ sweep \in Sweep
      /\ accidents \subseteq Accidents /\ commands \in 0..MaxCommands /\ SweepFits
  BY HostParts, HostTypes
<1>2. accidents' \subseteq Accidents /\ "in_use" \notin accidents'
  BY <1>1 DEF Reuses, Accidents, SweepFits
<1>3. HostTypeOK'
  BY <1>1, <1>2, TypeStep DEF Grows
<1>4. BornFits' /\ SweepFits'
  BY <1>2, GrowFits
<1>5. StopFits'
  <2>1. "stranger" \in accidents' => "stranger" \in accidents
    BY DEF Reuses
  <2>2. QED
    BY <2>1, GrowStops
<1>6. QED
  BY <1>3, <1>4, <1>5

\* A step that starts no server.
LEMMA GrowOthers ==
    ASSUME HostInv, NEW p \in Pids, Grows(p), table'[p].is # "sonder_serve",
           posix' = posix, sweep' = sweep, commands' = commands, CommandsOK',
           pidfile' = pidfile, accidents' = accidents \cup Reuses(p),
           \A c \in Callers :
              \/ command'[c] = command[c]
              \/ /\ command'[c].pc \notin {"record", "wait", "kill"}
                 /\ command[c].pc # "record"
    PROVE  HostInv'
<1>1. HostTypeOK' /\ BornFits' /\ SweepFits' /\ StopFits'
  <2>1. accidents' = (accidents \cup Reuses(p)) \cup {}
    OBVIOUS
  <2>2. \A c \in Callers : Reached(c, "kill")' => command'[c] = command[c]
    BY DEF Reached
  <2>3. QED
    BY <2>1, <2>2, GrowTypes
<1>2. (Untroubled => RecordFits)'
  <2>1. Untroubled' => Untroubled
    BY DEF Untroubled
  <2>2. \A q \in Pids : Serving(q)' => Serving(q)
    BY DEF Serving, Grows
  <2>3. QED
    BY <2>1, <2>2, QuietRecord
<1>3. QED
  BY <1>1, <1>2 DEF HostInv

LEMMA StartOtherStep ==
    ASSUME HostInv, NEW p \in Pids, StartOther(p)
    PROVE  HostInv'
<1>1. HostTypeOK /\ born \in Nat /\ CommandsOK
  BY HostParts, HostTypes
<1>2. Grows(p) /\ table'[p].is = "other"
  BY <1>1, GrowStep DEF StartOther
<1>3. CommandsOK'
  BY <1>1 DEF CommandsOK, StartOther
<1>4. QED
  BY <1>2, <1>3, GrowOthers DEF StartOther

LEMMA SpawnWorkerStep ==
    ASSUME HostInv, NEW p \in Pids, NEW is \in {"runner", "probe"}, SpawnWorker(p, is)
    PROVE  HostInv'
<1>1. HostTypeOK /\ born \in Nat /\ CommandsOK /\ BornFits
  BY HostParts, HostTypes
<1>2. PICK o \in Pids : Born(p, is, table[o].born)
  BY DEF SpawnWorker, Up, Running
<1>3. table[o].born \in 0..born
  BY <1>1, TablesTyped DEF BornFits
<1>4. Grows(p) /\ table'[p].is = is
  BY <1>1, <1>2, <1>3, GrowStep
<1>5. CommandsOK'
  BY <1>1 DEF CommandsOK, SpawnWorker
<1>6. QED
  BY <1>4, <1>5, GrowOthers DEF SpawnWorker

LEMMA StartDaemonStep ==
    ASSUME HostInv, NEW c \in Callers, StartDaemon(c)
    PROVE  HostInv'
<1>1. HostTypeOK /\ born \in Nat /\ CommandsOK /\ commands \in 0..MaxCommands
      /\ pidfile \in [Services -> Pids \cup {NoPid}]
  BY HostParts, HostTypes
<1>2. command[c].does \in CommandKinds /\ command[c].pc = "daemon"
  BY <1>1 DEF CommandsOK, Command, StartDaemon, Reached
<1>3. CASE Goes(c, Is("alias", command[c].does)) /\ UNCHANGED <<table, born, accidents>>
  <2>1. CommandIs(c, command'[c]) /\ command'[c].pc = "alias"
    BY <1>1, <1>2, <1>3, GoesTo DEF CommandPcs
  <2>2. QED
    BY <1>1, <1>2, <1>3, <2>1, QuietCommand DEF StartDaemon, Reached
<1>4. CASE \E p \in Pids :
               /\ Born(p, "ollama", 0)
               /\ accidents' = accidents \cup Reuses(p)
               /\ Returns(c) \/ Goes(c, [Is("note", command[c].does) EXCEPT !.read = p])
  <2>1. PICK p \in Pids :
               /\ Born(p, "ollama", 0)
               /\ accidents' = accidents \cup Reuses(p)
               /\ Returns(c) \/ Goes(c, [Is("note", command[c].does) EXCEPT !.read = p])
    BY <1>4
  <2>2. Grows(p) /\ table'[p].is = "ollama"
    BY <1>1, <2>1, GrowStep
  <2>3. CommandIs(c, command'[c]) /\ command'[c].pc \in {"idle", "note"}
    <3>1. CASE Returns(c)
      BY <1>1, <3>1, ReturnsStep
    <3>2. CASE Goes(c, [Is("note", command[c].does) EXCEPT !.read = p])
      <4>1. CommandIs(c, [Is("note", command[c].does) EXCEPT !.read = p])
        BY <1>1, <1>2, <3>2, IsReadTyped, GoesStep DEF CommandPcs
      <4>2. QED
        BY <1>2, <4>1, IsReadTyped DEF CommandIs, CommandPcs
    <3>3. QED
      BY <2>1, <3>1, <3>2
  <2>4. \A d \in Callers :
              \/ command'[d] = command[d]
              \/ /\ command'[d].pc \notin {"record", "wait", "kill"}
                 /\ command[d].pc # "record"
    BY <1>2, <2>3 DEF CommandIs
  <2>5. CommandsOK'
    BY <2>3 DEF CommandIs
  <2>6. QED
    BY <2>1, <2>2, <2>4, <2>5, GrowOthers DEF StartDaemon
<1>5. QED
  BY <1>3, <1>4, Zenon DEF StartDaemon

LEMMA StartServerStep ==
    ASSUME HostInv, NEW c \in Callers, StartServer(c)
    PROVE  HostInv'
<1>1. HostTypeOK /\ born \in Nat /\ CommandsOK
  BY HostParts, HostTypes
<1>2. PICK p \in Pids :
         /\ Born(p, "sonder_serve", 0)
         /\ accidents' = (accidents \cup Reuses(p))
              \cup IF Starting = {} THEN {} ELSE {"hurried"}
         /\ Goes(c, [Is("record", "start") EXCEPT !.read = p])
  BY DEF StartServer
<1>3. Grows(p)
  BY <1>1, <1>2, GrowStep
<1>4. CommandIs(c, [Is("record", "start") EXCEPT !.read = p])
  BY <1>1, <1>2, IsReadTyped, GoesStep DEF CommandPcs, CommandKinds
<1>5. CommandsOK' /\ command'[c].pc = "record" /\ command'[c].read = p
      /\ \A d \in Callers \ {c} : command'[d] = command[d]
  BY <1>4, IsReadTyped DEF CommandIs, CommandPcs, CommandKinds
<1>6. HostTypeOK' /\ BornFits' /\ SweepFits' /\ StopFits'
  <2>1. PICK hurried \in {{}, {"hurried"}} :
            accidents' = (accidents \cup Reuses(p)) \cup hurried
    BY <1>2
  <2>2. \A d \in Callers : Reached(d, "kill")' => command'[d] = command[d]
    BY <1>5 DEF Reached
  <2>3. QED
    BY <1>3, <1>5, <2>1, <2>2, GrowTypes DEF StartServer
<1>7. ASSUME Untroubled'
      PROVE  RecordFits'
  <2>1. Starting = {}
    BY <1>2, <1>7 DEF Untroubled
  <2>2. \A d \in Callers : command[d].pc \notin {"record", "wait"}
    BY <2>1 DEF Starting
  <2>3. \A q \in Pids : ~ Serving(q)
    BY <2>1 DEF Starting, StartServer, MayStart, Reachable, Serving, Running
  <2>4. \A q \in Pids : Serving(q)' => q = p
    BY <1>3, <2>3 DEF Grows, Serving
  <2>5. \A d \in Callers : command'[d].pc \in {"record", "wait"} => d = c
    BY <1>5, <2>2
  <2>6. Recording(p)'
    BY <1>5 DEF Recording, Reached
  <2>7. QED
    BY <1>5, <2>4, <2>5, <2>6 DEF RecordFits, Reached
<1>8. QED
  BY <1>6, <1>7 DEF HostInv

LEMMA RecordServerStep ==
    ASSUME HostInv, NEW c \in Callers, RecordServer(c)
    PROVE  HostInv'
<1>1. HostTypeOK /\ CommandsOK /\ commands \in 0..MaxCommands
  BY HostParts, HostTypes
<1>2. command[c].read \in Pids \cup {NoPid} /\ command[c].pc = "record"
  BY <1>1 DEF CommandsOK, Command, RecordServer, Reached
<1>3. CommandIs(c, command'[c]) /\ command'[c].pc = "wait"
  BY <1>1, GoesTo DEF RecordServer, CommandPcs, CommandKinds
<1>4. /\ pidfile' \in [Services -> Pids \cup {NoPid}]
      /\ pidfile'["sonder_serve"] = command[c].read
  BY <1>2, Bookkept DEF RecordServer, Services
<1>5. HostTypeOK' /\ BornFits' /\ SweepFits' /\ StopFits'
  <2>1. accidents' \in {accidents, accidents \cup {"crossed"}}
    BY DEF RecordServer
  <2>2. QED
    BY <1>1, <1>3, <1>4, <2>1, CommandStep DEF RecordServer, Reached, processes
<1>6. ASSUME Untroubled'
      PROVE  RecordFits'
  <2>1. Untroubled /\ UNCHANGED table
    BY <1>6 DEF Untroubled, RecordServer, processes
  <2>2. RecordFits
    BY <2>1, HostParts
  <2>3. \A d \in Callers : command[d].pc # "kill"
    BY <1>6 DEF Untroubled, RecordServer, Reached
  <2>4. \A d \in Callers : command[d].pc = "record" => d = c
    BY <1>2, <2>2 DEF RecordFits, Reached
  <2>5. \A d \in Callers : command'[d].pc \notin {"record", "kill"}
    BY <1>3, <2>3, <2>4 DEF CommandIs
  <2>6. \A p \in Pids : Serving(p)' => pidfile'["sonder_serve"] = p
    BY <1>2, <1>4, <2>1, <2>2 DEF RecordFits, Serving, Reached
  <2>7. \A p, q \in Pids : Serving(p)' /\ Serving(q)' => p = q
    BY <2>6
  <2>8. QED
    BY <2>5, <2>6, <2>7 DEF RecordFits, Reached
<1>7. QED
  BY <1>5, <1>6 DEF HostInv

\* The looks of a sweep, and what it ends.
LEMMA LookStep ==
    ASSUME HostInv, UNCHANGED <<posix, table, born, pidfile, command, accidents>>,
           commands' \in 0..MaxCommands, sweep' \in Sweep, SweepFits'
    PROVE  HostInv'
<1>1. /\ TableOK /\ CommandsOK /\ pidfile \in [Services -> Pids \cup {NoPid}]
      /\ HostTypeOK /\ born \in 0..MaxBorn /\ accidents \subseteq Accidents
      /\ SweepFits /\ StopFits /\ BornFits /\ (Untroubled => RecordFits)
  BY HostParts, HostTypes
<1>2. HostTypeOK'
  BY <1>1, TypeStep DEF TableOK, CommandsOK
<1>3. BornFits' /\ StopFits' /\ (Untroubled => RecordFits)'
  BY <1>1 DEF BornFits, StopFits, Untroubled, RecordFits, Serving, Recording, Reached, IsServer
<1>4. QED
  BY <1>2, <1>3 DEF HostInv

LEMMA NoSweepTyped ==
    ASSUME NEW b \in BOOLEAN
    PROVE  /\ NoSweep \in Sweep /\ \A p \in Pids : NoSweep.seen[p] = 0
           /\ [NoSweep EXCEPT !.pc = "first", !.models = b] \in Sweep
           /\ \A p \in Pids : [NoSweep EXCEPT !.pc = "first", !.models = b].seen[p] = 0
<1> DEFINE Zero == [p \in Pids |-> 0]
<1>1. Zero \in [Pids -> 0..MaxBorn] /\ \A p \in Pids : Zero[p] = 0
  BY HostAssumption
<1>2. NoSweep = [pc |-> "idle", models |-> FALSE, seen |-> Zero]
  BY DEF NoSweep
<1>3. NoSweep \in Sweep /\ NoSweep.seen = Zero
  BY <1>1, <1>2 DEF Sweep
<1>5. [NoSweep EXCEPT !.pc = "first", !.models = b] \in Sweep
      /\ [NoSweep EXCEPT !.pc = "first", !.models = b].seen = Zero
  BY <1>1, <1>3 DEF Sweep
<1>6. QED
  BY <1>1, <1>3, <1>5

LEMMA NothingSeen ==
    ASSUME HostInv, UNCHANGED <<table, born, accidents>>, \A p \in Pids : sweep'.seen[p] = 0
    PROVE  SweepFits'
<1>1. born \in Nat /\ SweepFits
  BY HostParts, HostTypes
<1>2. QED
  BY <1>1 DEF SweepFits

LEMMA UnloadStep ==
    ASSUME HostInv, NEW all \in BOOLEAN, Unload(all)
    PROVE  HostInv'
<1>1. commands \in 0..MaxCommands /\ MaxCommands \in Nat
  BY HostParts, HostTypes, HostAssumption
<1>2. PICK b \in BOOLEAN : sweep' = [NoSweep EXCEPT !.pc = "first", !.models = b]
  BY DEF Unload, Reachable, Resident
<1>3. sweep' \in Sweep /\ \A p \in Pids : sweep'.seen[p] = 0
  BY <1>2, NoSweepTyped, Zenon
<1>4. QED
  BY <1>1, <1>3, NothingSeen, LookStep DEF Unload, processes

LEMMA FirstLookStep ==
    ASSUME HostInv, FirstLook
    PROVE  HostInv'
<1>1. HostTypeOK /\ sweep \in Sweep /\ commands \in 0..MaxCommands /\ BornFits /\ SweepFits
      /\ born \in 0..MaxBorn /\ born \in Nat
  BY HostParts, HostTypes
<1> DEFINE I == Identities(sweep.models)
<1>2. I \in [Pids -> 0..MaxBorn] /\ \A p \in Pids : I[p] <= born
  BY <1>1, TablesTyped, HostAssumption DEF Identities, BornFits
<1>3. \A p \in Pids : I[p] # 0 => p \in Orphans(sweep.models)
  BY DEF Identities
<1>4. \A p \in Pids : p \in Orphans(sweep.models)
                         => table[p].is \in {"probe", "runner"} /\ ~ HasLiveParent(p)
  BY DEF Orphans, Running
<1>5. CASE sweep' = NoSweep
  BY <1>1, <1>5, NoSweepTyped, NothingSeen, LookStep DEF FirstLook, processes
<1>6. CASE sweep' = [sweep EXCEPT !.pc = "second", !.seen = I]
  <2>1. sweep' \in Sweep /\ sweep'.seen = I
    BY <1>1, <1>2, <1>6 DEF Sweep
  <2>2. SweepFits'
    BY <1>1, <1>2, <1>3, <1>4, <2>1
       DEF SweepFits, FirstLook, processes, HasLiveParent, AliveBorn
  <2>3. QED
    BY <1>1, <2>1, <2>2, LookStep DEF FirstLook, processes
<1>7. QED
  BY <1>5, <1>6 DEF FirstLook

LEMMA SecondLookStep ==
    ASSUME HostInv, SecondLook
    PROVE  HostInv'
<1>1. HostTypeOK /\ sweep \in Sweep /\ commands \in 0..MaxCommands /\ SweepFits /\ TableOK
      /\ sweep.seen \in [Pids -> 0..MaxBorn]
  BY HostParts, HostTypes DEF Sweep
<1> DEFINE S == [p \in Pids |-> IF sweep.seen[p] = Identities(sweep.models)[p]
                                THEN sweep.seen[p] ELSE 0]
<1>2. S \in [Pids -> 0..MaxBorn] /\ \A p \in Pids : S[p] \in {0, sweep.seen[p]}
  BY <1>1, HostAssumption
<1>3. sweep' = [sweep EXCEPT !.pc = "terminate", !.seen = S]
  BY DEF SecondLook
<1>4. sweep' \in Sweep /\ sweep'.seen = S
  BY <1>1, <1>2, <1>3 DEF Sweep
<1>5. Shrinks
  BY <1>1, SameTable DEF SecondLook, processes
<1>6. SweepFits'
  BY <1>1, <1>2, <1>4, <1>5, ShrinkFits DEF SweepFits, SecondLook
<1>7. QED
  BY <1>1, <1>4, <1>6, LookStep DEF SecondLook, processes

LEMMA EndSweepStep ==
    ASSUME HostInv, EndSweep
    PROVE  HostInv'
<1>1. commands \in 0..MaxCommands
  BY HostParts, HostTypes
<1>2. QED
  BY <1>1, NoSweepTyped, NothingSeen, LookStep DEF EndSweep, processes

LEMMA TerminateStep ==
    ASSUME HostInv, NEW p \in Pids, Terminate(p)
    PROVE  HostInv'
<1>1. /\ TableOK /\ CommandsOK /\ pidfile \in [Services -> Pids \cup {NoPid}]
      /\ HostTypeOK /\ born \in 0..MaxBorn /\ sweep \in Sweep /\ accidents \subseteq Accidents
      /\ commands \in 0..MaxCommands /\ SweepFits /\ StopFits
  BY HostParts, HostTypes
<1>2. /\ sweep' \in Sweep
      /\ \A q \in Pids : sweep'.seen[q] \in {0, sweep.seen[q]}
  <2>1. sweep.seen \in [Pids -> 0..MaxBorn] /\ [sweep.seen EXCEPT ![p] = 0] \in [Pids -> 0..MaxBorn]
    BY <1>1, HostAssumption DEF Sweep
  <2>2. sweep' = [sweep EXCEPT !.seen = [sweep.seen EXCEPT ![p] = 0]]
    BY DEF Terminate
  <2>3. sweep' \in Sweep /\ sweep'.seen = [sweep.seen EXCEPT ![p] = 0]
    BY <1>1, <2>1, <2>2 DEF Sweep
  <2>4. QED
    BY <2>1, <2>3
<1>3. UNCHANGED <<posix, born, pidfile, command, commands>>
  BY DEF Terminate
<1>4. Shrinks /\ accidents' = accidents
  <2>1. CASE SameProcess(p)
    <3>1. table[p].is \in {"probe", "runner"} /\ ~ HasLiveParent(p)
      BY <1>1, <2>1 DEF SweepFits, SameProcess, Terminate
    <3>2. accidents' = accidents /\ table' = [table EXCEPT ![p] = NoProcessAt]
      BY <2>1, <3>1 DEF Terminate
    <3>3. QED
      BY <1>1, <1>3, <3>2, NoProcessTyped DEF TableOK, Shrinks
  <2>2. CASE ~ SameProcess(p)
    BY <1>1, <1>3, <2>2, SameTable DEF Terminate
  <2>3. QED
    BY <2>1, <2>2
<1>5. HostTypeOK' /\ BornFits' /\ SweepFits' /\ StopFits'
  <2>1. HostTypeOK'
    BY <1>1, <1>2, <1>3, <1>4, TypeStep DEF Shrinks, CommandsOK
  <2>2. BornFits' /\ SweepFits'
    BY <1>1, <1>2, <1>4, ShrinkFits DEF SweepFits
  <2>3. StopFits'
    BY <1>1, <1>3, <1>4, ShrinkStops DEF StopFits
  <2>4. QED
    BY <2>1, <2>2, <2>3
<1>6. (Untroubled => RecordFits)'
  <2>1. Untroubled' => Untroubled
    BY <1>3, <1>4 DEF Untroubled
  <2>2. \A q \in Pids : Serving(q)' => Serving(q)
    BY <1>4 DEF Serving, Shrinks, NoProcessAt
  <2>3. QED
    BY <1>3, <2>1, <2>2, QuietRecord
<1>7. QED
  BY <1>5, <1>6 DEF HostInv

LEMMA HostInvStep ==
    ASSUME HostInv, [HostNext]_hostVars
    PROVE  HostInv'
<1>1. CASE UNCHANGED hostVars
  BY <1>1 DEF hostVars, HostInv, HostTypeOK, BornFits, SweepFits, StopFits, Untroubled,
              RecordFits, Serving, Recording, Reached, IsServer, HasLiveParent, AliveBorn
<1>2. ASSUME NEW p \in Pids,
             \/ StartOther(p) \/ (\E is \in {"runner", "probe"} : SpawnWorker(p, is))
             \/ Bind(p) \/ Exit(p) \/ Terminate(p)
      PROVE  HostInv'
  BY <1>2, StartOtherStep, SpawnWorkerStep, EndStep, TerminateStep
<1>3. ASSUME NEW c \in Callers,
             \/ (\E does \in CommandKinds : Invoke(c, does))
             \/ ReadPids(c) \/ StopServers(c) \/ StopFails(c) \/ StopDaemon(c)
             \/ StartDaemon(c) \/ NoteDaemon(c) \/ EnsureAlias(c)
             \/ CheckPort(c) \/ StartServer(c) \/ RecordServer(c) \/ AwaitServer(c)
             \/ ShowStatus(c)
      PROVE  HostInv'
  BY <1>3, InvokeStep, ReadPidsStep, StopServersStep, StopFailsStep, StopDaemonStep,
     StartDaemonStep, NoteDaemonStep, EnsureAliasStep, CheckPortStep, StartServerStep,
     RecordServerStep, AwaitServerStep, ShowStatusStep
<1>4. CASE \E all \in BOOLEAN : Unload(all)
  BY <1>4, UnloadStep
<1>5. CASE FirstLook \/ SecondLook \/ EndSweep
  BY <1>5, FirstLookStep, SecondLookStep, EndSweepStep
<1>6. QED
  BY <1>1, <1>2, <1>3, <1>4, <1>5 DEF HostNext

LEMMA HostInvInit == HostInit => HostInv
<1> SUFFICES ASSUME HostInit PROVE HostInv
  OBVIOUS
<1>1. \A p \in Pids : /\ table[p] = NoProcessAt /\ table[p].is = "none"
                      /\ table[p].born = 0 /\ table[p].parent = 0
  BY DEF HostInit, NoProcessAt
<1>2. \A c \in Callers : command[c] = NoCommand /\ command[c].pc = "idle"
  BY NoCommandTyped DEF HostInit
<1>3. sweep \in Sweep /\ \A p \in Pids : sweep.seen[p] = 0
  BY NoSweepTyped DEF HostInit
<1>4. HostTypeOK
  <2>1. TableOK /\ CommandsOK
    BY NoProcessTyped, NoCommandTyped DEF HostInit, TableOK, CommandsOK
  <2>2. born \in 0..MaxBorn /\ commands \in 0..MaxCommands
    BY HostAssumption DEF HostInit
  <2>3. QED
    BY <1>3, <2>1, <2>2 DEF HostInit, HostTypeOK, TableOK, CommandsOK, Command, Sweep
<1>5. BornFits /\ SweepFits /\ StopFits
  BY <1>1, <1>2, <1>3 DEF HostInit, BornFits, SweepFits, StopFits, Reached
<1>6. RecordFits
  BY <1>1, <1>2 DEF RecordFits, Serving, Reached
<1>7. QED
  BY <1>4, <1>5, <1>6 DEF HostInv

LEMMA HostInvSound == HostInv => ServersSound
<1> SUFFICES ASSUME HostInv PROVE ServersSound
  OBVIOUS
<1>1. HostTypeOK /\ StopFits /\ SweepFits /\ (Untroubled => RecordFits) /\ posix \in BOOLEAN
  BY HostParts, HostTypes
<1>2. ASSUME NEW p \in Up("sonder_serve"), p \notin Recorded("sonder_serve") \cup Listeners,
             accidents \cap {"hurried", "crossed"} = {}
      PROVE  Recording(p)
  <2>1. p \in Pids /\ Serving(p) /\ posix
    BY <1>1, <1>2 DEF Up, Running, Serving, Listeners
  <2>2. RecordFits
    BY <1>1, <1>2, <2>1 DEF Untroubled
  <2>3. QED
    BY <1>2, <2>1, <2>2, HostAssumption DEF RecordFits, Recorded
<1>3. QED
  BY <1>1, <1>2
     DEF ServersSound, OnlyServersStopped, ServersAreManaged, OnlyOrphansSwept,
         StopFits, SweepFits, Recording

\* Whatever processes come and go and whatever ids are used again, a stop ends
\* servers only unless an id is reused between its check and its signal, a sweep
\* ends orphans only, and a server that answers is known to its host or recorded,
\* unless two were started at once or a record was written while a stop was to
\* remove it (sonder_headless.py stop_pid, start_sonder; ollama_lifecycle.py).
THEOREM ServersStaySound == HostSpec => [](HostTypeOK /\ ServersSound)
<1>1. HostInv => HostTypeOK /\ ServersSound
  BY HostInvSound, HostParts
<1>2. QED
  BY <1>1, HostInvInit, HostInvStep, PTL DEF HostSpec

-----------------------------------------------------------------------------
\* All services together.

ServicesInv ==
    /\ LivesOK /\ TurnsInv /\ DistillInv /\ LauncherInv /\ HostInv
    /\ part # "turns" => NoTurnYet
    /\ part # "lessons" => NoOutcomeYet
    /\ part # "launcher" => NoOperationYet

LEMMA ServicesInvInit == ServicesInit => ServicesInv
BY LivesInit, TurnsInvInit, DistillInvInit, LauncherInvInit, HostInvInit
DEF ServicesInit, ServicesInv, TurnsInit, DistillInit, LauncherInit, NoTurnYet,
    NoOutcomeYet, NoOperationYet

\* A service that has nothing begun is as it was.
LEMMA NothingYetStep ==
    ASSUME ServicesInv
    PROVE  /\ NoTurnYet /\ UNCHANGED sessionVars => NoTurnYet'
           /\ NoOutcomeYet /\ UNCHANGED lessonVars => NoOutcomeYet'
           /\ NoOperationYet /\ UNCHANGED operationVars => NoOperationYet'
<1>1. NoTurnYet /\ UNCHANGED sessionVars => NoTurnYet'
  BY DEF NoTurnYet, sessionVars
<1>2. NoOutcomeYet /\ UNCHANGED lessonVars => NoOutcomeYet'
  BY DEF NoOutcomeYet, lessonVars
<1>3. NoOperationYet /\ UNCHANGED operationVars => NoOperationYet'
  BY DEF NoOperationYet, operationVars
<1>4. QED
  BY <1>1, <1>2, <1>3

\* The invariants of the services tell that processes are unique.
LEMMA TurnsLive == TurnsInv => LivesOK
BY DEF TurnsInv, TurnsTypeOK, LivesOK
LEMMA DistillLive == DistillInv => LivesOK
BY DEF DistillInv, DistillTypeOK, LivesOK

LEMMA LauncherLivesStep ==
    ASSUME LivesOK, LauncherInv, [LauncherNext]_launcherVars
    PROVE  LivesOK'
<1>1. CASE UNCHANGED life
  BY <1>1 DEF LivesOK, LifeTypeOK, PidsUnique
<1>2. CASE \E i \in Instances : Start(i) \/ Kill(i)
  BY <1>2, LivesStep
<1>3. ASSUME NEW o \in Ops, WorkerStep(o) \/ TreeNotStopped(o) \/ FinishFails(o) \/ CommandEnds(o)
      PROVE  UNCHANGED life
  BY <1>3 DEF WorkerStep, StartWorker, Needless, Spawn, RecordControl, OpenGate, Await,
     AbortCommand, TreeNotStopped, RecordExit, FinishOperation, FinishFails, CommandEnds
<1>4. ASSUME NEW l \in Launchers, Submit(l) \/ RecoveryStep(l) PROVE UNCHANGED life
  BY <1>4 DEF Submit, RecoveryStep, StopRecordedTree, InterruptRecovered, InterruptUnchecked
<1>5. PassDeadline => UNCHANGED life
  BY DEF PassDeadline
<1>6. QED
  BY <1>1, <1>2, <1>3, <1>4, <1>5 DEF LauncherNext, LifeOfLaunchers, launcherVars

\* The same of the next state.
LEMMA NothingYetInv ==
    /\ (LivesOK /\ NoTurnYet)' => TurnsInv'
    /\ (LivesOK /\ NoOutcomeYet)' => DistillInv'
    /\ (LifeTypeOK /\ NoOperationYet)' => LauncherInv'
BY NoTurnYetInv, NoOutcomeYetInv, NoOperationYetInv, PTL

LEMMA ServicesInvStep == ServicesInv /\ [ServicesNext]_servicesVars => ServicesInv'
<1> SUFFICES ASSUME ServicesInv, [ServicesNext]_servicesVars PROVE ServicesInv'
  OBVIOUS
<1>1. /\ LivesOK /\ TurnsInv /\ DistillInv /\ LauncherInv /\ HostInv
      /\ (part # "turns" => NoTurnYet) /\ (part # "lessons" => NoOutcomeYet)
      /\ (part # "launcher" => NoOperationYet) /\ part' = part
  BY DEF ServicesInv, ServicesNext, servicesVars
<1>2. CASE UNCHANGED servicesVars
  <2>1. UNCHANGED <<turnVars, distillVars, launcherVars, hostVars, sessionVars, lessonVars,
                    operationVars, life>>
    BY <1>2 DEF servicesVars, turnVars, distillVars, launcherVars, sessionVars, lessonVars,
                operationVars
  <2>2. TurnsInv' /\ DistillInv' /\ LauncherInv' /\ HostInv'
    BY <1>1, <2>1, TurnsInvStep, DistillInvStep, LauncherInvStep, HostInvStep
  <2>3. LivesOK'
    BY <1>1, <2>1 DEF LivesOK, LifeTypeOK, PidsUnique
  <2>4. QED
    BY <1>1, <2>1, <2>2, <2>3, NothingYetStep DEF ServicesInv
<1>3. CASE part = "turns" /\ TurnsNext /\ UNCHANGED <<lessonVars, operationVars, hostVars>>
  <2>1. TurnsInv' /\ HostInv'
    BY <1>1, <1>3, TurnsInvStep, HostInvStep
  <2>2. LivesOK' /\ LifeTypeOK'
    BY <2>1 DEF TurnsInv, TurnsTypeOK, LivesOK
  <2>3. NoOutcomeYet' /\ NoOperationYet'
    BY <1>1, <1>3, NothingYetStep
  <2>4. DistillInv' /\ LauncherInv'
    BY <2>2, <2>3, NothingYetInv
  <2>5. QED
    BY <1>1, <1>3, <2>1, <2>2, <2>3, <2>4 DEF ServicesInv
<1>4. CASE part = "lessons" /\ DistillNext /\ UNCHANGED <<sessionVars, operationVars, hostVars>>
  <2>1. DistillInv' /\ HostInv'
    BY <1>1, <1>4, DistillInvStep, HostInvStep
  <2>2. LivesOK' /\ LifeTypeOK'
    BY <2>1 DEF DistillInv, DistillTypeOK, LivesOK
  <2>3. NoTurnYet' /\ NoOperationYet'
    BY <1>1, <1>4, NothingYetStep
  <2>4. TurnsInv' /\ LauncherInv'
    BY <2>2, <2>3, NothingYetInv
  <2>5. QED
    BY <1>1, <1>4, <2>1, <2>2, <2>3, <2>4 DEF ServicesInv
<1>5. CASE part = "launcher" /\ LauncherNext /\ UNCHANGED <<sessionVars, lessonVars, hostVars>>
  <2>1. LauncherInv' /\ HostInv' /\ LivesOK'
    BY <1>1, <1>5, LauncherInvStep, HostInvStep, LauncherLivesStep
  <2>2. NoTurnYet' /\ NoOutcomeYet'
    BY <1>1, <1>5, NothingYetStep
  <2>3. TurnsInv' /\ DistillInv'
    BY <2>1, <2>2, NothingYetInv
  <2>4. QED
    BY <1>1, <1>5, <2>1, <2>2, <2>3 DEF ServicesInv
<1>6. CASE part = "servers" /\ HostNext /\ UNCHANGED <<life, sessionVars, lessonVars, operationVars>>
  <2>1. UNCHANGED <<turnVars, distillVars, launcherVars>>
    BY <1>6 DEF turnVars, distillVars, launcherVars, sessionVars, lessonVars, operationVars
  <2>2. TurnsInv' /\ DistillInv' /\ LauncherInv' /\ HostInv'
    BY <1>1, <1>6, <2>1, TurnsInvStep, DistillInvStep, LauncherInvStep, HostInvStep
  <2>3. LivesOK'
    BY <1>1, <1>6 DEF LivesOK, LifeTypeOK, PidsUnique
  <2>4. QED
    BY <1>1, <1>6, <2>2, <2>3, NothingYetStep DEF ServicesInv
<1>7. QED
  BY <1>2, <1>3, <1>4, <1>5, <1>6 DEF ServicesNext, OthersUnchanged

\* However turns, lessons, operations and servers go on, and whoever dies: no
\* claim is kept from everybody for ever, a turn owns its session, a running
\* tree has the lock, and servers are known (memory_store.py, sonder_launcher.py,
\* sonder_headless.py).
THEOREM ServicesKeepClaims ==
    ServicesSpec =>
        [](ClaimsAreReclaimable /\ TurnOwnsSession /\ LockCoversTrees /\ ServersSound)
<1>1. ServicesInv => ClaimsAreReclaimable /\ TurnOwnsSession /\ LockCoversTrees /\ ServersSound
  <2> SUFFICES ASSUME ServicesInv
               PROVE  ClaimsAreReclaimable /\ TurnOwnsSession /\ LockCoversTrees /\ ServersSound
    OBVIOUS
  <2>1. TurnsInv /\ DistillInv /\ LauncherInv /\ HostInv
    BY DEF ServicesInv
  <2>2. TurnsTypeOK /\ TurnOwnsSession /\ ClaimsReclaimable
    BY <2>1 DEF TurnsInv
  <2>3. DistillTypeOK /\ JobsReclaimable
    BY <2>1, KeptIsReclaimable DEF DistillInv
  <2>4. LauncherTypeOK /\ LockCoversTrees
    BY <2>1
    DEF LauncherInv, OpFits, CoveredFits, Covered, LockCoversTrees
  <2>5. HostTypeOK /\ ServersSound
    BY <2>1, HostInvSound, HostParts
  <2>6. QED
    BY <2>2, <2>3, <2>4, <2>5 DEF ClaimsAreReclaimable, ServicesTypeOK
<1>2. QED
  BY <1>1, ServicesInvInit, ServicesInvStep, PTL DEF ServicesSpec

\* Lessons are safe among all services: a step of another service takes no
\* claim and writes no lesson.
THEOREM LessonsStaySafe == ServicesSpec => LessonsSafe
<1>1. ServicesInv /\ [ServicesNext]_servicesVars =>
        /\ [GroundedStep]_distillVars
        /\ [\A w \in Recorders, i \in Interactions : KeepsClaim(w, i)]_distillVars
  <2> SUFFICES ASSUME ServicesInv, [ServicesNext]_servicesVars
               PROVE  GroundedStep /\ \A w \in Recorders, i \in Interactions : KeepsClaim(w, i)
    OBVIOUS
  <2>1. DistillInv
    BY DEF ServicesInv
  <2>2. CASE [DistillNext]_distillVars
    BY <2>1, <2>2, LessonsStep, ClaimStep
  <2>3. CASE UNCHANGED lessonVars
    BY <2>3 DEF lessonVars, GroundedStep, KeepsClaim, Mine, Token
  <2>4. QED
    BY <2>2, <2>3 DEF ServicesNext, OthersUnchanged, servicesVars, distillVars, lessonVars
<1>2. LessonsSafe <=>
        /\ [][GroundedStep]_distillVars
        /\ [][\A w \in Recorders, i \in Interactions : KeepsClaim(w, i)]_distillVars
  BY DEF LessonsSafe, LessonsGrounded, ClaimNotStolen, GroundedStep, KeepsClaim
<1>3. QED
  BY <1>1, <1>2, ServicesInvInit, ServicesInvStep, PTL DEF ServicesSpec
=============================================================================
