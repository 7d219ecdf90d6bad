----------------------------- MODULE AppSystem ------------------------------
\* The system screen of the application and its client of the host launcher:
\* actions posted to the launcher and waited for, operations found by a poll or
\* a refresh and followed, while answers arrive late or never, the user gives
\* up waiting, and the application goes to the background.
EXTENDS Naturals

CONSTANTS
    MaxHostOps,      \* bound on the operations of the launcher
    MaxEpochs,       \* bound on _launcherActionEpoch
    MaxStirs         \* bound on what users, other devices and the network do

ASSUME SystemAssumption ==
    MaxHostOps \in Nat \ {0} /\ MaxEpochs \in Nat \ {0} /\ MaxStirs \in Nat

VARIABLES
    host,            \* the launcher's last operation and its phase
    panel,           \* what _SystemScreenState holds
    waits,           \* the calls that follow an operation, by their epoch
    readers,         \* the poll and the refreshes in flight
    stirs            \* what has been spent of MaxStirs

appSystemVars == <<host, panel, waits, readers, stirs>>

Epochs == 1..MaxEpochs
StatusReaders == {"poll", "refresh", "resumed"}
NoOperation == [op |-> 0, phase |-> "none"]
Operation == [op : 1..MaxHostOps, phase : {"active", "succeeded", "failed"}]
             \cup {NoOperation}
IsActive(operation) == operation.phase = "active"

\* The operation a status response names: the active one, if any.
Reported == IF IsActive(host) THEN host ELSE NoOperation

NoWait == [kind |-> "none", op |-> 0, at |-> "none", got |-> NoOperation]
WaitPcs == {"none", "posted", "accepted", "looping", "asked", "answered", "ended"}
StatusReaderPcs == {"idle", "asked", "answered", "info"}

SystemInit ==
    /\ host = NoOperation
    /\ panel = [mounted |-> TRUE, active |-> TRUE, loading |-> FALSE,
                working |-> FALSE, waiting |-> FALSE, stop |-> FALSE, epoch |-> 0,
                ignored |-> 0, shown |-> NoOperation, command |-> FALSE, due |-> FALSE]
    /\ waits = [e \in Epochs |-> NoWait]
    /\ readers = [r \in StatusReaders |-> [at |-> "idle", got |-> NoOperation]]
    /\ stirs = 0

Stir == stirs < MaxStirs /\ stirs' = stirs + 1

-----------------------------------------------------------------------------
\* The host

HostBegins == [op |-> host.op + 1, phase |-> "active"]

\* Another device starts an operation.
OtherBegins ==
    /\ Stir /\ ~IsActive(host) /\ host.op < MaxHostOps
    /\ host' = HostBegins
    /\ UNCHANGED <<panel, waits, readers>>

HostEnds ==
    /\ IsActive(host)
    /\ \E phase \in {"succeeded", "failed"} : host' = [host EXCEPT !.phase = phase]
    /\ UNCHANGED <<panel, waits, readers, stirs>>

-----------------------------------------------------------------------------
\* What the screen records

\* Mutation: no operation reported clears the one shown, waited for or not.
RecordedAsReported(operation) ==
    [panel EXCEPT !.shown =
        IF operation.op # 0 THEN operation
        ELSE IF IsActive(@) THEN NoOperation ELSE @]

\* _recordLauncherStatus: no operation reported clears the one shown as active,
\* unless it is being waited for here.
Recorded(operation) ==
    IF operation.op # 0 THEN [panel EXCEPT !.shown = operation]
    ELSE IF IsActive(panel.shown) /\ ~panel.waiting
           THEN [panel EXCEPT !.shown = NoOperation] ELSE panel

Current(e) == panel.mounted /\ panel.epoch = e

\* isCancelled of both callers.
GivenUp(e) == ~panel.mounted \/ ~panel.active \/ panel.epoch # e \/ panel.stop

WaitTo(e, pc) == waits' = [waits EXCEPT ![e].at = pc, ![e].got = NoOperation]

\* The wait is over, and so are the action that made it and its run.
EndWait(e, operation) ==
    /\ WaitTo(e, "ended")
    /\ LET recorded == IF Current(e) THEN Recorded(operation) ELSE panel
           action   == waits[e].kind = "action"
       IN  panel' = [recorded EXCEPT
              !.waiting = IF Current(e) THEN FALSE ELSE @,
              !.working = IF action /\ panel.mounted THEN FALSE ELSE @,
              !.due = @ \/ (action /\ operation.phase = "succeeded" /\ panel.mounted)]

-----------------------------------------------------------------------------
\* Actions and the operations they follow

\* The buttons of the host's server: _run(_launcherAction).
PressAction ==
    LET e == panel.epoch + 1
    IN  /\ Stir /\ panel.mounted /\ panel.active /\ e \in Epochs
        /\ ~panel.working /\ ~IsActive(panel.shown)
        /\ panel' = [panel EXCEPT !.working = TRUE, !.epoch = e, !.stop = FALSE,
                                  !.ignored = 0]
        /\ waits' = [waits EXCEPT ![e] = [NoWait EXCEPT !.kind = "action", !.at = "posted"]]
        /\ UNCHANGED <<host, readers>>

\* The launcher takes the request, unless an operation is active; its answer
\* may be lost.
HostAnswersPost(e) ==
    /\ waits[e].at = "posted"
    /\ IF IsActive(host) \/ host.op = MaxHostOps
       THEN EndWait(e, NoOperation) /\ UNCHANGED <<host, stirs>>
       ELSE /\ host' = HostBegins
            /\ \/ /\ waits' = [waits EXCEPT ![e].at = "accepted", ![e].op = host'.op,
                                            ![e].got = host']
                  /\ UNCHANGED <<panel, stirs>>
               \/ Stir /\ EndWait(e, NoOperation)
    /\ UNCHANGED readers

\* onProgress of the accepted request.
ActionAccepted(e) ==
    /\ waits[e].at = "accepted"
    /\ panel' = IF Current(e)
                THEN [Recorded(waits[e].got) EXCEPT !.waiting = TRUE] ELSE panel
    /\ WaitTo(e, "looping")
    /\ UNCHANGED <<host, readers, stirs>>

\* A turn of waitForOperation: it stops, times out, or asks again.
AskAgain(e) ==
    /\ waits[e].at = "looping"
    /\ IF GivenUp(e) THEN EndWait(e, NoOperation) /\ UNCHANGED stirs
       ELSE \/ WaitTo(e, "asked") /\ UNCHANGED <<panel, stirs>>
            \/ Stir /\ EndWait(e, NoOperation)
    /\ UNCHANGED <<host, readers>>

HostAnswersWait(e) ==
    /\ waits[e].at = "asked"
    /\ \/ /\ waits' = [waits EXCEPT ![e].at = "answered", ![e].got =
                 IF host.op = waits[e].op THEN host
                 ELSE [op |-> waits[e].op, phase |-> "succeeded"]]
          /\ UNCHANGED stirs
       \/ Stir /\ WaitTo(e, "looping")
    /\ UNCHANGED <<host, panel, readers>>

WaitHears(e) ==
    /\ waits[e].at = "answered"
    /\ IF IsActive(waits[e].got)
       THEN /\ panel' = IF Current(e) THEN Recorded(waits[e].got) ELSE panel
            /\ WaitTo(e, "looping")
       ELSE EndWait(e, waits[e].got)
    /\ UNCHANGED <<host, readers, stirs>>

\* _stopWaitingForLauncherAction
StopWaiting ==
    /\ Stir /\ panel.mounted /\ panel.active /\ panel.waiting
    /\ panel' = [panel EXCEPT !.stop = TRUE, !.ignored = panel.shown.op]
    /\ UNCHANGED <<host, waits, readers>>

-----------------------------------------------------------------------------
\* Polls and refreshes

\* _resumeLauncherOperation, with _followLauncherOperation up to its wait.
Followed(operation) ==
    LET recorded == Recorded(operation)
        e        == panel.epoch + 1
    IN  IF /\ IsActive(operation) /\ operation.op # panel.ignored
           /\ ~panel.waiting /\ ~panel.working /\ e \in Epochs
        THEN /\ panel' = [recorded EXCEPT !.epoch = e, !.stop = FALSE, !.waiting = TRUE]
             /\ waits' = [waits EXCEPT ![e] = [kind |-> "follow", op |-> operation.op,
                                               at |-> "looping", got |-> NoOperation]]
        ELSE panel' = recorded /\ UNCHANGED waits

StatusReaderTo(r, pc) == readers' = [readers EXCEPT ![r] = [at |-> pc, got |-> NoOperation]]

\* _pollSystemInfo, by the timer.
BeginPoll ==
    /\ readers["poll"].at = "idle" /\ panel.mounted /\ panel.active
    /\ ~panel.loading /\ ~panel.working
    /\ StatusReaderTo("poll", "asked")
    /\ UNCHANGED <<host, panel, waits, stirs>>

\* _refresh: by its button or the return of the application, when none is
\* loading, or a second after an action that succeeded.
BeginRefresh(r) ==
    /\ r # "poll" /\ readers[r].at = "idle" /\ panel.mounted
    /\ \/ Stir /\ ~panel.loading /\ panel.active
          /\ panel' = [panel EXCEPT !.loading = TRUE]
       \/ panel.due /\ panel' = [panel EXCEPT !.loading = TRUE, !.due = FALSE]
          /\ UNCHANGED stirs
    /\ StatusReaderTo(r, "asked")
    /\ UNCHANGED <<host, waits>>

HostAnswersReader(r) ==
    /\ readers[r].at = "asked"
    /\ readers' = [readers EXCEPT ![r] = [at |-> "answered", got |-> Reported]]
    /\ UNCHANGED <<host, panel, waits, stirs>>

\* The end of a poll or a refresh.
Rested(r) == IF r = "poll" \/ ~panel.mounted THEN panel ELSE [panel EXCEPT !.loading = FALSE]

\* The launcher's status is recorded and an active operation followed.  It may
\* not have come at all.
ReaderHears(r) ==
    /\ readers[r].at = "answered"
    /\ IF ~panel.mounted \/ ~panel.active
       THEN /\ panel' = IF r = "poll" THEN panel ELSE Rested(r)
            /\ StatusReaderTo(r, IF r = "poll" THEN "info" ELSE "idle")
            /\ UNCHANGED <<waits, stirs>>
       ELSE /\ \/ Followed(readers[r].got) /\ UNCHANGED stirs
               \/ Stir /\ UNCHANGED <<panel, waits>>
            /\ StatusReaderTo(r, "info")
    /\ UNCHANGED host

\* The server's status has come, or not.
EndReader(r) ==
    /\ readers[r].at = "info"
    /\ panel' = Rested(r)
    /\ StatusReaderTo(r, "idle")
    /\ UNCHANGED <<host, waits, stirs>>

-----------------------------------------------------------------------------
\* Commands, and the application's lifecycle

\* _sendCommand
SendCommand ==
    /\ Stir /\ panel.mounted /\ panel.active /\ ~panel.working
    /\ panel' = [panel EXCEPT !.working = TRUE, !.command = TRUE]
    /\ UNCHANGED <<host, waits, readers>>

CommandReturns ==
    /\ panel.command
    /\ panel' = [panel EXCEPT !.command = FALSE,
                              !.working = IF panel.mounted THEN FALSE ELSE @]
    /\ UNCHANGED <<host, waits, readers, stirs>>

\* didChangeAppLifecycleState
GoInactive ==
    /\ Stir /\ panel.active /\ panel.epoch < MaxEpochs
    /\ panel' = [panel EXCEPT !.active = FALSE, !.stop = TRUE, !.epoch = @ + 1,
                              !.waiting = IF panel.mounted THEN FALSE ELSE @]
    /\ UNCHANGED <<host, waits, readers>>

ComeBack ==
    /\ ~panel.active
    /\ IF panel.mounted /\ ~panel.loading /\ readers["resumed"].at = "idle"
       THEN /\ panel' = [panel EXCEPT !.active = TRUE, !.loading = TRUE]
            /\ StatusReaderTo("resumed", "asked")
       ELSE panel' = [panel EXCEPT !.active = TRUE] /\ UNCHANGED readers
    /\ UNCHANGED <<host, waits, stirs>>

\* dispose
Leave ==
    /\ Stir /\ panel.mounted /\ panel.epoch < MaxEpochs
    /\ panel' = [panel EXCEPT !.mounted = FALSE, !.stop = TRUE, !.epoch = @ + 1]
    /\ UNCHANGED <<host, waits, readers>>

WaitStep(e) ==
    HostAnswersPost(e) \/ ActionAccepted(e) \/ AskAgain(e) \/ HostAnswersWait(e)
    \/ WaitHears(e)
ReaderStep(r) == HostAnswersReader(r) \/ ReaderHears(r) \/ EndReader(r)

SystemNext ==
    \/ OtherBegins \/ HostEnds
    \/ PressAction \/ StopWaiting \/ SendCommand \/ CommandReturns
    \/ BeginPoll \/ GoInactive \/ ComeBack \/ Leave
    \/ \E e \in Epochs : WaitStep(e)
    \/ \E r \in StatusReaders : BeginRefresh(r) \/ ReaderStep(r)

\* Requests time out, and the timer polls again.
SystemFairness ==
    /\ WF_appSystemVars(BeginPoll) /\ WF_appSystemVars(CommandReturns)
    /\ \A e \in Epochs : WF_appSystemVars(WaitStep(e))
    /\ \A r \in StatusReaders : WF_appSystemVars(ReaderStep(r))

SystemSpec == SystemInit /\ [][SystemNext]_appSystemVars /\ SystemFairness

-----------------------------------------------------------------------------

SystemTypeOK ==
    /\ host \in Operation /\ panel.shown \in Operation
    /\ panel.epoch \in 0..MaxEpochs /\ panel.ignored \in 0..MaxHostOps
    /\ \A e \in Epochs : waits[e].at \in WaitPcs /\ waits[e].got \in Operation
    /\ \A r \in StatusReaders : readers[r].at \in StatusReaderPcs

\* While the screen says it waits, a call of the current epoch is there to
\* clear that, and the operation is shown as active, so that no button offers
\* another one, whatever late answer was recorded (_recordLauncherStatus).
WaitsAreReal ==
    panel.mounted /\ panel.waiting =>
       /\ panel.epoch \in Epochs
       /\ waits[panel.epoch].at \in {"looping", "asked", "answered"}
       /\ IsActive(panel.shown)

\* Once the host is idle and the screen stays, the screen neither waits nor
\* shows an active operation (_recordLauncherStatus, _followLauncherOperation).
OperationSettles ==
    <>[](panel.mounted /\ panel.active /\ ~IsActive(host)) =>
       <>[](~panel.waiting /\ ~IsActive(panel.shown))
=============================================================================
