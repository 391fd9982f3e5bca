-------------------------------- MODULE Handover --------------------------------
(***************************************************************************)
(* KeepMailboxOpenTask (src/Imap/Tasks/KeepMailboxOpenTask.cpp) as the     *)
(* keeper of a connection: it lets the tasks of the user run, a few at a   *)
(* time, puts IDLE between them, and at last hands the connection over to  *)
(* another mailbox, closes a mailbox which is to be deleted, or logs out.  *)
(* The model starts when the mailbox has been synchronized (perform()) and *)
(* ends when the next one is SELECTed; what the responses mean for the     *)
(* list of messages is in KeepOpen.                                        *)
(***************************************************************************)
EXTENDS Idle

CONSTANTS
    PartTasks,               \* asked for by requestPartDownload() first
    limitActiveTasks,        \* active tasks of a connection, this one included
    limitParallelFetchTasks,
    Endings                  \* what else the user may do: "switch", "delete", "offline"

ASSUME HandoverAssumption ==
    /\ PartTasks \subseteq Tasks \ AnyTasks
    /\ limitActiveTasks \in Nat \ {0, 1}
    /\ limitParallelFetchTasks \in Nat \ {0}
    /\ Endings \subseteq {"switch", "delete", "offline"}

vars == <<client, toServer, toClient, server>>

Events == {"executeCommands", "responseReceived", "slotActivateTasks",
           "slotTaskDeleted", "terminate"}

-----------------------------------------------------------------------------
\* The state after perform() with IDLE among the capabilities.
Init ==
    /\ client =
         [cmdQueue |-> <<>>, idling |-> FALSE, waitForInitialIdle |-> FALSE,
          waitingForContinuation |-> FALSE, literalCommandTag |-> NoTag,
          respQueue |-> <<>>, posted |-> <<>>, handler |-> "none",
          launcher |-> "alive", mIdling |-> FALSE, idleCommandRunning |-> FALSE,
          delayedEnter |-> "started", renewal |-> "stopped",
          tagIdle |-> FALSE, tagClose |-> FALSE, shouldRunIdle |-> TRUE,
          depending |-> <<>>, dependingAny |-> <<>>, requested |-> <<>>,
          fetchTimer |-> TRUE, fetching |-> {}, running |-> {}, active |-> {},
          arrivals |-> {}, shouldExit |-> FALSE, obtaining |-> FALSE,
          deleting |-> "no", aborted |-> FALSE, isRunning |-> "RUNNING",
          finished |-> FALSE, present |-> TRUE, logout |-> FALSE, online |-> TRUE,
          asked |-> {}, answered |-> {}, failed |-> {}]
    /\ toServer = <<>> /\ toClient = <<>>
    /\ server = [idling |-> FALSE, working |-> {}, announced |-> {}, selected |-> TRUE]

-----------------------------------------------------------------------------
(* Questions KeepMailboxOpenTask asks itself                                *)
canRunIdleRightNow(c) ==
    /\ c.shouldRunIdle
    /\ c.depending = <<>> /\ c.dependingAny = <<>> /\ c.arrivals = {}
    /\ c.active = {}

\* Mutant: the answer to IDLE is not waited for.
PendingWithoutIdle(c) ==
    \/ c.depending # <<>> \/ c.dependingAny # <<>> \/ c.running # {}
    \/ c.requested # <<>> \/ c.arrivals # {}

hasPendingInternalActions(c) ==
    \/ c.depending # <<>> \/ c.dependingAny # <<>> \/ c.running # {}
    \/ c.requested # <<>> \/ c.arrivals # {}
    \/ c.launcher # "none" /\ c.idleCommandRunning

isReadyToTerminate(c) == c.shouldExit /\ ~hasPendingInternalActions(c)

(* Its methods                                                              *)
Activate(c) == Post(c, "slotActivateTasks", NoTag)

\* addDependentTask() for a task of the user.
addDependentTask(c, t) ==
    LET d == breakOrCancelPossibleIdle(c)
    IN Activate(IF t \in AnyTasks THEN [d EXCEPT !.dependingAny = Append(@, t)]
                ELSE [d EXCEPT !.depending = Append(@, t)])

Smaller(m, n) == IF m < n THEN m ELSE n

\* slotFetchRequestedParts(), and slotFetchRequestedEnvelopes(): a task for each
\* request, as many as may run, all of them when the mailbox is to be left.
slotFetchRequestedParts(c) ==
    IF c.requested = <<>> THEN c
    ELSE LET d == breakOrCancelPossibleIdle(c)
             room == IF c.shouldExit \/ limitParallelFetchTasks < Cardinality(c.fetching)
                     THEN IF c.shouldExit THEN Len(c.requested) ELSE 0
                     ELSE Smaller(Len(c.requested),
                                  limitParallelFetchTasks - Cardinality(c.fetching))
             now == SubSeq(c.requested, 1, room)
         IN [d EXCEPT !.requested = SubSeq(@, room + 1, Len(@)),
                      !.fetching = @ \cup ToSet(now),
                      !.depending = @ \o now,
                      !.posted = @ \o [i \in 1 .. room |->
                                       [event |-> "slotActivateTasks", task |-> NoTag]]]

\* perform() of the first tasks of a list.
Perform(c, now) ==
    [c EXCEPT !.active = @ \cup ToSet(now),
              !.running = @ \cup (ToSet(now) \ AnyTasks),
              !.cmdQueue = @ \o [i \in DOMAIN now |->
                  Cmd(now[i], IF now[i] \in LiteralTasks THEN "LITERAL" ELSE "ATOM")],
              !.posted = @ \o [i \in DOMAIN now |->
                               [event |-> "executeCommands", task |-> NoTag]]]

Room(c, list) ==
    Smaller(Len(list), IF limitActiveTasks - 1 > Cardinality(c.active)
                       THEN limitActiveTasks - 1 - Cardinality(c.active) ELSE 0)

\* The two loops of activateTasks().
StartTasks(c) ==
    LET n == Room(c, c.depending)
        d == [Perform(c, SubSeq(c.depending, 1, n))
              EXCEPT !.depending = SubSeq(@, n + 1, Len(@))]
        m == Room(d, d.dependingAny)
    IN [Perform(d, SubSeq(d.dependingAny, 1, m))
        EXCEPT !.dependingAny = SubSeq(@, m + 1, Len(@))]

closeMailboxDestructively(c) ==
    [queueCommand(c, Cmd("CLOSE", "ATOM")) EXCEPT !.tagClose = TRUE]

activateTasks(c) ==
    LET idleBroken == breakOrCancelPossibleIdle(c)
        started == StartTasks(slotFetchRequestedParts(idleBroken))
    IN IF c.isRunning # "RUNNING" THEN c
       ELSE IF c.deleting # "no" THEN closeMailboxDestructively(idleBroken)
       ELSE IF started.launcher # "none" /\ canRunIdleRightNow(started)
       THEN enterIdleLater(started)
       ELSE started

\* abort(): nothing of this task may use the connection any longer, and neither
\* the mailbox nor the connection is its own.
abort(c) == [die(c) EXCEPT !.aborted = TRUE]

\* terminate(): the connection goes to the mailbox which waits for it. With
\* [CLOSED] to come this task still takes the responses for its mailbox.
terminate(c) ==
    LET quiet == Check(abort(c), "terminate",
                       /\ c.depending = <<>> /\ c.dependingAny = <<>>
                       /\ c.requested = <<>> /\ c.running = {})
        stopped == [quiet EXCEPT !.shouldRunIdle = FALSE, !.isRunning = "NOT_ANYMORE",
                                 !.finished = ~(c.obtaining /\ SaysClosed)]
    IN IF c.aborted THEN c
       ELSE IF c.obtaining
       THEN [queueCommand(stopped, Cmd("SELECT", "ATOM"))
             EXCEPT !.obtaining = FALSE, !.active = @ \cup {"SELECT"}]
       ELSE Check(stopped, "terminate dependentTasks", c.deleting # "waiting")

\* Mutant: when a task ends the next ones are not started.
TaskDeletedAlone(c, t) ==
    LET d == [c EXCEPT !.running = @ \ {t}, !.fetching = @ \ {t}]
    IN IF c.finished THEN c
       ELSE IF isReadyToTerminate(d) THEN terminate(d)
       ELSE IF canRunIdleRightNow(d) /\ d.launcher # "none" THEN enterIdleLater(d)
       ELSE d

slotTaskDeleted(c, t) ==
    LET d == [c EXCEPT !.running = @ \ {t}, !.fetching = @ \ {t}]
    IN IF c.finished THEN c
       ELSE activateTasks(
              IF isReadyToTerminate(d) THEN terminate(d)
              ELSE IF canRunIdleRightNow(d) THEN enterIdleLater(d)
              ELSE d)

-----------------------------------------------------------------------------
(* Responses: Model::responseReceived()                                     *)

\* killParser() after an exception.
Kill(c, reason) ==
    [c EXCEPT !.online = FALSE, !.launcher = "none", !.posted = <<>>,
              !.respQueue = <<>>, !.failed = @ \cup {reason}]

\* Mutant: IDLE is no task, and nobody looks whether it was the last to be waited for.
IdleAnsweredOnly(c, kind) ==
    IF kind = "OK"
    THEN LET completed == idleCommandCompleted(c)
             d == IF canRunIdleRightNow(completed) THEN enterIdleLater(completed)
                  ELSE completed
         IN [d EXCEPT !.tagIdle = FALSE]
    ELSE [idleCommandFailed(c) EXCEPT !.shouldRunIdle = FALSE, !.launcher = "none",
                                      !.mIdling = FALSE, !.tagIdle = FALSE]

\* The tagged response to IDLE.
IdleAnswered(c, kind) ==
    LET completed == idleCommandCompleted(c)
        d == IF kind = "OK"
             THEN IF canRunIdleRightNow(completed) THEN enterIdleLater(completed)
                  ELSE completed
             ELSE [idleCommandFailed(c) EXCEPT !.shouldRunIdle = FALSE,
                                               !.launcher = "none", !.mIdling = FALSE]
        e == [d EXCEPT !.tagIdle = FALSE]
    IN IF isReadyToTerminate(e) THEN terminate(e) ELSE e

\* The tagged response to UID FETCH of new arrivals.
ArrivalsAnswered(c, f) == slotTaskDeleted([c EXCEPT !.arrivals = @ \ {f}], NoTag)

\* The tagged response to CLOSE: DeleteMailboxTask::perform(), then terminate().
CloseAnswered(c) ==
    terminate([queueCommand(c, Cmd("DELETE", "ATOM"))
               EXCEPT !.tagClose = FALSE, !.deleting = "performed",
                      !.active = @ \cup {"DELETE"}])

\* EXISTS: IDLE is broken, UIDs are asked for.
Arrived(c, f) ==
    [queueCommand(breakOrCancelPossibleIdle(c), Cmd(f, "ATOM"))
     EXCEPT !.arrivals = @ \cup {f}]

Tagged(r) == r.kind \in {"OK", "NO"}

\* Whether KeepMailboxOpenTask takes the response, and what it does.
KeepTakes(c, r) ==
    /\ c.present
    /\ \/ Tagged(r) /\ r.tag = "IDLE" /\ c.tagIdle
       \/ Tagged(r) /\ r.tag \in c.arrivals
       \/ Tagged(r) /\ r.tag = "CLOSE" /\ c.tagClose
       \/ r.kind = "CLOSED"
       \/ /\ r.kind = "EXISTS"
          /\ c.isRunning = "NOT_ANYMORE" => ~c.finished

KeepHandles(c, r) ==
    CASE r.kind = "CLOSED" -> [c EXCEPT !.finished = TRUE]
      [] r.kind = "EXISTS" ->
           IF c.logout \/ c.isRunning = "NOT_ANYMORE" THEN c ELSE Arrived(c, r.tag)
      [] Tagged(r) /\ r.tag = "IDLE" -> IdleAnswered(c, r.kind)
      [] Tagged(r) /\ r.tag = "CLOSE" -> CloseAnswered(c)
      [] OTHER -> ArrivalsAnswered(c, r.tag)

\* An active task takes its tagged response and is finished; it is deleted later.
TaskHandles(c, t) ==
    Post([c EXCEPT !.active = @ \ {t}, !.answered = @ \cup {t}], "slotTaskDeleted", t)

\* What no task takes comes to the Model.
ModelHandles(c, r) ==
    IF c.logout
    THEN IF r.tag = "LOGOUT"
         THEN [c EXCEPT !.online = FALSE, !.posted = <<>>, !.respQueue = <<>>]
         ELSE c
    ELSE IF Tagged(r) THEN Kill(c, "CantHappen")
    ELSE IF r.kind = "EXISTS" /\ "SELECT" \in c.active THEN c  \* for the next mailbox
    ELSE IF r.kind \in {"EXISTS", "BAD"} THEN Kill(c, "UnexpectedResponse")
    ELSE c

Handled(c, r) ==
    IF KeepTakes(c, r) THEN KeepHandles(c, r)
    ELSE IF Tagged(r) /\ r.tag \in c.active THEN TaskHandles(c, r.tag)
    ELSE ModelHandles(c, r)

\* A finished KeepMailboxOpenTask is removed after a response, with its launcher.
Removed(c) ==
    IF c.finished THEN [c EXCEPT !.present = FALSE, !.launcher = "none"] ELSE c

\* One response per step.
responseReceived ==
    /\ Handling("responseReceived")
    /\ UNCHANGED <<toServer, toClient, server>>
    /\ IF Taken.respQueue = <<>>
       THEN client' = [Taken EXCEPT !.handler = "none"]
       ELSE LET r == Head(client.respQueue)
                next == Removed(Handled([Taken EXCEPT !.respQueue = Tail(@)], r))
            IN client' = [next EXCEPT !.handler =
                              IF next.respQueue # <<>> THEN "responseReceived" ELSE "none"]

-----------------------------------------------------------------------------
(* Posted events and timers                                                 *)
Unwired == UNCHANGED <<toServer, toClient, server>>

slotActivateTasks ==
    /\ Handling("slotActivateTasks")
    /\ client' = activateTasks(Taken)
    /\ Unwired

TaskDeleted ==
    /\ Handling("slotTaskDeleted")
    /\ client' = slotTaskDeleted(Taken, Head(client.posted).task)
    /\ Unwired

Terminate ==
    /\ Handling("terminate")
    /\ client' = terminate(Taken)
    /\ Unwired

FetchTimeout ==
    /\ Resting /\ client.online /\ client.fetchTimer
    /\ client' = slotFetchRequestedParts([client EXCEPT !.fetchTimer = FALSE])
    /\ Unwired

-----------------------------------------------------------------------------
(* The user.  Tasks come to this KeepMailboxOpenTask as long as mailbox and *)
(* connection name it as their maintainingTask.                             *)
Maintains ==
    /\ Resting /\ client.online
    /\ ~client.logout /\ ~client.aborted

AddTask(t) ==
    /\ Maintains
    /\ t \notin client.asked \cup PartTasks
    /\ client' = [addDependentTask(client, t) EXCEPT !.asked = @ \cup {t}]
    /\ Unwired

requestPartDownload(t) ==
    /\ Maintains
    /\ t \in PartTasks \ client.asked
    /\ client' = [client EXCEPT !.requested = Append(@, t), !.fetchTimer = TRUE,
                                !.asked = @ \cup {t}]
    /\ Unwired

\* addDependentTask() for the ObtainSynchronizedMailboxTask of another mailbox.
SwitchMailbox ==
    /\ "switch" \in Endings
    /\ Maintains /\ ~client.obtaining
    /\ LET c == slotFetchRequestedParts(
                   [breakOrCancelPossibleIdle(client) EXCEPT !.obtaining = TRUE,
                                                             !.shouldExit = TRUE])
       IN client' = IF hasPendingInternalActions(c) THEN c ELSE Post(c, "terminate", NoTag)
    /\ Unwired

\* addDependentTask() for the DeleteMailboxTask of this mailbox; with something
\* pending it is refused.
DeleteMailbox ==
    /\ "delete" \in Endings
    /\ Maintains /\ client.deleting = "no"
    /\ LET c == breakOrCancelPossibleIdle(client)
       IN client' = IF hasPendingInternalActions(c) THEN c
                    ELSE Activate([c EXCEPT !.deleting = "waiting", !.shouldExit = TRUE])
    /\ Unwired

\* Model::setNetworkPolicy(NETWORK_OFFLINE): stopForLogout(), all tasks die, and
\* LOGOUT is queued. Tasks which have died are answered: they have failed.
GoOffline ==
    /\ "offline" \in Endings
    /\ Resting /\ client.online /\ ~client.logout
    /\ LET c == IF client.aborted THEN client
                ELSE breakOrCancelPossibleIdle(abort(client))
       IN client' = [queueCommand(c, Cmd("LOGOUT", "ATOM"))
                     EXCEPT !.logout = TRUE, !.shouldExit = TRUE, !.finished = TRUE,
                            !.depending = <<>>, !.dependingAny = <<>>,
                            !.requested = <<>>, !.active = {}, !.obtaining = FALSE,
                            !.answered = @ \cup client.asked]
    /\ Unwired

\* The model ends when the connection is lost or belongs to another mailbox.
Ended ==
    /\ \/ ~Sound \/ ~client.online
       \/ Resting /\ client.finished /\ client.posted = <<>> /\ toServer = <<>> /\ toClient = <<>>
    /\ UNCHANGED vars

-----------------------------------------------------------------------------
\* Where each of the actions which need fairness can be taken.
CanRun == Sound /\ (client.handler # "none" \/ client.posted # <<>>)
CanRead == Resting /\ client.online /\ toClient # <<>>
CanElapse == /\ Resting /\ client.posted = <<>> /\ ~client.fetchTimer
             /\ "started" \in {client.delayedEnter, client.renewal}
CanEnter == Resting /\ client.launcher = "alive" /\ client.delayedEnter = "due"
CanRenew == Resting /\ client.launcher = "alive" /\ client.renewal = "due"
CanFetch == Resting /\ client.online /\ client.fetchTimer
CanServe == /\ Serving /\ toServer # <<>>
            /\ LET line == Head(toServer)
               IN IF line.kind = "DONE" THEN TRUE
                  ELSE ~server.idling
                       /\ (line.tag \in {"SELECT", "CLOSE"} => server.working \subseteq AnyTasks)
CanAnswer == Serving /\ server.working # {}

ClientStep ==
    \/ executeCommands \/ responseReceived
    \/ slotActivateTasks \/ TaskDeleted \/ Terminate

Timeout == Elapse \/ slotEnterIdleNow \/ slotTerminateLongIdle \/ FetchTimeout

User ==
    \/ \E t \in Tasks : AddTask(t) \/ requestPartDownload(t)
    \/ SwitchMailbox \/ DeleteMailbox \/ GoOffline

Next == ClientStep \/ handleReadyRead \/ Timeout \/ User \/ ServerActs \/ Ended

Spec == Init /\ [][Next]_vars

\* The event loop runs, timers fire, the network delivers, the server reads and
\* answers; nobody has to want anything. This is weak fairness of each action,
\* written with its guard: TLC is slow to evaluate ENABLED of a whole handler.
Fairness ==
    /\ []<>~CanRun \/ []<><<ClientStep>>_vars
    /\ []<>~CanRead \/ []<><<handleReadyRead>>_vars
    /\ []<>~CanElapse \/ []<><<Elapse>>_vars
    /\ []<>~CanEnter \/ []<><<slotEnterIdleNow>>_vars
    /\ []<>~CanRenew \/ []<><<slotTerminateLongIdle>>_vars
    /\ []<>~CanFetch \/ []<><<FetchTimeout>>_vars
    /\ []<>~CanServe \/ []<><<ServerReads>>_vars
    /\ []<>~CanAnswer \/ []<><<ServerAnswers>>_vars

FairSpec == Spec /\ Fairness

-----------------------------------------------------------------------------
(* Properties.  A failed assertion or an exception is recorded in "failed"  *)
(* and ends the model: some properties say which may fail, the others speak *)
(* of states before.                                                        *)

KindsOf(s) == {s[i].kind : i \in DOMAIN s}
Occurrences(s, tag) == Cardinality({i \in DOMAIN s : s[i].tag = tag})

Booleans == {"idling", "waitForInitialIdle", "waitingForContinuation", "mIdling",
             "idleCommandRunning", "tagIdle", "tagClose",
             "shouldRunIdle", "fetchTimer", "shouldExit", "obtaining", "aborted",
             "finished", "present", "logout", "online"}

\* Every field of the objects has its type, and the queues hold what the code
\* puts into them.
TypeOK ==
    /\ \A b \in Booleans : client[b] \in BOOLEAN
    /\ client.cmdQueue \in Seq(Command) /\ client.respQueue \in Seq(Response)
    /\ client.posted \in Seq([event : Events, task : Tag \cup {NoTag}])
    /\ client.handler \in {"none", "executeCommands", "responseReceived"}
    /\ client.launcher \in Launcher
    /\ client.delayedEnter \in Timer /\ client.renewal \in Timer
    /\ client.literalCommandTag \in Tag \cup {NoTag}
    /\ client.isRunning \in {"RUNNING", "NOT_ANYMORE"}
    /\ client.deleting \in {"no", "waiting", "performed"}
    /\ client.depending \in Seq(Tasks \ AnyTasks) /\ client.dependingAny \in Seq(AnyTasks)
    /\ client.requested \in Seq(PartTasks) /\ client.fetching \subseteq PartTasks
    /\ client.running \subseteq Tasks \ AnyTasks /\ client.active \subseteq Tag
    /\ client.arrivals \subseteq Arrivals
    /\ client.asked \subseteq Tasks /\ client.answered \subseteq Tag
    /\ toServer \in Seq(Line) /\ toClient \in Seq(Response)
    /\ server.idling \in BOOLEAN /\ server.selected \in BOOLEAN
    /\ server.working \subseteq Tag /\ server.announced \subseteq Arrivals

\* RFC 2177: a server in IDLE is told nothing but DONE, whatever order tasks,
\* timers, arrivals and the tagged response to IDLE come in.
IdlingServerGetsDone ==
    server.idling /\ toServer # <<>> => Head(toServer).kind = "DONE"

\* Whether IDLE runs in the end, when the queue has been executed.
WillIdle(c) ==
    LET ofIdle == {i \in DOMAIN c.cmdQueue : c.cmdQueue[i].kind \in {"IDLE", "IDLE_DONE"}}
    IN IF ofIdle = {} THEN c.idling
       ELSE \E i \in ofIdle : c.cmdQueue[i].kind = "IDLE" /\ \A j \in ofIdle : j <= i

\* m_idling of IdleLauncher is true just when the Parser idles, or is going to,
\* and DONE is not queued: the flags of the two objects never disagree.
LauncherKnowsParser ==
    Sound /\ client.launcher # "none" => (client.mIdling <=> WillIdle(client))

\* No work waits for the end of an IDLE nobody has asked to end: as soon as
\* there is a task or a new arrival, DONE is on its way, what the launcher
\* thinks of IDLE is what the Parser is going to do, and nothing but DONE is said to
\* a server in IDLE (finishIdle(), executeACommand()).
IdleGivesWay ==
    /\ IdlingServerGetsDone /\ LauncherKnowsParser
    /\ Sound /\ client.mIdling =>
        /\ client.depending = <<>> /\ client.dependingAny = <<>>
        /\ client.active = {} /\ client.arrivals = {}

Awaited(event) ==
    \/ client.handler = event
    \/ \E i \in DOMAIN client.posted : client.posted[i].event = event

\* Whenever the queue of commands may go on, an event which makes it go on is
\* posted, and so for the queue of responses: no flag is reset silently.
NoLostWakeup ==
    Sound /\ client.online =>
        /\ MayExecute(client) => Awaited("executeCommands")
        /\ client.respQueue # <<>> => Awaited("responseReceived")

\* Every running task has one command, or one answer to it, in one place between
\* the queue and the Model: none is lost or sent twice. Only a command whose
\* literal is refused is in the queue until the NO arrives.
OneCommandEach ==
    LET refused(t) == Say("NO", t) \in ToSet(toClient)
    IN Sound /\ client.online => \A t \in client.active :
        1 = (IF refused(t) THEN 0 ELSE Occurrences(client.cmdQueue, t))
            + Cardinality({i \in DOMAIN toServer :
                             toServer[i].tag = t /\ toServer[i].kind # "size"})
            + Cardinality({t} \cap server.working)
            + Occurrences(toClient, t) + Occurrences(client.respQueue, t)

\* SELECT of the next mailbox is not queued before all commands which tasks
\* have sent about this one are answered, and never into an IDLE.
SelectComesAlone ==
    Sound /\ client.online /\ "SELECT" \in client.active =>
        /\ client.running = {} /\ client.active \cap (Tasks \ AnyTasks) = {}
        /\ ~server.idling /\ "IDLE" \notin KindsOf(client.cmdQueue) \cup KindsOf(toServer)

\* What the code meets in spite of its assertions: the four properties below, and
\* an untagged BAD or EXISTS which no task takes.
KnownFailures == {"idleCommandFailed", "terminate", "terminate dependentTasks",
                  "CantHappen", "UnexpectedResponse"}

\* No other assertion of Parser, IdleLauncher and KeepMailboxOpenTask fails and no
\* other exception is thrown, in whatever order tasks, timers and responses come:
\* nothing but DONE is written into IDLE, one literal waits at a time, "+" is due.
AssertionsHold == client.failed \cap KnownFailures = {} => Sound

\* IdleLauncher::idleCommandFailed(): when IDLE is refused nobody has ended it yet.
IdleFailsInOrder == "idleCommandFailed" \notin client.failed

\* terminate(): a KeepMailboxOpenTask which gives the connection away has no task
\* left that waits, runs or is to be made.
TerminatesIdle == "terminate" \notin client.failed

\* terminate(): with no mailbox to follow there are no dependent tasks either, the
\* DeleteMailboxTask included.
TerminatesWithoutDependents == "terminate dependentTasks" \notin client.failed

\* Model::handleState(): every tagged response finds the task which asked for it.
EveryAnswerHasItsTask == "CantHappen" \notin client.failed

\* What the user asks for is answered in the end, behind IDLE, literals and
\* limits on parallel tasks too.
EveryTaskAnswered ==
    \A t \in Tasks : t \in client.asked ~> t \in client.answered \/ ~Sound

\* A switch to another mailbox gets the connection in the end.
SwitchHappens == client.obtaining ~> ~client.obtaining \/ ~Sound

\* LOGOUT gets through and ends the connection.
LogoutHappens == client.logout ~> ~client.online \/ ~Sound
===============================================================================
