-------------------------------- MODULE Switching --------------------------------
(***************************************************************************)
(* Several mailboxes on one connection: each is opened by a pair of a      *)
(* KeepMailboxOpenTask and an ObtainSynchronizedMailboxTask, the next one  *)
(* waits until the one before gives the connection away, and [CLOSED] says *)
(* where the responses about the next mailbox begin.  Pairs are numbered   *)
(* in the order they are made.  What a task does with its data is in       *)
(* ObtainSync and KeepOpen, IDLE and the limits of parallel tasks are in   *)
(* Handover; here mailboxes do not disappear from the tree.                *)
(***************************************************************************)
EXTENDS Naturals, Sequences, FiniteSets, SequencesExt, FiniteSetsExt

CONSTANTS
    Mailboxes,
    Servers,        \* "always": says [CLOSED], "forgets" it, or "no": has no QRESYNC
    Refusals,       \* commands the server may refuse
    MaxOpened,      \* bound on the pairs of tasks
    MaxCommands,    \* bound on the commands of the user
    MaxAnnounced    \* bound on the messages that arrive

ASSUME SwitchingAssumption ==
    /\ Servers \subseteq {"always", "forgets", "no"}
    /\ Refusals \subseteq {"SELECT", "UID SEARCH", "UID FETCH"}
    /\ {MaxOpened, MaxCommands, MaxAnnounced} \subseteq Nat

VARIABLES
    client,   \* the tasks, and the ParserState of the connection
    toServer, toClient,
    server

vars == <<client, toServer, toClient, server>>

NoTask == 0
NoMailbox == "none"
Tasks == 1 .. MaxOpened

\* A KeepMailboxOpenTask and its synchronizeConn, when they are made.
NewTask(m) ==
    [mailbox |-> m, obtain |-> "WAIT_FOR_CONN", isRunning |-> "NOT_YET",
     shouldExit |-> FALSE, aborted |-> FALSE, finished |-> FALSE, dead |-> FALSE,
     waiting |-> <<>>,      \* waitingObtainTasks
     depending |-> 0,       \* dependingTasksForThisMailbox
     busy |-> 0,            \* runningTasksForThisMailbox
     arrivals |-> 0,        \* newArrivalsFetch
     successor |-> NoTask]  \* whose failed() calls finalizeTermination() of this one

Init ==
    /\ client = [tasks |-> <<>>, active |-> <<>>, connState |-> "AUTHENTICATED",
                 maintaining |-> NoTask, inCharge |-> [m \in Mailboxes |-> NoTask],
                 posted |-> <<>>, queue |-> <<>>, killed |-> FALSE, asserted |-> FALSE,
                 commands |-> 0]
    /\ toServer = <<>> /\ toClient = <<>>
    /\ \E s \in Servers : 
          server = [kind |-> s, selected |-> NoMailbox, refused |-> {}, announced |-> 0]

Sound == ~client.killed /\ ~client.asserted

-----------------------------------------------------------------------------
(* Helpers                                                                  *)

\* What stands in these places of a list, in its order.
Kept(list, places) ==
    [k \in 1 .. Cardinality(places) |->
        list[CHOOSE i \in places : Cardinality({j \in places : j <= i}) = k]]
Times(n, x) == [i \in 1 .. n |-> x]

Obtained(t) == t.obtain \in {"completed", "failed"}

Post(c, event, k) == [c EXCEPT !.posted = Append(@, [event |-> event, of |-> k])]

queueCommand(c, kind, k) ==
    Post([c EXCEPT !.queue = Append(@, [kind |-> kind, task |-> k])],
         "executeCommands", NoTask)

Check(c, condition) == [c EXCEPT !.asserted = @ \/ ~condition]

Kill(c) == [c EXCEPT !.killed = TRUE]

\* markAsActiveTask(), with the keepers that are told when the task is destroyed.
markAsActiveTask(c, kind, k, watchers) ==
    [c EXCEPT !.active = Append(@, [kind |-> kind, task |-> k,
                 watchers |-> (watchers \cup {c.maintaining})
                                 \ (IF kind = "keep" THEN {NoTask, k} ELSE {NoTask})])]

detachFromMailbox(c, ks) ==
    [c EXCEPT !.inCharge = [m \in Mailboxes |-> IF @[m] \in ks THEN NoTask ELSE @[m]],
              !.maintaining = IF @ \in ks THEN NoTask ELSE @]

hasPendingInternalActions(t) == t.depending > 0 \/ t.busy > 0 \/ t.arrivals > 0

isReadyToTerminate(t) == t.shouldExit /\ ~hasPendingInternalActions(t) /\ Obtained(t)

-----------------------------------------------------------------------------
(* How tasks fail                                                           *)

WaitFor(c, k) == {w \in ToSet(c.tasks[k].waiting) : ~Obtained(c.tasks[w])}
Tells(t) == ~t.shouldExit /\ ~t.finished

\* The pairs that die with k: those that wait for it, and for them, as long as a
\* keeper which is to give the connection away does not keep it to itself.
Doomed(c, k) ==
    LET Complete(S) == \A j \in S : Tells(c.tasks[j]) => WaitFor(c, j) \subseteq S
    IN {w \in DOMAIN c.tasks :
          \A S \in SUBSET DOMAIN c.tasks :
             WaitFor(c, k) \subseteq S /\ Complete(S) => w \in S}

\* A pair that dies, and a keeper that ends when it is told so.
Dead(t) == [t EXCEPT !.obtain = "failed", !.dead = TRUE, !.finished = TRUE]
Ends(t, told) == [t EXCEPT !.finished = @ \/ told]

\* _failed() of a keeper: killAllPendingTasks(), then failed().
Failed(c, k) ==
    LET doomed == Doomed(c, k)
        failing == {k} \cup {w \in doomed : Tells(c.tasks[w])}
    IN detachFromMailbox(
         [c EXCEPT !.tasks = [i \in DOMAIN c.tasks |->
            IF i \in doomed THEN Dead(c.tasks[i])
            ELSE Ends(c.tasks[i], i = k \/ c.tasks[i].successor \in failing)]], doomed)

\* die() of a keeper; one that is to exit does not fail, and tells nobody.
KeepDies(c, k) ==
    LET t == c.tasks[k]
        d == IF t.shouldExit \/ t.finished THEN [c EXCEPT !.tasks[k].finished = TRUE]
             ELSE Failed(c, k)
    IN detachFromMailbox([d EXCEPT !.tasks[k].dead = TRUE], {k})

\* _failed() of the ObtainSynchronizedMailboxTask: its keeper dies.
ObtainFails(c, k) == KeepDies([c EXCEPT !.tasks[k].obtain = "failed"], k)

-----------------------------------------------------------------------------
(* How the connection goes from one keeper to the next                      *)

\* Mutant of Obtain: it never waits for [CLOSED].
ObtainAtOnce(c, k) ==
    LET d == queueCommand(markAsActiveTask(c, "obtain", k, {k}), "SELECT", k)
    IN [d EXCEPT !.tasks[k].obtain = "SELECTING", !.connState = "SELECTING"]

\* ObtainSynchronizedMailboxTask::perform()
Obtain(c, k) ==
    LET d == queueCommand(markAsActiveTask(c, "obtain", k, {k}), "SELECT", k)
    IN [d EXCEPT !.tasks[k].obtain = "SELECTING",
                 !.connState = IF server.kind # "no" /\ @ # "AUTHENTICATED"
                               THEN "WAIT_FOR_CLOSE" ELSE "SELECTING"]

slotPerformConnection(c, k) ==
    LET d == Check(c, ~Obtained(c.tasks[k]))
    IN IF d.asserted THEN d
       ELSE IF d.tasks[k].dead
       THEN [Failed(d, k) EXCEPT !.tasks[k].obtain = "failed"]
       ELSE Obtain(d, k)

\* terminate(): the keeper does nothing more for its mailbox.
Quiet(c, k) ==
    [detachFromMailbox(Check(c, c.tasks[k].depending = 0 /\ c.tasks[k].busy = 0), {k})
     EXCEPT !.tasks[k].aborted = TRUE, !.tasks[k].isRunning = "NOT_ANYMORE"]

\* Mutant of GivesAway: only the first of those that wait is remembered.
GivesAwayToOne(c, k, first) ==
    [Quiet(c, k) EXCEPT !.tasks[k].waiting = Tail(@), !.tasks[k].successor = first,
                        !.maintaining = first]

\* The first that waits becomes the maintainingTask, and the others wait for it.
GivesAway(c, k, first) ==
    LET quiet == Quiet(c, k)
        others == Tail(c.tasks[k].waiting)
    IN [quiet EXCEPT !.tasks = [quiet.tasks EXCEPT ![k].waiting = others, ![k].successor = first,
                                                   ![first].waiting = others \o @],
                     !.maintaining = first]

\* terminate(): with [CLOSED] to come this task stays, for the responses to its mailbox.
terminate(c, k) ==
    LET waiting == c.tasks[k].waiting
        next == IF waiting = <<>> THEN Quiet(c, k)
                ELSE slotPerformConnection(GivesAway(c, k, Head(waiting)), Head(waiting))
    IN IF c.tasks[k].aborted THEN c
       ELSE [next EXCEPT !.tasks[k].finished = @ \/ next.connState # "WAIT_FOR_CLOSE"]

\* The tasks of the user which depend on the keeper are performed.
StartAll(c, k) ==
    LET n == c.tasks[k].depending
        entry == [kind |-> "command", task |-> k,
                  watchers |-> {k, c.maintaining} \ {NoTask}]
    IN [c EXCEPT !.tasks[k].depending = 0, !.tasks[k].busy = @ + n,
                 !.active = @ \o Times(n, entry),
                 !.queue = @ \o Times(n, [kind |-> "STORE", task |-> k]),
                 !.posted = @ \o Times(n, [event |-> "executeCommands", of |-> NoTask])]

\* Mutant of activateTasks: it does not ask whether the mailbox is open.
activateTasksAnyway(c, k) == StartAll(c, k)

\* activateTasks(), below limitActiveTasks.
activateTasks(c, k) == IF c.tasks[k].isRunning # "RUNNING" THEN c ELSE StartAll(c, k)

slotTaskDeleted(c, k, e) ==
    LET d == IF e.kind = "command" /\ e.task = k THEN [c EXCEPT !.tasks[k].busy = @ - 1]
             ELSE c
    IN IF c.tasks[k].finished THEN c
       ELSE activateTasks(IF isReadyToTerminate(d.tasks[k]) THEN terminate(d, k) ELSE d, k)

\* ObtainSynchronizedMailboxTask::_completed(), KeepMailboxOpenTask::perform()
ObtainCompletes(c, k) ==
    LET d == [c EXCEPT !.connState = "SELECTED", !.tasks[k].obtain = "completed"]
        kept == [markAsActiveTask(d, "keep", k, {})
                 EXCEPT !.tasks[k].isRunning = "RUNNING",
                        !.tasks[k].shouldExit = @ \/ c.tasks[k].waiting # <<>>]
    IN IF c.tasks[k].finished THEN d ELSE activateTasks(kept, k)

-----------------------------------------------------------------------------
(* What is asked of the Model                                               *)

\* KeepMailboxOpenTask::addDependentTask() for the ObtainSynchronizedMailboxTask k.
addObtainTask(c, j, k) ==
    LET d == [c EXCEPT !.tasks[j].waiting = Append(@, k), !.tasks[j].shouldExit = TRUE]
    IN IF isReadyToTerminate(d.tasks[j]) THEN Post(d, "terminate", j) ELSE d

\* The keeper k is told when the active task e is destroyed.
Watched(e, k) == [kind |-> e.kind, task |-> e.task, watchers |-> e.watchers \cup {k}]

\* The constructor of KeepMailboxOpenTask on a connection that exists.
createKeepMailboxOpenTask(c, m) ==
    LET k == Len(c.tasks) + 1
        d == [c EXCEPT !.tasks = Append(@, NewTask(m)), !.inCharge[m] = k]
        e == IF c.maintaining # NoTask THEN addObtainTask(d, c.maintaining, k)
             ELSE Post([d EXCEPT !.maintaining = k], "slotPerformConnection", k)
    IN [e EXCEPT !.active = [i \in DOMAIN e.active |-> Watched(e.active[i], k)]]

findTaskResponsibleFor(c, m) ==
    IF c.inCharge[m] # NoTask THEN c ELSE createKeepMailboxOpenTask(c, m)

Unwired == UNCHANGED <<toServer, toClient, server>>

MayOpen(m) == Sound /\ (client.inCharge[m] = NoTask => Len(client.tasks) < MaxOpened)

switchToMailbox(m) ==
    /\ MayOpen(m) /\ client.inCharge[m] = NoTask
    /\ client' = findTaskResponsibleFor(client, m)
    /\ Unwired

\* A task of the user, for example UpdateFlagsTask: addDependentTask().
AddTask(m) ==
    /\ MayOpen(m) /\ client.commands < MaxCommands
    /\ LET c == findTaskResponsibleFor(client, m)
           k == c.inCharge[m]
       IN client' = Post([c EXCEPT !.tasks[k].depending = @ + 1, !.commands = @ + 1],
                         "slotActivateTasks", k)
    /\ Unwired

-----------------------------------------------------------------------------
(* Posted events                                                            *)
Dispatches(event) == Sound /\ client.posted # <<>> /\ Head(client.posted).event = event
Rest == [client EXCEPT !.posted = Tail(@)]

executeCommands ==
    /\ Dispatches("executeCommands")
    /\ client' = [Rest EXCEPT !.queue = <<>>]
    /\ toServer' = toServer \o client.queue
    /\ UNCHANGED <<toClient, server>>

SlotRuns ==
    /\ \/ /\ Dispatches("terminate")
          /\ client' = terminate(Rest, Head(client.posted).of)
       \/ /\ Dispatches("slotPerformConnection")
          /\ client' = slotPerformConnection(Rest, Head(client.posted).of)
       \/ /\ Dispatches("slotActivateTasks")
          /\ client' = activateTasks(Rest, Head(client.posted).of)
    /\ Unwired

\* deleteLater(): nothing is delivered to a destroyed keeper, nothing refers to it.
Destroyed(c, e) ==
    LET kept == {i \in DOMAIN c.posted : c.posted[i].event = "destroyed"
                                           \/ c.posted[i].of # e.task}
    IN IF e.kind # "keep" THEN c
       ELSE detachFromMailbox([c EXCEPT !.posted = Kept(@, kept)], {e.task})

\* The keepers that watch the task are told, in the order in which they were made.
Told(c, e) ==
    LET told[n \in 0 .. Len(c.tasks)] ==
            IF n = 0 THEN c
            ELSE IF n \in e.watchers THEN slotTaskDeleted(told[n - 1], n, e)
            ELSE told[n - 1]
    IN told[Len(c.tasks)]

TaskDestroyed ==
    /\ Dispatches("destroyed")
    /\ LET e == Head(client.posted).of IN client' = Told(Destroyed(Rest, e), e)
    /\ Unwired

-----------------------------------------------------------------------------
(* Responses: Model::responseReceived()                                     *)
IsData(r) == r.kind \in {"EXISTS", "FETCH"}
Tagged(r) == r.kind \in {"OK", "NO"}

\* Whether a keeper takes data which may be about another mailbox: CHECK_IS_RUNNING.
KeepTakesData(c, k) ==
    \/ c.tasks[k].dead
    \/ c.tasks[k].isRunning = "RUNNING"
    \/ c.tasks[k].isRunning = "NOT_ANYMORE" /\ c.connState = "WAIT_FOR_CLOSE"

\* Whether the active task e takes the response.
Takes(c, e, r) ==
    CASE e.kind = "obtain" ->
           IsData(r) \/ (r.of \in {"SELECT", "UID SEARCH"} /\ r.task = e.task)
      [] e.kind = "keep" ->
           IF IsData(r) THEN KeepTakesData(c, e.task)
           ELSE r.of = "UID FETCH" /\ r.task = e.task
      [] OTHER -> Tagged(r) /\ r.of = "STORE" /\ r.task = e.task

\* handleStateHelper() of ObtainSynchronizedMailboxTask. What SELECT said is enough
\* ("completed") or UID SEARCH and FETCH come first ("SYNCING").
Selected(c, k, next) ==
    IF c.connState # "SELECTING" THEN Kill(c)
    ELSE IF next = "completed" THEN ObtainCompletes(c, k)
    ELSE queueCommand([c EXCEPT !.connState = "SYNCING", !.tasks[k].obtain = "SYNCING"],
                      "UID SEARCH", k)

ObtainAnswered(c, k, r, next) ==
    IF r.of = "SELECT"
    THEN IF r.kind = "OK" THEN Selected(c, k, next)
         ELSE [ObtainFails(c, k) EXCEPT !.connState = "AUTHENTICATED"]
    ELSE IF r.kind = "OK" THEN ObtainCompletes(c, k) ELSE ObtainFails(c, k)

\* The tagged response to UID FETCH of new arrivals.
ArrivalsAnswered(c, k, r) ==
    LET d == [c EXCEPT !.tasks[k].arrivals = @ - 1]
        e == IF r.kind = "OK" THEN d ELSE Failed(d, k)
    IN slotTaskDeleted(e, k, [kind |-> "none", task |-> NoTask])

KeepHandlesData(c, k, r) ==
    IF c.tasks[k].dead THEN Failed(c, k)
    ELSE IF c.tasks[k].isRunning = "RUNNING" /\ r.kind = "EXISTS"
    THEN queueCommand([c EXCEPT !.tasks[k].arrivals = @ + 1], "UID FETCH", k)
    ELSE c

Handles(c, e, r, next) ==
    CASE e.kind = "obtain" -> IF IsData(r) THEN c ELSE ObtainAnswered(c, e.task, r, next)
      [] e.kind = "keep" -> IF IsData(r) THEN KeepHandlesData(c, e.task, r)
                            ELSE ArrivalsAnswered(c, e.task, r)
      [] OTHER -> c

\* Every keeper sees [CLOSED], for it is not taken.
Closed(c) ==
    LET keepers == {e.task : e \in {f \in ToSet(c.active) : f.kind = "keep"}}
    IN IF keepers = {} THEN c
       ELSE IF c.connState \notin {"WAIT_FOR_CLOSE", "SELECTING"} THEN Kill(c)
       ELSE [c EXCEPT !.connState = "SELECTING",
                      !.tasks = [k \in DOMAIN c.tasks |-> Ends(c.tasks[k], k \in keepers)]]

\* The index of the first active task which takes the response, or 0.
Taker(c, r) ==
    LET takers == {i \in DOMAIN c.active : Takes(c, c.active[i], r)}
    IN IF takers = {} THEN 0 ELSE Min(takers)

isFinished(c, e) ==
    CASE e.kind = "obtain" -> Obtained(c.tasks[e.task])
      [] e.kind = "keep" -> c.tasks[e.task].finished
      [] OTHER -> FALSE

\* removeDeletedTasks(): the finished tasks, and the command just answered.
removeDeletedTasks(c, answered) ==
    LET over == {i \in DOMAIN c.active : i = answered \/ isFinished(c, c.active[i])}
        deleted == Kept(c.active, over)
    IN [c EXCEPT !.active = Kept(@, DOMAIN @ \ over),
                 !.posted = @ \o [n \in DOMAIN deleted |->
                                  [event |-> "destroyed", of |-> deleted[n]]]]

\* One response; what no task takes is an error, [CLOSED] excepted.
responseReceived ==
    /\ Sound /\ toClient # <<>>
    /\ LET r == Head(toClient)
           i == Taker(client, r)
       IN IF r.kind = "CLOSED"
          THEN client' = removeDeletedTasks(Closed(client), 0)
          ELSE IF i = 0 THEN client' = Kill(client)
          ELSE LET e == client.active[i] IN
               \E next \in {"completed", "SYNCING"} :
                   client' = removeDeletedTasks(Handles(client, e, r, next),
                                                IF e.kind = "command" THEN i ELSE 0)
    /\ toClient' = Tail(toClient)
    /\ UNCHANGED <<toServer, server>>

-----------------------------------------------------------------------------
(* The server                                                               *)
Data(kind) == [kind |-> kind, about |-> server.selected]
Answer(kind, cmd) == [kind |-> kind, of |-> cmd.kind, task |-> cmd.task]
SaysClosed == server.kind = "always" /\ server.selected # NoMailbox
ClosedIf(said) == IF said THEN <<[kind |-> "CLOSED"]>> ELSE <<>>

ServerReads == Sound /\ toServer # <<>> /\ toServer' = Tail(toServer) /\ UNCHANGED client

\* SELECT: the mailbox before is closed; with a refusal no mailbox is selected.
Selects ==
    /\ ServerReads
    /\ LET cmd == Head(toServer)
           m == client.tasks[cmd.task].mailbox
       IN /\ cmd.kind = "SELECT"
          /\ \/ /\ toClient' = toClient \o ClosedIf(SaysClosed)
                                 \o <<[kind |-> "EXISTS", about |-> m], Answer("OK", cmd)>>
                /\ server' = [server EXCEPT !.selected = m]
             \/ /\ "SELECT" \in Refusals
                /\ \E said \in {SaysClosed, FALSE} :
                      toClient' = toClient \o ClosedIf(said) \o <<Answer("NO", cmd)>>
                /\ server' = [server EXCEPT !.selected = NoMailbox,
                                            !.refused = @ \cup {"SELECT"}]

\* Any other command is about the messages of the mailbox that is selected.
Answers ==
    /\ ServerReads
    /\ LET cmd == Head(toServer)
       IN /\ cmd.kind # "SELECT"
          /\ \/ /\ server.selected # NoMailbox
                /\ toClient' = toClient \o <<Data("FETCH"), Answer("OK", cmd)>>
                /\ UNCHANGED server
             \/ /\ server.selected = NoMailbox \/ cmd.kind \in Refusals
                /\ toClient' = toClient \o <<Answer("NO", cmd)>>
                /\ server' = [server EXCEPT !.refused = @ \cup {cmd.kind}]

Announces ==
    /\ Sound /\ server.selected # NoMailbox /\ server.announced < MaxAnnounced
    /\ toClient' = Append(toClient, Data("EXISTS"))
    /\ server' = [server EXCEPT !.announced = @ + 1]
    /\ UNCHANGED <<client, toServer>>

-----------------------------------------------------------------------------
User == \E m \in Mailboxes : switchToMailbox(m) \/ AddTask(m)

ClientStep == executeCommands \/ SlotRuns \/ TaskDestroyed \/ responseReceived

ServerStep == Selects \/ Answers

\* Nothing to do, or the connection or the program is gone.
Ended ==
    /\ ~Sound \/ (client.posted = <<>> /\ toServer = <<>> /\ toClient = <<>>)
    /\ UNCHANGED vars

Next == User \/ ClientStep \/ ServerStep \/ Announces \/ Ended

Spec == Init /\ [][Next]_vars

\* Where the actions which need fairness can be taken.
CanRun == Sound /\ client.posted # <<>>
CanRead == Sound /\ toClient # <<>>
CanServe == Sound /\ toServer # <<>>

\* The event loop runs, responses are read, the server answers; the user and other
\* clients need do nothing. Weak fairness, with the guards in the place of ENABLED,
\* which TLC is slow to evaluate.
FairSpec ==
    /\ Spec
    /\ []<>~CanRun \/ []<><<executeCommands \/ SlotRuns \/ TaskDestroyed>>_vars
    /\ []<>~CanRead \/ []<><<responseReceived>>_vars
    /\ []<>~CanServe \/ []<><<ServerStep>>_vars

-----------------------------------------------------------------------------
(* Properties                                                               *)
Entry == [kind : {"obtain", "keep", "command"}, task : Tasks, watchers : SUBSET Tasks]

\* What the tasks and the ParserState of Model hold.
TypeOK ==
    /\ \A k \in DOMAIN client.tasks : LET t == client.tasks[k] IN
          /\ t.mailbox \in Mailboxes /\ {t.depending, t.busy, t.arrivals} \subseteq Nat
          /\ t.waiting \in Seq(Tasks) /\ t.successor \in Tasks \cup {NoTask}
    /\ client.active \in Seq(Entry)
    /\ client.maintaining \in Tasks \cup {NoTask}

\* Every command reaches the server while the mailbox it is meant for is selected: a
\* synchronization, a fetch of arrivals or a task of the user never runs in the mailbox
\* of another keeper, whatever is opened and refused in between (activateTasks,
\* isReadyToTerminate, terminate, slotPerformConnection).
CommandsMeetTheirMailbox ==
    Sound /\ toServer # <<>> /\ Head(toServer).kind # "SELECT" =>
        client.tasks[Head(toServer).task].mailbox = server.selected

\* The mailbox to whose list the response will be applied.
AppliedTo(r) ==
    LET i == Taker(client, r)
        e == client.active[i]
        t == client.tasks[e.task]
    IN IF i # 0 /\ (e.kind = "obtain" \/ (t.isRunning = "RUNNING" /\ ~t.dead))
       THEN t.mailbox ELSE NoMailbox

\* With QRESYNC no response is applied to another mailbox than it is about, and a
\* server which says [CLOSED] where it should never makes a handler throw, as long as
\* it refuses no command but SELECT: the keeper of the old mailbox takes what comes
\* before [CLOSED], the task that opens the new one what comes after
\* (ObtainSynchronizedMailboxTask::perform, CHECK_IS_RUNNING).
ResponsesReachTheirMailbox ==
    server.refused \subseteq {"SELECT"} =>
        /\ Sound /\ server.kind # "no" /\ toClient # <<>> /\ IsData(Head(toClient)) =>
               AppliedTo(Head(toClient)) \in {Head(toClient).about, NoMailbox}
        /\ server.kind = "always" => ~client.killed

Opened(k) == k \in DOMAIN client.tasks
IsOver(k) == Opened(k) /\ Obtained(client.tasks[k])

\* What waits for a keeper that fails while it is to give the connection away is not
\* told: die() does not come to killAllPendingTasks() then.
Stranded(k) ==
    \E j \in DOMAIN client.tasks :
        client.tasks[j].dead /\ client.tasks[j].shouldExit /\ k \in ToSet(client.tasks[j].waiting)

\* Whoever opens a mailbox is told in the end that it is open or that this failed, in
\* whatever order mailboxes are opened and left, as long as the connection lasts and
\* the keeper before did not fail (terminate, slotTaskDeleted, addDependentTask).
EveryMailboxEnds == \A k \in Tasks : Opened(k) ~> IsOver(k) \/ Stranded(k) \/ ~Sound

===============================================================================
