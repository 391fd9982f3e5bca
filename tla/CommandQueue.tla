------------------------------ MODULE CommandQueue ------------------------------
(***************************************************************************)
(* Imap::Parser (src/Imap/Parser/Parser.cpp) as the way of commands to the *)
(* server: the queue of commands, the flags which stop it while a          *)
(* synchronizing literal or IDLE waits for "+", the responses read from    *)
(* the socket, and the posted events of the event loop which drive it.     *)
(* The state of the client's objects is one record, for one handler calls  *)
(* methods of several of them before the event loop goes on.               *)
(***************************************************************************)
EXTENDS Naturals, Sequences, FiniteSets, SequencesExt

CONSTANTS
    Tasks,         \* tasks of the user, each one command; its tag is the task
    AnyTasks,      \* those which need a connection, not this mailbox
    LiteralTasks,  \* those whose command has a synchronizing literal
    Arrivals,      \* what the server may announce; also the tag of its UID FETCH
    RefusesIdle,   \* the server may answer IDLE by NO
    EndsIdle,      \* the server may complete IDLE before DONE
    SaysClosed     \* QRESYNC: [CLOSED] tells where the old mailbox ends

ASSUME TasksAssumption ==
    /\ AnyTasks \subseteq Tasks /\ LiteralTasks \subseteq Tasks
    /\ Tasks \cap Arrivals = {}
    /\ RefusesIdle \in BOOLEAN /\ EndsIdle \in BOOLEAN /\ SaysClosed \in BOOLEAN

OwnTags == {"IDLE", "SELECT", "CLOSE", "DELETE", "LOGOUT"}
NoTag == "none"
ASSUME TagsAssumption == (Tasks \cup Arrivals) \cap (OwnTags \cup {NoTag}) = {}
Tag == Tasks \cup Arrivals \cup OwnTags

\* What a part of Commands::Command is to executeACommand().
Kind == {"ATOM", "LITERAL", "IDLE", "IDLE_DONE"}
Command == [tag : Tag, kind : Kind, numberSent : BOOLEAN]
Cmd(tag, kind) == [tag |-> tag, kind |-> kind, numberSent |-> FALSE]

\* What goes over the wire: a whole command, the size of a literal, the literal
\* with the rest of its command, IDLE, DONE.
Line == [tag : Tag, kind : {"command", "size", "literal", "IDLE", "DONE"}]
\* What comes back: continuation, tagged responses, untagged BAD, EXISTS, [CLOSED].
Response == [kind : {"+", "OK", "NO", "BAD", "EXISTS", "CLOSED"}, tag : Tag \cup {NoTag}]
Say(kind, tag) == [kind |-> kind, tag |-> tag]

VARIABLES
    client,    \* the Parser, the IdleLauncher and the KeepMailboxOpenTask
    toServer,  \* lines written to the socket
    toClient,  \* responses on their way
    server     \* what the server is doing

-----------------------------------------------------------------------------
(* The event loop: QTimer::singleShot(0) and queued signals are posted      *)
(* events, which are handled in their order. A handler is not interrupted:  *)
(* while "handler" is not "none" neither the socket, nor timers, nor the    *)
(* user are served.                                                         *)
Post(c, event, task) ==
    [c EXCEPT !.posted = Append(@, [event |-> event, task |-> task])]

\* A failed assertion or an exception ends the model.
Sound == client.failed = {}
Resting == Sound /\ client.handler = "none"

Handling(event) ==
    \/ Sound /\ client.handler = event
    \/ /\ Resting
       /\ client.posted # <<>> /\ Head(client.posted).event = event

\* The event is taken from the queue by the first step of its handler.
Taken == IF client.handler = "none" THEN [client EXCEPT !.posted = Tail(@)] ELSE client

\* A Q_ASSERT: what fails is noted.
Check(c, assertion, holds) ==
    IF holds THEN c ELSE [c EXCEPT !.failed = @ \cup {assertion}]

-----------------------------------------------------------------------------
(* Methods of Parser                                                        *)

\* Mutant: nobody is told that there is a command.
QueueSilently(c, cmd) == [c EXCEPT !.cmdQueue = Append(@, cmd)]

queueCommand(c, cmd) ==
    Post([c EXCEPT !.cmdQueue = Append(@, cmd)], "executeCommands", NoTag)

idleDone(c) == queueCommand(c, Cmd("IDLE", "IDLE_DONE"))

idleContinuationWontCome(c) ==
    Post(Check([c EXCEPT !.waitForInitialIdle = FALSE, !.idling = FALSE],
               "idleContinuationWontCome", c.waitForInitialIdle),
         "executeCommands", NoTag)

idleMagicallyTerminatedByServer(c) ==
    Check([c EXCEPT !.idling = FALSE],
          "idleMagicallyTerminatedByServer", ~c.waitForInitialIdle /\ c.idling)

MayExecute(c) ==
    /\ ~c.waitingForContinuation /\ ~c.waitForInitialIdle
    /\ c.cmdQueue # <<>>

Popped(c) == [c EXCEPT !.cmdQueue = Tail(@)]

\* executeACommand(): the state after it; what it writes is Written.
executeACommand(c) ==
    LET cmd == Head(c.cmdQueue)
        quiet == Check(c, "executeACommand", ~c.idling)
    IN CASE cmd.kind = "IDLE_DONE" ->
              Check([Popped(c) EXCEPT !.idling = FALSE], "executeACommand DONE", c.idling)
         [] cmd.kind = "ATOM" \/ cmd.numberSent -> Popped(quiet)
         [] cmd.kind = "LITERAL" /\ ~cmd.numberSent ->
              [Check(quiet, "literalCommandTag", c.literalCommandTag = NoTag)
               EXCEPT !.cmdQueue[1].numberSent = TRUE,
                      !.waitingForContinuation = TRUE,
                      !.literalCommandTag = cmd.tag]
         [] cmd.kind = "IDLE" ->
              [Popped(quiet) EXCEPT !.idling = TRUE, !.waitForInitialIdle = TRUE]

Written(cmd) ==
    [tag |-> cmd.tag,
     kind |-> CASE cmd.kind = "ATOM" -> "command"
                [] cmd.kind = "LITERAL" -> IF cmd.numberSent THEN "literal" ELSE "size"
                [] cmd.kind = "IDLE" -> "IDLE"
                [] cmd.kind = "IDLE_DONE" -> "DONE"]

\* executeCommands(): one round of its loop per step.
executeCommands ==
    /\ Handling("executeCommands")
    /\ UNCHANGED <<toClient, server>>
    /\ IF MayExecute(Taken)
       THEN LET next == executeACommand(Taken)
            IN /\ client' = [next EXCEPT !.handler =
                                 IF MayExecute(next) THEN "executeCommands" ELSE "none"]
               /\ toServer' = Append(toServer, Written(Head(client.cmdQueue)))
       ELSE /\ client' = [Taken EXCEPT !.handler = "none"]
            /\ UNCHANGED toServer

Received(c, r) ==
    LET d == [c EXCEPT !.respQueue = Append(@, r)]
    IN IF Len(d.respQueue) = 1 THEN Post(d, "responseReceived", NoTag) ELSE d

\* Mutant: a refused literal stays in the queue.
KeepRefusedLiteral(c, r) ==
    IF c.waitingForContinuation /\ r.tag = c.literalCommandTag
    THEN Post([Received(c, r) EXCEPT !.literalCommandTag = NoTag,
                                     !.waitingForContinuation = FALSE],
              "executeCommands", NoTag)
    ELSE Received(c, r)

\* Mutant: nobody looks whether a literal is refused.
MissRefusedLiteral(c, r) == Received(c, r)

\* A tagged response for the command whose literal waits means that "+" will not
\* come: the command is dropped.
queueResponse(c, r) ==
    IF c.waitingForContinuation /\ r.tag = c.literalCommandTag
    THEN Post([Popped(Received(c, r)) EXCEPT !.literalCommandTag = NoTag,
                                             !.waitingForContinuation = FALSE],
              "executeCommands", NoTag)
    ELSE Received(c, r)

\* processLine() for "+ ".
Continued(c) ==
    IF c.waitingForContinuation
    THEN Post([c EXCEPT !.waitingForContinuation = FALSE, !.literalCommandTag = NoTag],
              "executeCommands", NoTag)
    ELSE IF c.waitForInitialIdle
         THEN Post([c EXCEPT !.waitForInitialIdle = FALSE], "executeCommands", NoTag)
         ELSE [c EXCEPT !.failed = @ \cup {"ContinuationRequest"}]

\* handleReadyRead(): one line of the socket per step.
handleReadyRead ==
    /\ Resting /\ client.online
    /\ toClient # <<>>
    /\ LET r == Head(toClient)
       IN client' = IF r.kind = "+" THEN Continued(client) ELSE queueResponse(client, r)
    /\ toClient' = Tail(toClient)
    /\ UNCHANGED <<toServer, server>>

-----------------------------------------------------------------------------
(* The server, which reads the lines in order, answers commands in any      *)
(* order, and in IDLE waits for DONE.                                       *)
Serving == Sound /\ client.online

Reads(kind) ==
    /\ Serving
    /\ toServer # <<>> /\ Head(toServer).kind = kind
    /\ toServer' = Tail(toServer)
    /\ UNCHANGED client

Answers(kind, tag) == toClient' = Append(toClient, Say(kind, tag))

ServerStartsIdle ==
    /\ Reads("IDLE") /\ ~server.idling
    /\ Answers("+", NoTag)
    /\ server' = [server EXCEPT !.idling = TRUE]

ServerRefusesIdle ==
    /\ RefusesIdle
    /\ Reads("IDLE") /\ ~server.idling
    /\ Answers("NO", "IDLE")
    /\ UNCHANGED server

ServerEndsIdle ==
    /\ EndsIdle
    /\ Serving /\ server.idling
    /\ Answers("OK", "IDLE")
    /\ server' = [server EXCEPT !.idling = FALSE]
    /\ UNCHANGED <<client, toServer>>

\* DONE when no IDLE runs is no command: the server says BAD to it.
ServerReadsDone ==
    /\ Reads("DONE")
    /\ IF server.idling THEN Answers("OK", "IDLE") ELSE Answers("BAD", NoTag)
    /\ server' = [server EXCEPT !.idling = FALSE]

\* What comes before a change of the selected mailbox is done before it.
ServerReadsCommand ==
    /\ \/ Reads("command")
       \/ Reads("literal")
    /\ ~server.idling
    /\ Head(toServer).tag \in {"SELECT", "CLOSE"} => server.working \subseteq AnyTasks
    /\ LET tag == Head(toServer).tag
       IN /\ server' = [server EXCEPT !.working = @ \cup {tag},
                                      !.selected = @ /\ tag \notin {"SELECT", "CLOSE", "LOGOUT"}]
          /\ IF SaysClosed /\ tag = "SELECT" THEN Answers("CLOSED", NoTag)
             ELSE UNCHANGED toClient

ServerTakesLiteral ==
    /\ Reads("size") /\ ~server.idling
    /\ Answers("+", NoTag)
    /\ UNCHANGED server

ServerRefusesLiteral ==
    /\ Reads("size") /\ ~server.idling
    /\ Answers("NO", Head(toServer).tag)
    /\ UNCHANGED server

ServerAnswers ==
    \E tag \in server.working :
        /\ Serving
        /\ Answers("OK", tag)
        /\ server' = [server EXCEPT !.working = @ \ {tag}]
        /\ UNCHANGED <<client, toServer>>

ServerAnnounces ==
    \E f \in Arrivals \ server.announced :
        /\ Serving /\ server.selected
        /\ Answers("EXISTS", f)
        /\ server' = [server EXCEPT !.announced = @ \cup {f}]
        /\ UNCHANGED <<client, toServer>>

ServerReads ==
    \/ ServerStartsIdle \/ ServerRefusesIdle \/ ServerReadsDone
    \/ ServerReadsCommand \/ ServerTakesLiteral \/ ServerRefusesLiteral

ServerActs == ServerReads \/ ServerEndsIdle \/ ServerAnswers \/ ServerAnnounces
===============================================================================
