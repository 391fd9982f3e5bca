-------------------------- MODULE HandoverClientProofs --------------------------
(***************************************************************************)
(* What the methods of the client keep between two events: the invariant   *)
(* of the handover, the tasks, the mailbox, the launcher of IDLE and       *)
(* LOGOUT, for any number of tasks and arrivals and all limits.            *)
(***************************************************************************)
EXTENDS Handover, FiniteSetTheorems, TLAPS

Fields == {"cmdQueue", "idling", "waitForInitialIdle", "waitingForContinuation", "literalCommandTag",
           "respQueue", "posted", "handler", "launcher", "mIdling", "idleCommandRunning", "delayedEnter",
           "renewal", "tagIdle", "tagClose", "shouldRunIdle", "depending", "dependingAny", "requested",
           "fetchTimer", "fetching", "running", "active", "arrivals", "shouldExit", "obtaining", "deleting",
           "aborted", "isRunning", "finished", "present", "logout", "online", "asked", "answered", "failed"}

Posted == [event : Events, task : Tag \cup {NoTag}]

\* Tasks with one command each whose tag is the task
Tracked == Tasks \cup {"SELECT", "DELETE"}

Shape(c) == DOMAIN c = Fields /\ c = [f \in Fields |-> c[f]]
\* d is c but for some fields.
But(c, d, S) == Shape(d) /\ \A f \in Fields \ S : d[f] = c[f]

Typed(c) ==
    /\ Shape(c)
    /\ c.cmdQueue \in Seq(Command) /\ c.respQueue \in Seq(Response) /\ c.posted \in Seq(Posted)
    /\ c.depending \in Seq(Tasks) /\ c.dependingAny \in Seq(Tasks) /\ c.requested \in Seq(Tasks)
    /\ c.active \subseteq Tracked /\ IsFiniteSet(c.active) /\ IsFiniteSet(c.fetching)
    /\ c.arrivals \subseteq Arrivals
    /\ c.launcher \in Launcher /\ c.deleting \in {"no", "waiting", "performed"}

-----------------------------------------------------------------------------
(* What holds of the client between any two calls of its methods            *)

\* IDLE is the last thing which the server is told, or is going to be.
EndsInIdle(c) ==
    IF c.cmdQueue = <<>> THEN c.idling ELSE c.cmdQueue[Len(c.cmdQueue)].kind = "IDLE"

\* DONE comes just after IDLE, the launcher knows of it, and only one literal is begun.
Order(c) ==
    /\ c.idling /\ c.cmdQueue # <<>> => c.cmdQueue[1].kind = "IDLE_DONE"
    /\ c.cmdQueue # <<>> /\ c.cmdQueue[1].kind = "IDLE_DONE" => c.idling
    /\ \A i \in DOMAIN c.cmdQueue : i + 1 \in DOMAIN c.cmdQueue =>
         (c.cmdQueue[i].kind = "IDLE" <=> c.cmdQueue[i + 1].kind = "IDLE_DONE")
    /\ c.mIdling <=> EndsInIdle(c)
    /\ \A i \in DOMAIN c.cmdQueue :
         /\ c.cmdQueue[i].numberSent => i = 1 /\ c.cmdQueue[i].kind = "LITERAL"
         /\ c.cmdQueue[i].kind \in {"IDLE", "IDLE_DONE"} <=> c.cmdQueue[i].tag = "IDLE"
         /\ c.cmdQueue[i].kind = "LITERAL" => c.cmdQueue[i].tag \in Tasks
    /\ c.waitForInitialIdle => c.idling
    /\ ~(c.waitingForContinuation /\ c.idling)
    /\ c.idling \in BOOLEAN /\ c.mIdling \in BOOLEAN

IsPosted(c, event) == \E i \in DOMAIN c.posted : c.posted[i].event = event
Nothing(c) == c.depending = <<>> /\ c.dependingAny = <<>> /\ c.active = {} /\ c.arrivals = {}

\* IDLE is said, or is going to be, only when there is nothing to do.
Launch(c) ==
    /\ c.mIdling => c.launcher = "alive" /\ c.idleCommandRunning /\ c.delayedEnter = "stopped"
    /\ c.tagIdle <=> c.idleCommandRunning
    /\ c.mIdling \/ (c.launcher = "alive" /\ c.delayedEnter # "stopped") => Nothing(c)
    /\ c.launcher # "alive" => c.aborted \/ ~c.idleCommandRunning
    /\ c.aborted => c.launcher # "alive"
    /\ c.launcher = "alive" /\ IsPosted(c, "terminate") => ~c.idleCommandRunning /\ c.delayedEnter # "due"
    /\ c.launcher = "alive" /\ c.deleting # "no" => ~c.idleCommandRunning /\ c.delayedEnter = "stopped"

\* The stages of a KeepMailboxOpenTask, and who may use the connection
Duty(c) ==
    /\ c.tagClose => c.deleting # "no"
    /\ c.finished => c.aborted
    /\ c.aborted => c.depending = <<>> /\ c.dependingAny = <<>> /\ c.requested = <<>>
    /\ c.logout => c.aborted /\ c.finished
    /\ c.isRunning # "RUNNING" => c.aborted
    /\ c.aborted => c.finished \/ c.isRunning # "RUNNING"
    /\ c.active \cap (Tasks \ AnyTasks) \subseteq c.running
    /\ "SELECT" \in c.active => c.aborted /\ ~c.idleCommandRunning /\ c.running = {}

Waiting(c) == ToSet(c.depending) \cup ToSet(c.dependingAny) \cup ToSet(c.requested)
NoDup(s) == \A i, j \in DOMAIN s : s[i] = s[j] => i = j

\* A task is asked for once, waits in one list, is active, and is deleted after that.
Stages(c) ==
    /\ NoDup(c.depending) /\ NoDup(c.dependingAny) /\ NoDup(c.requested)
    /\ ToSet(c.depending) \cap ToSet(c.dependingAny) = {}
    /\ (ToSet(c.depending) \cup ToSet(c.dependingAny)) \cap ToSet(c.requested) = {}
    /\ Waiting(c) \cap c.active = {}
    /\ Waiting(c) \cup (c.active \cap Tasks) \subseteq c.asked
    /\ \A i \in DOMAIN c.posted : c.posted[i].event = "slotTaskDeleted" =>
           /\ c.posted[i].task \notin Waiting(c) \cup c.active
           /\ c.posted[i].task \in Tasks => c.posted[i].task \in c.asked

Good(c) == Order(c) /\ Launch(c) /\ Duty(c) /\ Stages(c)

\* CLOSE is answered once, and DELETE is sent after that.
Closing(c) ==
    /\ "DELETE" \in c.active => c.deleting = "performed"
    /\ c.deleting = "performed" => /\ c.aborted /\ (~c.tagClose \/ ~c.present)
                                   /\ c.isRunning = "RUNNING" => ~c.present

\* Tasks of the mailbox's end are deleted after that.
Late(c) ==
    \A i \in DOMAIN c.posted : c.posted[i].event = "slotTaskDeleted" =>
        /\ c.posted[i].task = "SELECT" => c.aborted
        /\ c.posted[i].task = "DELETE" => c.deleting = "performed"

-----------------------------------------------------------------------------
(* What holds of the client and of the wire: ts is toServer, tc toClient    *)

Has(q, kind) == \E i \in DOMAIN q : q[i].kind = kind
Ends(q, kind) == q # <<>> /\ q[Len(q)].kind = kind

TypedWire(ts, tc, s) ==
    /\ ts \in Seq(Line) /\ tc \in Seq(Response)
    /\ \A i \in DOMAIN ts : ts[i].kind \in {"IDLE", "DONE"} <=> ts[i].tag = "IDLE"
    /\ DOMAIN s = {"idling", "working", "announced", "selected"}
    /\ s = [f \in {"idling", "working", "announced", "selected"} |-> s[f]]
    /\ "IDLE" \notin s.working /\ s.working \subseteq Tag

\* Only tagged responses have the tag of a command which is tracked.
TypedResponses(q) ==
    \A i \in DOMAIN q :
        /\ q[i].kind \in {"OK", "NO"} <=> q[i].tag \in Tag /\ q[i].kind # "EXISTS"
        /\ q[i].kind = "EXISTS" => q[i].tag \in Arrivals

\* After IDLE a server hears of DONE, or of nothing, for then the Parser idles.
WireOrder(c, ts, s) ==
    /\ \A i \in DOMAIN ts : i + 1 \in DOMAIN ts /\ ts[i].kind = "IDLE" => ts[i + 1].kind = "DONE"
    /\ s.idling /\ ts # <<>> => ts[1].kind = "DONE"
    /\ (ts = <<>> /\ s.idling) \/ Ends(ts, "IDLE") => c.idling

Refuses(r, t) == r.kind = "NO" /\ r.tag = t
Refused(tc, t) == \E i \in DOMAIN tc : Refuses(tc[i], t)

\* Where "+" and the answers to IDLE and to the size of a literal stand
Continuation(c, ts, tc, s) ==
    /\ \A i, j \in DOMAIN tc : tc[i].kind = "+" /\ tc[j].kind = "+" => i = j
    /\ Has(tc, "+") => c.waitForInitialIdle \/ c.waitingForContinuation
    /\ Has(ts, "IDLE") \/ Refused(tc, "IDLE") \/ Refused(c.respQueue, "IDLE") =>
           c.waitForInitialIdle /\ ~Has(tc, "+")
    /\ s.idling /\ c.waitForInitialIdle => Has(tc, "+")
    /\ c.waitForInitialIdle =>
           /\ \A i \in DOMAIN c.respQueue : c.respQueue[i] # Say("OK", "IDLE")
           /\ \A i \in DOMAIN tc : tc[i] = Say("OK", "IDLE") => \E k \in DOMAIN tc : k < i /\ tc[k].kind = "+"
    /\ \A i, j \in DOMAIN ts : ts[i].kind = "size" /\ ts[j].kind = "size" => i = j
    /\ \A i \in DOMAIN ts : ts[i].kind = "size" => ts[i].tag = c.literalCommandTag
    /\ Has(ts, "size") => c.waitingForContinuation /\ ~Has(tc, "+")
    /\ \A t \in Tracked : Refused(tc, t) =>
           /\ c.waitingForContinuation /\ c.literalCommandTag = t
           /\ ~Has(tc, "+") /\ ~Has(ts, "size")
    /\ IF c.waitingForContinuation
       THEN /\ c.cmdQueue # <<>> /\ c.cmdQueue[1].kind = "LITERAL" /\ c.cmdQueue[1].numberSent
            /\ c.literalCommandTag = c.cmdQueue[1].tag
       ELSE c.literalCommandTag = NoTag

\* The places of a queue where one of S stands
At(q, S) == {i \in DOMAIN q : q[i] \in S}

\* What may be in a place of its own for the command with tag t: it or the answer to it
Commands(t) == {cmd \in Command : cmd.tag = t /\ cmd.kind # "IDLE_DONE"}
Lines(t) == {line \in Line : line.tag = t /\ line.kind \notin {"size", "DONE"}}
Responses(t) == {r \in Response : r.tag = t}

Ordered(c, t) == At(c.cmdQueue, Commands(t))
Queued(c, tc, t) == {i \in Ordered(c, t) : ~(c.cmdQueue[i].numberSent /\ Refused(tc, t))}
Sent(ts, t) == At(ts, Lines(t))
Done(s, t) == t \in s.working \/ (t = "IDLE" /\ s.idling)
About(q, t) == At(q, Responses(t))

Single(S) == \A i, j \in S : i = j

Once(c, ts, tc, s, t) ==
    /\ Single(Ordered(c, t)) /\ Single(Sent(ts, t)) /\ Single(About(tc, t)) /\ Single(About(c.respQueue, t))
    /\ Queued(c, tc, t) # {} => /\ Sent(ts, t) = {} /\ ~Done(s, t)
                                /\ About(tc, t) = {} /\ About(c.respQueue, t) = {}
    /\ Sent(ts, t) # {} => ~Done(s, t) /\ About(tc, t) = {} /\ About(c.respQueue, t) = {}
    /\ Done(s, t) => About(tc, t) = {} /\ About(c.respQueue, t) = {}
    /\ About(tc, t) # {} => About(c.respQueue, t) = {}

Somewhere(c, ts, tc, s, t) ==
    \/ Queued(c, tc, t) # {} \/ Sent(ts, t) # {} \/ Done(s, t)
    \/ About(tc, t) # {} \/ About(c.respQueue, t) # {}

\* Who waits for the answer
Tokens(c, ts, tc, s) ==
    /\ \A t \in Tracked \cup {"IDLE"} : Once(c, ts, tc, s, t)
    /\ Somewhere(c, ts, tc, s, "IDLE") => c.idleCommandRunning
    /\ \A t \in Tracked :
        /\ Somewhere(c, ts, tc, s, t) => t \in c.active \/ c.logout
        /\ c.online /\ t \in c.active => Somewhere(c, ts, tc, s, t)
    /\ Somewhere(c, ts, tc, s, "DELETE") => c.deleting = "performed"
    /\ Has(tc, "CLOSED") \/ Has(c.respQueue, "CLOSED") => c.aborted

Wired(c, ts, tc, s) ==
    /\ TypedWire(ts, tc, s)
    /\ TypedResponses(tc) /\ TypedResponses(c.respQueue) /\ ~Has(c.respQueue, "+")
    /\ WireOrder(c, ts, s)
    /\ Continuation(c, ts, tc, s)
    /\ Tokens(c, ts, tc, s)

AwaitedBy(c, event) == c.handler = event \/ IsPosted(c, event)

Awake(c) ==
    c.online => /\ MayExecute(c) => AwaitedBy(c, "executeCommands")
                /\ c.respQueue # <<>> => AwaitedBy(c, "responseReceived")

\* The connection has been logged out of.
Over(c) == c.posted = <<>> /\ c.handler = "none" /\ c.launcher = "none"

Fine(c) == c.failed = {} \/ c.failed \cap KnownFailures # {}

Holds(c, ts, tc, s) ==
    /\ Typed(c) /\ Good(c) /\ Closing(c) /\ Late(c)
    /\ c.handler \in {"none", "executeCommands", "responseReceived"}
    /\ c.online => Awake(c) /\ Wired(c, ts, tc, s)
    /\ ~c.online => Over(c)

\* The invariant: it holds until an assertion fails, and only those fail which may.
Safe(c, ts, tc, s) == Fine(c) /\ (c.failed = {} => Holds(c, ts, tc, s))

HandoverInv == IdlingServerGetsDone /\ Safe(client, toServer, toClient, server)


-----------------------------------------------------------------------------
(* Lists                                                                    *)

\* A list with one more element
LEMMA Appended ==
    ASSUME NEW S, NEW s \in Seq(S), NEW e \in S
    PROVE  /\ Append(s, e) \in Seq(S) /\ Len(s) \in Nat /\ Len(Append(s, e)) = Len(s) + 1
           /\ DOMAIN s = 1 .. Len(s) /\ DOMAIN Append(s, e) = 1 .. Len(s) + 1
           /\ Append(s, e)[Len(s) + 1] = e /\ \A i \in DOMAIN s : Append(s, e)[i] = s[i]
           /\ Append(s, e) # <<>> /\ (s = <<>> <=> Len(s) = 0)
OBVIOUS

\* Two lists one after the other
LEMMA Joined ==
    ASSUME NEW S, NEW s \in Seq(S), NEW t \in Seq(S)
    PROVE  /\ s \o t \in Seq(S) /\ Len(s) \in Nat /\ Len(t) \in Nat
           /\ DOMAIN s = 1 .. Len(s) /\ DOMAIN t = 1 .. Len(t) /\ DOMAIN (s \o t) = 1 .. Len(s) + Len(t)
           /\ \A i \in DOMAIN s : (s \o t)[i] = s[i]
           /\ \A i \in DOMAIN t : (s \o t)[Len(s) + i] = t[i]
           /\ \A i \in DOMAIN (s \o t) : i \notin DOMAIN s => i - Len(s) \in DOMAIN t /\ (s \o t)[i] = t[i - Len(s)]
           /\ (s = <<>> <=> Len(s) = 0) /\ (t = <<>> <=> Len(t) = 0)
OBVIOUS

\* r is s and perhaps more.
More(s, r) == Len(s) <= Len(r) /\ \A i \in DOMAIN s : i \in DOMAIN r /\ r[i] = s[i]

\* A command which is said outside IDLE
Ordinary(cmd) ==
    /\ ~cmd.numberSent /\ cmd.kind \in {"ATOM", "LITERAL"} /\ cmd.tag # "IDLE"
    /\ cmd.kind = "LITERAL" => cmd.tag \in Tasks

-----------------------------------------------------------------------------
(* Methods: what c and what a method makes of it, d, have to do with each other *)

\* Nothing is posted but that commands or tasks may go on.
Quiet(c, d) ==
    /\ More(c.posted, d.posted)
    /\ \A i \in DOMAIN d.posted :
         i \in DOMAIN c.posted \/ d.posted[i].event \in {"executeCommands", "slotActivateTasks"}

\* No method says that a task is deleted.
Undeleted(c, d) ==
    \A i \in DOMAIN d.posted : d.posted[i].event = "slotTaskDeleted" => i \in DOMAIN c.posted

\* No method loses a command or an event, or fails but in a known way. Commands which are
\* added are told of, none starts IDLE, and a tracked one is that of a task made active.
New(c, d) == DOMAIN d.cmdQueue \ DOMAIN c.cmdQueue
Started(c, d) == d.active \ c.active

Steady(c, d) ==
    /\ d.respQueue = c.respQueue /\ d.handler = c.handler /\ d.online = c.online
    /\ d.logout = c.logout /\ d.idling = c.idling /\ d.waitForInitialIdle = c.waitForInitialIdle
    /\ d.waitingForContinuation = c.waitingForContinuation
    /\ d.literalCommandTag = c.literalCommandTag /\ d.idleCommandRunning = c.idleCommandRunning
    /\ c.deleting = "performed" => d.deleting = "performed"
    /\ c.aborted => d.aborted
    /\ c.failed \subseteq d.failed /\ (d.failed = c.failed \/ d.failed \cap KnownFailures # {})

Calls(c, d) ==
    /\ Typed(d) /\ Steady(c, d)
    /\ More(c.cmdQueue, d.cmdQueue) /\ More(c.posted, d.posted) /\ Undeleted(c, d)
    /\ c.active \subseteq d.active
    /\ \A i \in New(c, d) :
         /\ d.cmdQueue[i].kind # "IDLE" /\ ~d.cmdQueue[i].numberSent
         /\ d.cmdQueue[i].kind # "IDLE_DONE" => d.cmdQueue[i].tag # "IDLE"
         /\ d.cmdQueue[i].tag \in Tracked => d.cmdQueue[i].tag \in Started(c, d)
    /\ \A i, j \in New(c, d) :
         d.cmdQueue[i].tag = d.cmdQueue[j].tag /\ d.cmdQueue[i].tag \in Tracked => i = j
    /\ \A t \in Started(c, d) :
         /\ \E i \in New(c, d) : d.cmdQueue[i].tag = t /\ d.cmdQueue[i].kind # "IDLE_DONE"
         /\ ~c.logout \/ (t = "DELETE" /\ c.deleting # "performed")
         /\ t = "DELETE" => d.deleting = "performed"
    /\ d.cmdQueue # c.cmdQueue => IsPosted(d, "executeCommands")

\* The places of the queues are counted from 1.
LEMMA Sizes ==
    ASSUME NEW c, Typed(c)
    PROVE  /\ DOMAIN c.cmdQueue = 1 .. Len(c.cmdQueue) /\ Len(c.cmdQueue) \in Nat
           /\ DOMAIN c.posted = 1 .. Len(c.posted) /\ Len(c.posted) \in Nat
           /\ DOMAIN c.respQueue = 1 .. Len(c.respQueue) /\ Len(c.respQueue) \in Nat
<1>1. c.cmdQueue \in Seq(Command) /\ c.respQueue \in Seq(Response) /\ c.posted \in Seq(Posted)
  BY DEF Typed
<1> QED
  BY <1>1

\* One method after another does what Calls lets each of them do.
LEMMA CallsTwice ==
    ASSUME NEW c, NEW d, NEW e, Typed(c), Calls(c, d), Calls(d, e)
    PROVE  Calls(c, e)
<1>1. /\ DOMAIN c.cmdQueue = 1 .. Len(c.cmdQueue) /\ DOMAIN d.cmdQueue = 1 .. Len(d.cmdQueue)
      /\ DOMAIN e.cmdQueue = 1 .. Len(e.cmdQueue) /\ DOMAIN c.posted = 1 .. Len(c.posted)
      /\ DOMAIN d.posted = 1 .. Len(d.posted) /\ DOMAIN e.posted = 1 .. Len(e.posted)
      /\ {Len(c.cmdQueue), Len(d.cmdQueue), Len(e.cmdQueue)} \subseteq Nat
      /\ {Len(c.posted), Len(d.posted), Len(e.posted)} \subseteq Nat
  BY Sizes DEF Calls
<1>2. More(c.cmdQueue, e.cmdQueue) /\ More(c.posted, e.posted)
  BY <1>1 DEF Calls, More
<1>8. Undeleted(c, e)
  <2>1. \A i \in DOMAIN d.posted : e.posted[i] = d.posted[i]
    BY DEF Calls, More
  <2> QED
    BY <2>1 DEF Calls, Undeleted
<1>3. /\ \A i \in New(c, e) : i \in New(d, e) \/ (i \in New(c, d) /\ e.cmdQueue[i] = d.cmdQueue[i])
      /\ New(d, e) \subseteq New(c, e)
      /\ \A i \in New(c, d) : i \in New(c, e) /\ e.cmdQueue[i] = d.cmdQueue[i]
      /\ c.active \subseteq d.active /\ d.active \subseteq e.active
  BY <1>1 DEF Calls, More, New
<1>4. \A i \in New(c, e) :
         /\ e.cmdQueue[i].kind # "IDLE" /\ ~e.cmdQueue[i].numberSent
         /\ e.cmdQueue[i].kind # "IDLE_DONE" => e.cmdQueue[i].tag # "IDLE"
         /\ e.cmdQueue[i].tag \in Tracked => e.cmdQueue[i].tag \in Started(c, e)
  BY <1>3 DEF Calls, Started
<1>5. \A i, j \in New(c, e) :
         e.cmdQueue[i].tag = e.cmdQueue[j].tag /\ e.cmdQueue[i].tag \in Tracked => i = j
  BY <1>3 DEF Calls, Started
<1>6. \A t \in Started(c, e) :
         /\ \E i \in New(c, e) : e.cmdQueue[i].tag = t /\ e.cmdQueue[i].kind # "IDLE_DONE"
         /\ ~c.logout \/ (t = "DELETE" /\ c.deleting # "performed")
         /\ t = "DELETE" => e.deleting = "performed"
  BY <1>3 DEF Calls, Started, Steady
<1>7. e.cmdQueue # c.cmdQueue => IsPosted(e, "executeCommands")
  BY <1>1, <1>2 DEF Calls, More, IsPosted
<1> QED
  BY <1>2, <1>3, <1>4, <1>5, <1>6, <1>7, <1>8 DEF Calls, Steady


\* A method which adds no command
LEMMA CallsQuietly ==
    ASSUME NEW c, NEW d, Typed(c), Typed(d), Steady(c, d), d.cmdQueue = c.cmdQueue,
           Quiet(c, d), d.active = c.active
    PROVE  Calls(c, d)
<1>1. New(c, d) = {} /\ Started(c, d) = {} /\ More(c.cmdQueue, d.cmdQueue)
  BY Sizes DEF New, Started, More
<1>2. More(c.posted, d.posted) /\ Undeleted(c, d)
  BY DEF Quiet, Undeleted
<1> QED
  BY <1>1, <1>2 DEF Calls

\* A method which adds one
LEMMA CallsWith ==
    ASSUME NEW c, NEW d, NEW cmd \in Command, Typed(c), Typed(d), Steady(c, d),
           d.cmdQueue = Append(c.cmdQueue, cmd), Quiet(c, d),
           IsPosted(d, "executeCommands"),
           cmd.kind # "IDLE", ~cmd.numberSent, cmd.kind # "IDLE_DONE" => cmd.tag # "IDLE",
           IF cmd.tag \in Tracked
           THEN /\ cmd.tag \notin c.active /\ d.active = c.active \cup {cmd.tag} /\ cmd.kind # "IDLE_DONE"
                /\ ~c.logout \/ (cmd.tag = "DELETE" /\ c.deleting # "performed")
                /\ cmd.tag = "DELETE" => d.deleting = "performed"
           ELSE d.active = c.active
    PROVE  Calls(c, d)
<1>1. c.cmdQueue \in Seq(Command)
  BY DEF Typed
<1>2. New(c, d) = {Len(c.cmdQueue) + 1} /\ More(c.cmdQueue, d.cmdQueue)
      /\ d.cmdQueue[Len(c.cmdQueue) + 1] = cmd
  BY <1>1, Appended DEF New, More
<1>3. Started(c, d) = IF cmd.tag \in Tracked THEN {cmd.tag} ELSE {}
  BY DEF Started
<1>4. More(c.posted, d.posted) /\ Undeleted(c, d)
  BY DEF Quiet, Undeleted
<1> QED
  BY <1>2, <1>3, <1>4 DEF Calls

\* The order of the queue, when a command is added
LEMMA OrderKept ==
    ASSUME NEW c, NEW d, NEW cmd \in Command, Order(c), c.cmdQueue \in Seq(Command),
           d.cmdQueue = Append(c.cmdQueue, cmd), d.idling = c.idling,
           d.waitForInitialIdle = c.waitForInitialIdle,
           d.waitingForContinuation = c.waitingForContinuation, d.mIdling \in BOOLEAN,
           ~cmd.numberSent, cmd.kind \in {"IDLE", "IDLE_DONE"} <=> cmd.tag = "IDLE",
           cmd.kind = "LITERAL" => cmd.tag \in Tasks,
           cmd.kind = "IDLE_DONE" <=> c.mIdling, cmd.kind = "IDLE" <=> d.mIdling
    PROVE  Order(d)
<1> DEFINE q == c.cmdQueue
           r == d.cmdQueue
           n == Len(q)
<1>1. /\ n \in Nat /\ Len(r) = n + 1 /\ DOMAIN q = 1 .. n /\ DOMAIN r = 1 .. n + 1
      /\ r[n + 1] = cmd /\ (\A i \in DOMAIN q : r[i] = q[i]) /\ r # <<>> /\ (q = <<>> <=> n = 0)
  BY Appended
<1> HIDE DEF q, r, n
<1>2. (q # <<>> => (c.mIdling <=> q[n].kind = "IDLE")) /\ (q = <<>> => (c.mIdling <=> c.idling))
  BY DEF Order, EndsInIdle, q, n
<1>3. q # <<>> => r[1] = q[1]
  BY <1>1
<1>4. q = <<>> => r[1] = cmd
  BY <1>1
<1>5. d.idling => r[1].kind = "IDLE_DONE"
  BY <1>2, <1>3, <1>4 DEF Order, q
<1>6. r[1].kind = "IDLE_DONE" => d.idling
  BY <1>2, <1>3, <1>4 DEF Order, q
<1>7. \A i \in DOMAIN r : i + 1 \in DOMAIN r => (r[i].kind = "IDLE" <=> r[i + 1].kind = "IDLE_DONE")
  <2> SUFFICES ASSUME NEW i \in 1 .. n PROVE r[i].kind = "IDLE" <=> r[i + 1].kind = "IDLE_DONE"
    BY <1>1
  <2>1. CASE i = n
    <3>1. r[i] = q[n] /\ r[i + 1] = cmd /\ q # <<>>
      BY <2>1, <1>1
    <3> QED
      BY <3>1, <1>2
  <2>2. CASE i # n
    <3>1. i \in DOMAIN q /\ i + 1 \in DOMAIN q /\ r[i] = q[i] /\ r[i + 1] = q[i + 1]
      BY <2>2, <1>1
    <3>2. \A k \in DOMAIN q : k + 1 \in DOMAIN q => (q[k].kind = "IDLE" <=> q[k + 1].kind = "IDLE_DONE")
      BY DEF Order, q
    <3> QED
      BY <3>1, <3>2
  <2> QED
    BY <2>1, <2>2
<1>8. \A i \in DOMAIN r :
         /\ r[i].numberSent => i = 1 /\ r[i].kind = "LITERAL"
         /\ r[i].kind \in {"IDLE", "IDLE_DONE"} <=> r[i].tag = "IDLE"
         /\ r[i].kind = "LITERAL" => r[i].tag \in Tasks
  BY <1>1 DEF Order, q
<1>9. d.mIdling <=> EndsInIdle(d)
  BY <1>1 DEF EndsInIdle, r
<1> QED
  BY <1>1, <1>5, <1>6, <1>7, <1>8, <1>9 DEF Order, r


\* One quiet method after another is quiet.
LEMMA QuietTwice ==
    ASSUME NEW c, NEW d, NEW e, Typed(c), Typed(d), Typed(e), Quiet(c, d), Quiet(d, e)
    PROVE  Quiet(c, e)
<1>1. /\ DOMAIN c.posted = 1 .. Len(c.posted) /\ Len(c.posted) \in Nat
      /\ DOMAIN d.posted = 1 .. Len(d.posted) /\ Len(d.posted) \in Nat
      /\ DOMAIN e.posted = 1 .. Len(e.posted) /\ Len(e.posted) \in Nat
  BY Sizes
<1> QED
  BY <1>1 DEF Quiet, More

\* What all methods of the launcher, and queueCommand(), leave alone
Unmoved(c, d) ==
    /\ d.depending = c.depending /\ d.dependingAny = c.dependingAny /\ d.requested = c.requested
    /\ d.fetching = c.fetching /\ d.running = c.running /\ d.active = c.active
    /\ d.arrivals = c.arrivals /\ d.shouldExit = c.shouldExit /\ d.obtaining = c.obtaining
    /\ d.deleting = c.deleting /\ d.aborted = c.aborted /\ d.isRunning = c.isRunning
    /\ d.finished = c.finished /\ d.present = c.present /\ d.tagClose = c.tagClose
    /\ d.shouldRunIdle = c.shouldRunIdle /\ d.asked = c.asked /\ d.answered = c.answered
    /\ d.launcher = c.launcher /\ d.tagIdle = c.tagIdle /\ d.fetchTimer = c.fetchTimer
    /\ d.failed = c.failed
    /\ d.respQueue = c.respQueue /\ d.handler = c.handler /\ d.online = c.online
    /\ d.logout = c.logout /\ d.idling = c.idling /\ d.waitForInitialIdle = c.waitForInitialIdle
    /\ d.waitingForContinuation = c.waitingForContinuation
    /\ d.literalCommandTag = c.literalCommandTag /\ d.idleCommandRunning = c.idleCommandRunning

\* Posting an event keeps the type.
LEMMA TypedPosted ==
    ASSUME NEW c, Typed(c), NEW p \in Seq(Posted)
    PROVE  Typed([c EXCEPT !.posted = p])
<1>1. Shape(c)
  BY DEF Typed
<1> QED
  BY <1>1 DEF Shape, Typed, Fields

\* Model and Parser post an event at most once, behind those which are posted already.
LEMMA PostQuietly ==
    ASSUME NEW c, Typed(c), NEW event \in Events, NEW task \in Tag \cup {NoTag}
    PROVE  \E p \in Seq(Posted) :
              /\ Post(c, event, task) = [c EXCEPT !.posted = p] /\ More(c.posted, p)
              /\ \E i \in DOMAIN p : p[i].event = event
              /\ \A i \in DOMAIN p : \/ i \in DOMAIN c.posted
                                     \/ p[i].event = event /\ p[i].task = task
<1> DEFINE e == [event |-> event, task |-> task]
           p == Append(c.posted, e)
<1>1. c.posted \in Seq(Posted) /\ e \in Posted /\ e.event = event /\ e.task = task
  BY DEF Typed, Posted
<1>2. Post(c, event, task) = [c EXCEPT !.posted = p]
  BY DEF Post
<1> HIDE DEF e
<1>3. /\ p \in Seq(Posted) /\ More(c.posted, p) /\ (\E i \in DOMAIN p : p[i] = e)
      /\ \A i \in DOMAIN p : i \in DOMAIN c.posted \/ p[i] = e
  BY <1>1, Appended DEF More
<1> QED
  BY <1>1, <1>2, <1>3

\* Parser::queueCommand() appends the command and wakes executeCommands().
LEMMA Queues ==
    ASSUME NEW c, Typed(c), NEW cmd \in Command, NEW d, d = queueCommand(c, cmd)
    PROVE  /\ Typed(d) /\ Quiet(c, d)
           /\ Unmoved(c, d) /\ d.cmdQueue = Append(c.cmdQueue, cmd)
           /\ d.mIdling = c.mIdling /\ d.delayedEnter = c.delayedEnter
           /\ IsPosted(d, "executeCommands")
<1> DEFINE q == Append(c.cmdQueue, cmd)
           b == [c EXCEPT !.cmdQueue = q]
<1>1. q \in Seq(Command) /\ Shape(c)
  BY Appended DEF Typed
<1>2. d = Post(b, "executeCommands", NoTag)
  BY DEF queueCommand
<1> HIDE DEF q
<1>3. Shape(b) /\ b.posted = c.posted /\ b.cmdQueue = q /\ Unmoved(c, b)
      /\ b.mIdling = c.mIdling /\ b.delayedEnter = c.delayedEnter
  BY <1>1 DEF Shape, Fields, Unmoved
<1> HIDE DEF b
<1>4. Typed(b)
  BY <1>1, <1>3 DEF Typed, Unmoved
<1>5. "executeCommands" \in Events /\ NoTag \in Tag \cup {NoTag}
  BY DEF Events
<1>6. PICK p \in Seq(Posted) :
         /\ d = [b EXCEPT !.posted = p] /\ More(b.posted, p)
         /\ \E i \in DOMAIN p : p[i].event = "executeCommands"
         /\ \A i \in DOMAIN p : i \in DOMAIN b.posted \/ p[i].event = "executeCommands"
  BY <1>2, <1>4, <1>5, PostQuietly
<1>7. /\ d.posted = p /\ d.cmdQueue = q /\ Unmoved(b, d)
      /\ d.mIdling = b.mIdling /\ d.delayedEnter = b.delayedEnter
  BY <1>3, <1>6 DEF Shape, Fields, Unmoved
<1>8. Unmoved(c, d)
  BY <1>3, <1>7 DEF Unmoved
<1>9. Typed(d)
  BY <1>4, <1>6, TypedPosted
<1>10. Quiet(c, d)
  BY <1>3, <1>6, <1>7 DEF Quiet
<1>11. IsPosted(d, "executeCommands")
  BY <1>6, <1>7 DEF IsPosted
<1> QED
  BY <1>3, <1>7, <1>8, <1>9, <1>10, <1>11 DEF q

\* The order of the commands is kept by all which leaves the queue and the flags alone.
LEMMA OrderSame ==
    ASSUME NEW c, NEW d, Order(c), d.cmdQueue = c.cmdQueue, d.idling = c.idling,
           d.mIdling = c.mIdling, d.waitForInitialIdle = c.waitForInitialIdle,
           d.waitingForContinuation = c.waitingForContinuation
    PROVE  Order(d)
BY DEF Order, EndsInIdle

\* The stages of the tasks are kept by all which leaves their lists alone.
LEMMA StagesKept ==
    ASSUME NEW c, NEW d, Stages(c), Quiet(c, d), d.depending = c.depending,
           d.dependingAny = c.dependingAny, d.requested = c.requested, d.asked = c.asked,
           d.active = c.active
    PROVE  Stages(d)
<1>1. Waiting(d) = Waiting(c)
  BY DEF Waiting
<1>2. \A i \in DOMAIN d.posted : d.posted[i].event = "slotTaskDeleted" =>
           i \in DOMAIN c.posted /\ d.posted[i] = c.posted[i]
  BY DEF Quiet, More
<1> QED
  BY <1>1, <1>2 DEF Stages

\* A quiet method does not post terminate().
LEMMA ToTerminateKept ==
    ASSUME NEW c, NEW d, Quiet(c, d)
    PROVE  IsPosted(d, "terminate") => IsPosted(c, "terminate")
BY DEF Quiet, More, IsPosted


-----------------------------------------------------------------------------
(* IDLE is ended                                                            *)

\* IDLE is not running, and is not going to be.
Calm(c) == ~c.mIdling /\ (c.launcher = "alive" => c.delayedEnter = "stopped")

\* The commands which the client makes are commands, and which of them speak of IDLE
LEMMA OwnCommands ==
    /\ Cmd("IDLE", "IDLE_DONE") \in Command /\ Cmd("IDLE", "IDLE") \in Command
    /\ \A t \in Tag : Cmd(t, "ATOM") \in Command /\ Cmd(t, "LITERAL") \in Command
    /\ \A t \in Tag, k \in Kind :
         Cmd(t, k).tag = t /\ Cmd(t, k).kind = k /\ ~Cmd(t, k).numberSent
    /\ Tracked \subseteq Tag /\ "IDLE" \notin Tracked /\ "IDLE" \in Tag
    /\ \A k \in {"IDLE", "IDLE_DONE", "ATOM", "LITERAL"} : k \in Kind
    /\ Tasks \cap OwnTags = {} /\ Arrivals \cap OwnTags = {} /\ Arrivals \cap Tracked = {}
    /\ {"SELECT", "CLOSE", "DELETE", "LOGOUT"} \subseteq Tag
    /\ "CLOSE" \notin Tracked /\ "LOGOUT" \notin Tracked
    /\ "SELECT" \notin Tasks /\ "DELETE" \notin Tasks
    /\ NoTag \notin Tag
BY TasksAssumption, TagsAssumption DEF Cmd, Command, Kind, Tag, OwnTags, Tracked, NoTag

\* What a method may be relied on for
Keeps(c, d) == Good(d) /\ Calls(c, d) /\ (Closing(c) => Closing(d))

\* One method after another keeps what each of them keeps.
LEMMA KeepsTwice ==
    ASSUME NEW c, NEW d, NEW e, Typed(c), Keeps(c, d), Keeps(d, e)
    PROVE  Keeps(c, e)
BY CallsTwice DEF Keeps

\* KeepMailboxOpenTask::breakOrCancelPossibleIdle(): DONE is queued or the timer stopped, so IDLE is over.
LEMMA Break ==
    ASSUME NEW c, Typed(c), Good(c), NEW d, d = breakOrCancelPossibleIdle(c)
    PROVE  Keeps(c, d) /\ Typed(d) /\ Calm(d) /\ Unmoved(c, d) /\ Quiet(c, d)
<1>0. More(c.posted, c.posted)
  BY Sizes DEF More
<1>1. CASE c.launcher = "none"
  <2>1. d = c
    BY <1>1 DEF breakOrCancelPossibleIdle
  <2>2. Quiet(c, c)
    BY <1>0 DEF Quiet
  <2>3. Calls(c, c)
    BY <2>2, CallsQuietly DEF Steady
  <2> QED
    BY <1>1, <2>1, <2>2, <2>3 DEF Good, Launch, Calm, Unmoved, Keeps
<1>2. CASE c.launcher # "none" /\ ~c.mIdling
  <2>1. d = [c EXCEPT !.delayedEnter = "stopped"]
    BY <1>2 DEF breakOrCancelPossibleIdle, finishIdle
  <2>a. Shape(c)
    BY DEF Typed
  <2>b. Shape(d) /\ Unmoved(c, d) /\ d.delayedEnter = "stopped"
        /\ d.cmdQueue = c.cmdQueue /\ d.posted = c.posted /\ d.mIdling = c.mIdling
    BY <2>1, <2>a DEF Shape, Fields, Unmoved
  <2>2. Typed(d) /\ Unmoved(c, d) /\ d.delayedEnter = "stopped"
        /\ d.cmdQueue = c.cmdQueue /\ d.posted = c.posted /\ d.mIdling = c.mIdling
    BY <2>b DEF Typed, Unmoved
  <2>d. Quiet(c, d) /\ Steady(c, d) /\ d.active = c.active
    BY <1>0, <2>2 DEF Quiet, Steady, Unmoved
  <2>3. Quiet(c, d) /\ Calls(c, d) /\ Calm(d)
    BY <1>2, <2>2, <2>d, CallsQuietly DEF Calm
  <2>4. Order(d)
    BY <2>2, OrderSame DEF Good, Unmoved
  <2>5. Launch(d) /\ Duty(d)
    BY <2>2 DEF Good, Launch, Duty, Unmoved, IsPosted, Nothing
  <2>6. Stages(d)
    BY <2>2, <2>3, StagesKept DEF Good, Unmoved
  <2> QED
    BY <2>2, <2>3, <2>4, <2>5, <2>6 DEF Good, Keeps, Closing, Unmoved
<1>3. CASE c.launcher # "none" /\ c.mIdling
  <2> DEFINE e == [c EXCEPT !.renewal = "stopped", !.mIdling = FALSE]
             cmd == Cmd("IDLE", "IDLE_DONE")
  <2>1. d = queueCommand(e, cmd)
    BY <1>3 DEF breakOrCancelPossibleIdle, finishIdle, idleDone
  <2>a. Shape(c)
    BY DEF Typed
  <2>b. Shape(e) /\ Unmoved(c, e) /\ e.delayedEnter = c.delayedEnter
        /\ e.cmdQueue = c.cmdQueue /\ e.posted = c.posted /\ e.mIdling = FALSE
    BY <2>a, ZenonT(60) DEF Shape, Fields, Unmoved
  <2>2. Typed(e) /\ Unmoved(c, e) /\ e.delayedEnter = c.delayedEnter
        /\ e.cmdQueue = c.cmdQueue /\ e.posted = c.posted /\ e.mIdling = FALSE
    BY <2>b DEF Typed, Unmoved
  <2>3. cmd \in Command /\ cmd.kind = "IDLE_DONE" /\ cmd.tag = "IDLE" /\ ~cmd.numberSent
        /\ cmd.tag \notin Tracked
    BY OwnCommands DEF Kind
  <2>c. Typed(e) /\ cmd \in Command /\ d = queueCommand(e, cmd)
    BY <2>1, <2>2, <2>3
  <2> HIDE DEF e, cmd
  <2>4. /\ Typed(d) /\ Quiet(e, d)
        /\ Unmoved(e, d) /\ d.cmdQueue = Append(e.cmdQueue, cmd)
        /\ d.mIdling = e.mIdling /\ d.delayedEnter = e.delayedEnter
        /\ IsPosted(d, "executeCommands")
    BY <2>c, Queues
  <2>5. Unmoved(e, d) /\ d.cmdQueue = Append(c.cmdQueue, cmd) /\ d.mIdling = FALSE
        /\ d.delayedEnter = c.delayedEnter
    BY <2>2, <2>4
  <2>6. Unmoved(c, d) /\ Quiet(c, d)
    BY <2>2, <2>4, <2>5 DEF Unmoved, Quiet
  <2>7. Order(d)
    <3>1. Order(c) /\ c.cmdQueue \in Seq(Command) /\ d.idling = c.idling
          /\ d.waitForInitialIdle = c.waitForInitialIdle
          /\ d.waitingForContinuation = c.waitingForContinuation
      BY <2>6 DEF Good, Typed, Unmoved
    <3> QED
      BY <1>3, <2>3, <2>5, <3>1, OrderKept
  <2>8. Launch(d) /\ Duty(d)
    BY <1>3, <2>5, <2>6, ToTerminateKept DEF Good, Launch, Duty, Unmoved, Nothing
  <2>9. Stages(d)
    BY <2>6, StagesKept DEF Good, Unmoved
  <2>10. Calls(c, d)
    <3>1. Steady(c, d) /\ Quiet(c, d) /\ d.active = c.active
      BY <2>6 DEF Steady, Unmoved
    <3> QED
      BY <2>3, <2>4, <2>5, <3>1, CallsWith
  <2>11. Calm(d)
    BY <1>3, <2>5 DEF Good, Launch, Calm
  <2> QED
    BY <2>4, <2>6, <2>7, <2>8, <2>9, <2>10, <2>11 DEF Good, Keeps, Closing, Unmoved
<1> QED
  BY <1>1, <1>2, <1>3


\* A command of the mailbox itself
LEMMA SayCommand ==
    ASSUME NEW c, Typed(c), Good(c), ~c.mIdling, NEW t \in Tag \ (Tracked \cup {"IDLE"}),
           NEW d, d = queueCommand(c, Cmd(t, "ATOM"))
    PROVE  /\ Keeps(c, d) /\ Typed(d) /\ Unmoved(c, d) /\ Quiet(c, d) /\ ~d.mIdling
           /\ d.delayedEnter = c.delayedEnter
<1> DEFINE cmd == Cmd(t, "ATOM")
<1>1. cmd \in Command /\ cmd.kind = "ATOM" /\ cmd.tag = t /\ ~cmd.numberSent
  BY OwnCommands
<1>2. Typed(c) /\ cmd \in Command /\ d = queueCommand(c, cmd)
  BY <1>1
<1> HIDE DEF cmd
<1>3. /\ Typed(d) /\ Quiet(c, d)
      /\ Unmoved(c, d) /\ d.cmdQueue = Append(c.cmdQueue, cmd)
      /\ d.mIdling = c.mIdling /\ d.delayedEnter = c.delayedEnter
      /\ IsPosted(d, "executeCommands")
  BY <1>2, Queues
<1>4. Order(d)
  <2>1. Order(c) /\ c.cmdQueue \in Seq(Command) /\ d.idling = c.idling
        /\ d.waitForInitialIdle = c.waitForInitialIdle
        /\ d.waitingForContinuation = c.waitingForContinuation
        /\ d.mIdling \in BOOLEAN /\ ~d.mIdling
    BY <1>3 DEF Good, Typed, Unmoved, Order
  <2> QED
    BY <1>1, <1>3, <2>1, OrderKept
<1>5. Launch(d) /\ Duty(d)
  BY <1>3, ToTerminateKept DEF Good, Launch, Duty, Unmoved, Nothing
<1>6. Stages(d)
  BY <1>3, StagesKept DEF Good, Unmoved
<1>7. Calls(c, d)
  <2>1. Steady(c, d) /\ Quiet(c, d) /\ d.active = c.active
    BY <1>3 DEF Steady, Unmoved
  <2> QED
    BY <1>1, <1>3, <2>1, CallsWith
<1> QED
  BY <1>3, <1>4, <1>5, <1>6, <1>7 DEF Good, Keeps, Closing, Unmoved

\* KeepMailboxOpenTask::closeMailboxDestructively(): CLOSE is queued at most once.
LEMMA Close ==
    ASSUME NEW c, Typed(c), Good(c), ~c.mIdling, c.deleting # "no",
           c.deleting = "performed" /\ Closing(c) => ~c.present,
           NEW d, d = closeMailboxDestructively(c)
    PROVE  Keeps(c, d) /\ Typed(d)
<1> DEFINE b == queueCommand(c, Cmd("CLOSE", "ATOM"))
<1>1. "CLOSE" \in Tag \ (Tracked \cup {"IDLE"})
  BY OwnCommands
<1>2. d = [b EXCEPT !.tagClose = TRUE] /\ b = queueCommand(c, Cmd("CLOSE", "ATOM"))
  BY DEF closeMailboxDestructively
<1> HIDE DEF b
<1>3. /\ Keeps(c, b) /\ Typed(b) /\ Unmoved(c, b) /\ Quiet(c, b) /\ ~b.mIdling
      /\ b.delayedEnter = c.delayedEnter
  BY <1>1, <1>2, SayCommand
<1>4. Shape(b)
  BY <1>3 DEF Typed
<1>5. But(b, d, {"tagClose"}) /\ d.tagClose = TRUE
  BY <1>2, <1>4 DEF Shape, Fields, But
<1>6. Typed(d) /\ Steady(b, d) /\ d.cmdQueue = b.cmdQueue /\ d.posted = b.posted /\ d.active = b.active
  BY <1>3, <1>5, ZenonT(60) DEF But, Fields, Typed, Steady
<1>7. Quiet(b, d)
  BY <1>3, <1>6, Sizes DEF Quiet, More
<1>8. Order(d)
  <2>1. Order(b) /\ d.cmdQueue = b.cmdQueue /\ d.idling = b.idling
        /\ d.mIdling = b.mIdling /\ d.waitForInitialIdle = b.waitForInitialIdle
        /\ d.waitingForContinuation = b.waitingForContinuation
    BY <1>3, <1>5 DEF But, Fields, Keeps, Good
  <2> QED
    BY <2>1, OrderSame
<1>9. Launch(d) /\ Duty(d)
  BY <1>3, <1>5, <1>7, ToTerminateKept DEF But, Fields, Keeps, Good, Launch, Duty, Nothing, Unmoved
<1>10. Stages(d)
  <2>1. Stages(b) /\ d.depending = b.depending /\ d.dependingAny = b.dependingAny
        /\ d.requested = b.requested /\ d.asked = b.asked /\ d.active = b.active
    BY <1>3, <1>5 DEF But, Fields, Keeps, Good
  <2> QED
    BY <1>7, <2>1, StagesKept
<1>11. Calls(b, d)
  BY <1>3, <1>6, <1>7, CallsQuietly
<1>12. Closing(c) => Closing(d)
  BY <1>3, <1>5 DEF But, Fields, Closing, Unmoved
<1>13. Calls(c, d)
  BY <1>3, <1>11, CallsTwice DEF Keeps
<1> QED
  BY <1>6, <1>8, <1>9, <1>10, <1>12, <1>13 DEF Good, Keeps


-----------------------------------------------------------------------------
(* Tasks come, are asked for, and are started                               *)

\* An event is posted once, behind the others.
LEMMA Posts ==
    ASSUME NEW c, Typed(c), NEW event \in Events, NEW task \in Tag \cup {NoTag},
           NEW d, d = Post(c, event, task)
    PROVE  /\ Typed(d) /\ But(c, d, {"posted"}) /\ More(c.posted, d.posted) /\ IsPosted(d, event)
           /\ \A i \in DOMAIN d.posted : \/ i \in DOMAIN c.posted
                                         \/ d.posted[i].event = event /\ d.posted[i].task = task
<1>1. PICK p \in Seq(Posted) :
         /\ d = [c EXCEPT !.posted = p] /\ More(c.posted, p)
         /\ \E i \in DOMAIN p : p[i].event = event
         /\ \A i \in DOMAIN p : \/ i \in DOMAIN c.posted
                                \/ p[i].event = event /\ p[i].task = task
  BY PostQuietly
<1>2. Shape(c)
  BY DEF Typed
<1>3. But(c, d, {"posted"}) /\ d.posted = p
  BY <1>1, <1>2, SMTT(30) DEF Shape, But, Fields
<1>4. Typed(d)
  BY <1>1, TypedPosted
<1> QED
  BY <1>1, <1>3, <1>4 DEF IsPosted

\* Posting slotActivateTasks() is quiet.
LEMMA ActivateQuietly ==
    ASSUME NEW c, Typed(c), NEW d, d = Activate(c)
    PROVE  Typed(d) /\ But(c, d, {"posted"}) /\ Quiet(c, d)
<1>1. "slotActivateTasks" \in Events /\ NoTag \in Tag \cup {NoTag}
      /\ d = Post(c, "slotActivateTasks", NoTag)
  BY DEF Events, Activate
<1>2. /\ Typed(d) /\ But(c, d, {"posted"}) /\ More(c.posted, d.posted)
      /\ \A i \in DOMAIN d.posted : i \in DOMAIN c.posted \/ d.posted[i].event = "slotActivateTasks"
  BY <1>1, Posts
<1> QED
  BY <1>2 DEF Quiet

\* Lists of different tasks
LEMMA OneMore ==
    ASSUME NEW s \in Seq(Tasks), NEW t \in Tasks, NoDup(s), t \notin ToSet(s)
    PROVE  /\ Append(s, t) \in Seq(Tasks) /\ NoDup(Append(s, t))
           /\ ToSet(Append(s, t)) = ToSet(s) \cup {t}
<1>1. /\ Append(s, t) \in Seq(Tasks) /\ Len(s) \in Nat
      /\ DOMAIN s = 1 .. Len(s) /\ DOMAIN Append(s, t) = 1 .. Len(s) + 1
      /\ Append(s, t)[Len(s) + 1] = t /\ \A i \in DOMAIN s : Append(s, t)[i] = s[i]
  BY Appended
<1> QED
  BY <1>1 DEF NoDup, ToSet

\* addDependentTask() when IDLE has been ended
Asked(c, t) ==
    [Activate(IF t \in AnyTasks THEN [c EXCEPT !.dependingAny = Append(@, t)]
              ELSE [c EXCEPT !.depending = Append(@, t)])
     EXCEPT !.asked = @ \cup {t}]

\* A task is asked for: it waits in the list for its kind.
LEMMA Ask ==
    ASSUME NEW c, Typed(c), Good(c), ~c.logout, ~c.aborted, NEW t \in Tasks, t \notin c.asked, Calm(c),
           NEW d, d = Asked(c, t)
    PROVE  Keeps(c, d) /\ Typed(d)
<1> DEFINE b == IF t \in AnyTasks THEN [c EXCEPT !.dependingAny = Append(@, t)]
                ELSE [c EXCEPT !.depending = Append(@, t)]
           a == Activate(b)
<1>1. Shape(c) /\ c.depending \in Seq(Tasks) /\ c.dependingAny \in Seq(Tasks)
      /\ t \notin Waiting(c) /\ t \notin c.active
      /\ NoDup(c.depending) /\ NoDup(c.dependingAny)
  BY DEF Typed, Good, Stages
<1>2. t \notin ToSet(c.depending) /\ t \notin ToSet(c.dependingAny) /\ t \notin ToSet(c.requested)
  BY <1>1 DEF Waiting
<1>3. /\ Append(c.depending, t) \in Seq(Tasks) /\ NoDup(Append(c.depending, t))
      /\ ToSet(Append(c.depending, t)) = ToSet(c.depending) \cup {t}
      /\ Append(c.dependingAny, t) \in Seq(Tasks) /\ NoDup(Append(c.dependingAny, t))
      /\ ToSet(Append(c.dependingAny, t)) = ToSet(c.dependingAny) \cup {t}
  BY <1>1, <1>2, OneMore
<1>4. But(c, b, {"depending", "dependingAny"})
  BY <1>1, ZenonT(60) DEF Shape, But, Fields
<1>5. IF t \in AnyTasks THEN b.dependingAny = Append(c.dependingAny, t) /\ b.depending = c.depending
      ELSE b.depending = Append(c.depending, t) /\ b.dependingAny = c.dependingAny
  BY <1>1 DEF Shape, Fields
<1> HIDE DEF b
<1>6. Typed(b)
  BY <1>3, <1>4, <1>5 DEF But, Fields, Typed
<1>7. Typed(a) /\ But(b, a, {"posted"}) /\ Quiet(b, a)
  BY <1>6, ActivateQuietly
<1>8. d = [a EXCEPT !.asked = @ \cup {t}] /\ Shape(a)
  BY <1>7 DEF b, Typed, Asked
<1> HIDE DEF a
<1>9. But(a, d, {"asked"}) /\ d.asked = a.asked \cup {t}
  BY <1>8 DEF Shape, But, Fields
<1>10. Typed(d)
  BY <1>7, <1>9 DEF But, Fields, Typed
<1>11. But(c, d, {"depending", "dependingAny", "posted", "asked"}) /\ d.asked = c.asked \cup {t}
       /\ d.depending = b.depending /\ d.dependingAny = b.dependingAny
  BY <1>4, <1>7, <1>9 DEF But, Fields
<1>12. Quiet(c, d)
  BY <1>4, <1>7, <1>9 DEF But, Fields, Quiet
<1>13. Order(d)
  <2>1. Order(c) /\ d.cmdQueue = c.cmdQueue /\ d.idling = c.idling
        /\ d.mIdling = c.mIdling /\ d.waitForInitialIdle = c.waitForInitialIdle
        /\ d.waitingForContinuation = c.waitingForContinuation
    BY <1>11 DEF But, Fields, Good
  <2> QED
    BY <2>1, OrderSame
<1>14. Launch(d) /\ Duty(d)
  BY <1>11, <1>12, ToTerminateKept DEF But, Fields, Good, Launch, Duty, Calm
<1>15. Stages(d)
  <2>1. NoDup(d.depending) /\ NoDup(d.dependingAny) /\ NoDup(d.requested)
    BY <1>3, <1>5, <1>11 DEF But, Fields, Good, Stages
  <2>2. /\ ToSet(d.depending) \subseteq ToSet(c.depending) \cup {t}
        /\ ToSet(d.dependingAny) \subseteq ToSet(c.dependingAny) \cup {t}
        /\ ToSet(d.requested) = ToSet(c.requested)
        /\ ToSet(d.depending) \cap ToSet(d.dependingAny) = {}
    BY <1>2, <1>3, <1>5, <1>11, ZenonT(60) DEF But, Fields, Good, Stages
  <2>3. \A i \in DOMAIN d.posted : d.posted[i].event = "slotTaskDeleted" =>
           i \in DOMAIN c.posted /\ d.posted[i] = c.posted[i]
    BY <1>12 DEF Quiet, More
  <2>4. d.active = c.active /\ d.asked = c.asked \cup {t} /\ Waiting(d) \subseteq Waiting(c) \cup {t}
    BY <1>11, <2>2 DEF But, Fields, Waiting
  <2>5. (ToSet(d.depending) \cup ToSet(d.dependingAny)) \cap ToSet(d.requested) = {}
    BY <1>2, <2>2 DEF Good, Stages
  <2>6. Waiting(d) \cap d.active = {} /\ Waiting(d) \cup (d.active \cap Tasks) \subseteq d.asked
    BY <1>1, <2>4 DEF Good, Stages
  <2>7. \A i \in DOMAIN d.posted : d.posted[i].event = "slotTaskDeleted" =>
           /\ d.posted[i].task \notin Waiting(d) \cup d.active
           /\ d.posted[i].task \in Tasks => d.posted[i].task \in d.asked
    <3>1. \A i \in DOMAIN c.posted : c.posted[i].event = "slotTaskDeleted" =>
             /\ c.posted[i].task \notin Waiting(c) \cup c.active
             /\ c.posted[i].task \in Tasks => c.posted[i].task \in c.asked
      BY DEF Good, Stages
    <3> QED
      BY <3>1, <2>3, <2>4
  <2> QED
    BY <2>1, <2>2, <2>5, <2>6, <2>7 DEF Stages
<1>16. Calls(c, d)
  <2>1. Steady(c, d) /\ d.cmdQueue = c.cmdQueue /\ d.active = c.active
    BY <1>11 DEF But, Fields, Steady
  <2> QED
    BY <1>10, <1>12, <2>1, CallsQuietly
<1> QED
  BY <1>10, <1>11, <1>13, <1>14, <1>15, <1>16 DEF Good, Keeps, Closing, But, Fields


\* The elements of a list are finitely many.
LEMMA FiniteList ==
    ASSUME NEW S, NEW s \in Seq(S)
    PROVE  IsFiniteSet(ToSet(s))
<1>1. s \in [1 .. Len(s) -> ToSet(s)] /\ Len(s) \in Nat
  BY DEF ToSet
<1>2. \A e \in ToSet(s) : \E i \in 1 .. Len(s) : s[i] = e
  BY DEF ToSet
<1>3. s \in Surjection(1 .. Len(s), ToSet(s))
  BY <1>1, <1>2 DEF Surjection
<1> QED
  BY <1>1, <1>3, FS_Interval, FS_Surjection

\* The first n of a list without duplicates, and the others
LEMMA Taking ==
    ASSUME NEW s \in Seq(Tasks), NoDup(s), NEW n \in 0 .. Len(s)
    PROVE  LET now == SubSeq(s, 1, n)
               rest == SubSeq(s, n + 1, Len(s))
           IN
           /\ now \in Seq(Tasks) /\ rest \in Seq(Tasks) /\ NoDup(now) /\ NoDup(rest)
           /\ ToSet(now) \cup ToSet(rest) = ToSet(s) /\ ToSet(now) \cap ToSet(rest) = {}
           /\ Len(now) = n /\ IsFiniteSet(ToSet(now)) /\ ToSet(now) \subseteq Tasks
           /\ (n = 0 => now = <<>> /\ rest = s)
<1> DEFINE now == SubSeq(s, 1, n)
           rest == SubSeq(s, n + 1, Len(s))
<1>1. /\ now \in Seq(Tasks) /\ Len(now) = n /\ DOMAIN now = 1 .. n
      /\ \A i \in 1 .. n : now[i] = s[i]
      /\ rest \in Seq(Tasks) /\ Len(rest) = Len(s) - n /\ DOMAIN rest = 1 .. Len(s) - n
      /\ \A i \in 1 .. Len(s) - n : rest[i] = s[n + i]
      /\ DOMAIN s = 1 .. Len(s) /\ Len(s) \in Nat /\ n \in Nat
  OBVIOUS
<1>9. n = 0 => now = <<>> /\ rest = s
  BY <1>1
<1> HIDE DEF now, rest
<1>2. NoDup(now)
  BY <1>1 DEF NoDup
<1>3. NoDup(rest)
  <2> SUFFICES ASSUME NEW i \in 1 .. Len(s) - n, NEW j \in 1 .. Len(s) - n, rest[i] = rest[j]
               PROVE  i = j
    BY <1>1 DEF NoDup
  <2>1. n + i \in DOMAIN s /\ n + j \in DOMAIN s /\ s[n + i] = s[n + j]
    BY <1>1
  <2>2. n + i = n + j
    BY <2>1 DEF NoDup
  <2> QED
    BY <2>2, <1>1
<1>4. ASSUME NEW i \in DOMAIN s, i \notin 1 .. n
      PROVE  i - n \in DOMAIN rest /\ s[i] = rest[i - n]
  <2>1. i - n \in 1 .. Len(s) - n /\ n + (i - n) = i
    BY <1>1, <1>4
  <2>2. rest[i - n] = s[n + (i - n)]
    BY <1>1, <2>1
  <2> QED
    BY <1>1, <2>1, <2>2
<1>5. \A i \in 1 .. Len(s) - n : n + i \in DOMAIN s /\ n + i \notin 1 .. n
  BY <1>1
<1>6. ToSet(now) \cup ToSet(rest) = ToSet(s)
  <2>1. ASSUME NEW e \in ToSet(s) PROVE e \in ToSet(now) \cup ToSet(rest)
    <3>1. PICK i \in DOMAIN s : e = s[i]
      BY DEF ToSet
    <3>2. CASE i \in 1 .. n
      BY <1>1, <3>1, <3>2 DEF ToSet
    <3>3. CASE i \notin 1 .. n
      BY <1>4, <3>1, <3>3 DEF ToSet
    <3> QED
      BY <3>2, <3>3
  <2>2. ToSet(now) \subseteq ToSet(s)
    BY <1>1 DEF ToSet
  <2>3. ToSet(rest) \subseteq ToSet(s)
    BY <1>1, <1>5 DEF ToSet
  <2> QED
    BY <2>1, <2>2, <2>3
<1>7. ToSet(now) \cap ToSet(rest) = {}
  <2> SUFFICES ASSUME NEW i \in 1 .. n, NEW j \in 1 .. Len(s) - n, now[i] = rest[j] PROVE FALSE
    BY <1>1 DEF ToSet
  <2>1. i \in DOMAIN s /\ n + j \in DOMAIN s /\ s[i] = s[n + j] /\ i # n + j
    BY <1>1
  <2> QED
    BY <2>1 DEF NoDup
<1>8. ToSet(now) \subseteq Tasks
  BY <1>1 DEF ToSet
<1>10. IsFiniteSet(ToSet(now))
  BY <1>1, FiniteList
<1> QED
  BY <1>1, <1>2, <1>3, <1>6, <1>7, <1>8, <1>9, <1>10 DEF now, rest

\* Two lists without a common element
LEMMA JoinedLists ==
    ASSUME NEW s \in Seq(Tasks), NEW t \in Seq(Tasks), NoDup(s), NoDup(t), ToSet(s) \cap ToSet(t) = {}
    PROVE  NoDup(s \o t) /\ ToSet(s \o t) = ToSet(s) \cup ToSet(t) /\ s \o t \in Seq(Tasks)
<1> DEFINE r == s \o t
<1>1. /\ r \in Seq(Tasks) /\ Len(s) \in Nat /\ Len(t) \in Nat
      /\ DOMAIN s = 1 .. Len(s) /\ DOMAIN t = 1 .. Len(t) /\ DOMAIN r = 1 .. Len(s) + Len(t)
      /\ \A i \in DOMAIN s : r[i] = s[i]
      /\ \A i \in DOMAIN t : r[Len(s) + i] = t[i]
      /\ \A i \in DOMAIN r : i \notin DOMAIN s => i - Len(s) \in DOMAIN t /\ r[i] = t[i - Len(s)]
  BY Joined
<1> HIDE DEF r
<1>2. \A i \in DOMAIN r : r[i] \in ToSet(s) <=> i \in DOMAIN s
  BY <1>1 DEF ToSet
<1>3. NoDup(r)
  <2> SUFFICES ASSUME NEW i \in DOMAIN r, NEW j \in DOMAIN r, r[i] = r[j] PROVE i = j
    BY DEF NoDup
  <2>1. CASE i \in DOMAIN s
    BY <2>1, <1>1, <1>2 DEF NoDup
  <2>2. CASE i \notin DOMAIN s
    <3>1. j \notin DOMAIN s
      BY <2>2, <1>2
    <3>2. i - Len(s) = j - Len(s)
      BY <2>2, <3>1, <1>1 DEF NoDup
    <3> QED
      BY <3>2, <1>1
  <2> QED
    BY <2>1, <2>2
<1>4. \A i \in DOMAIN t : Len(s) + i \in DOMAIN r
  BY <1>1
<1>5. ToSet(r) = ToSet(s) \cup ToSet(t)
  <2>1. ASSUME NEW e \in ToSet(r) PROVE e \in ToSet(s) \cup ToSet(t)
    BY <1>1 DEF ToSet
  <2>2. ToSet(s) \subseteq ToSet(r)
    BY <1>1 DEF ToSet
  <2>3. ToSet(t) \subseteq ToSet(r)
    BY <1>1, <1>4 DEF ToSet
  <2> QED
    BY <2>1, <2>2, <2>3
<1> QED
  BY <1>1, <1>3, <1>5 DEF r


\* Events of one kind are posted behind the others.
LEMMA MorePosted ==
    ASSUME NEW s \in Seq(Posted), NEW t \in Seq(Posted), NEW event, \A i \in DOMAIN t : t[i].event = event
    PROVE  /\ s \o t \in Seq(Posted) /\ More(s, s \o t)
           /\ \A i \in DOMAIN (s \o t) : i \in DOMAIN s \/ (s \o t)[i].event = event
           /\ t # <<>> => \E i \in DOMAIN (s \o t) : (s \o t)[i].event = event
<1> DEFINE r == s \o t
<1>1. /\ r \in Seq(Posted) /\ Len(s) \in Nat /\ Len(t) \in Nat
      /\ DOMAIN s = 1 .. Len(s) /\ DOMAIN t = 1 .. Len(t) /\ DOMAIN r = 1 .. Len(s) + Len(t)
      /\ \A i \in DOMAIN s : r[i] = s[i]
      /\ \A i \in DOMAIN t : r[Len(s) + i] = t[i]
      /\ \A i \in DOMAIN r : i \notin DOMAIN s => i - Len(s) \in DOMAIN t /\ r[i] = t[i - Len(s)]
      /\ (t = <<>> <=> Len(t) = 0)
  BY Joined
<1>2. Len(r) = Len(s) + Len(t)
  BY <1>1
<1> HIDE DEF r
<1>3. More(s, r)
  BY <1>1, <1>2 DEF More
<1>4. t # <<>> => 1 \in DOMAIN t /\ Len(s) + 1 \in DOMAIN r
  BY <1>1
<1>5. \A i \in DOMAIN r : i \in DOMAIN s \/ r[i].event = event
  BY <1>1
<1>6. t # <<>> => \E i \in DOMAIN r : r[i].event = event
  BY <1>1, <1>4
<1> QED
  BY <1>1, <1>3, <1>5, <1>6 DEF r

\* An event is posted n times.
Often(p, event, n) == p \o [i \in 1 .. n |-> [event |-> event, task |-> NoTag]]

\* n times the same event is posted.
LEMMA Waken ==
    ASSUME NEW p \in Seq(Posted), NEW n \in Nat, NEW event \in {"executeCommands", "slotActivateTasks"}
    PROVE  /\ Often(p, event, n) \in Seq(Posted) /\ More(p, Often(p, event, n))
           /\ \A i \in DOMAIN Often(p, event, n) : i \in DOMAIN p \/ Often(p, event, n)[i].event = event
           /\ n # 0 => \E i \in DOMAIN Often(p, event, n) : Often(p, event, n)[i].event = event
<1> DEFINE e == [event |-> event, task |-> NoTag]
           t == [i \in 1 .. n |-> e]
<1>1. e \in Posted /\ e.event = event
  BY DEF Posted, Events
<1>2. Often(p, event, n) = p \o t
  BY DEF Often
<1> HIDE DEF e
<1>3. t \in Seq(Posted) /\ (\A i \in DOMAIN t : t[i].event = event) /\ (n # 0 => t # <<>>)
  BY <1>1
<1> HIDE DEF t
<1>4. /\ p \o t \in Seq(Posted) /\ More(p, p \o t)
      /\ \A i \in DOMAIN (p \o t) : i \in DOMAIN p \/ (p \o t)[i].event = event
      /\ t # <<>> => \E i \in DOMAIN (p \o t) : (p \o t)[i].event = event
  BY <1>3, MorePosted, ZenonT(60)
<1> QED
  BY <1>2, <1>3, <1>4

\* slotFetchRequestedParts() for the first n requests
Fetched(c, n) ==
    [c EXCEPT !.requested = SubSeq(@, n + 1, Len(@)),
              !.fetching = @ \cup ToSet(SubSeq(c.requested, 1, n)),
              !.depending = @ \o SubSeq(c.requested, 1, n),
              !.posted = @ \o [i \in 1 .. n |-> [event |-> "slotActivateTasks", task |-> NoTag]]]

Fetched4(c, rest, all, dep, p) ==
    [c EXCEPT !.requested = rest, !.fetching = all, !.depending = dep, !.posted = p]

\* The fields which asking for parts changes
LEMMA FetchedFields ==
    ASSUME NEW c, Shape(c), NEW rest, NEW all, NEW dep, NEW p, NEW d,
           d = Fetched4(c, rest, all, dep, p)
    PROVE  /\ But(c, d, {"requested", "fetching", "depending", "posted"})
           /\ d.requested = rest /\ d.fetching = all /\ d.depending = dep /\ d.posted = p
BY ZenonT(60) DEF Shape, But, Fields, Fetched4

\* The first n parts which are asked for become tasks which wait.
LEMMA FetchSome ==
    ASSUME NEW c, Typed(c), Good(c), Calm(c), NEW n \in 0 .. Len(c.requested), NEW d, d = Fetched(c, n)
    PROVE  /\ Keeps(c, d) /\ Typed(d) /\ Calm(d) /\ Quiet(c, d)
           /\ But(c, d, {"requested", "fetching", "depending", "posted"})
<1> DEFINE now == SubSeq(c.requested, 1, n)
           rest == SubSeq(c.requested, n + 1, Len(c.requested))
           dep == c.depending \o now
           all == c.fetching \cup ToSet(now)
           p == Often(c.posted, "slotActivateTasks", n)
<1>1. /\ c.requested \in Seq(Tasks) /\ NoDup(c.requested) /\ Shape(c) /\ n \in Nat
      /\ c.depending \in Seq(Tasks) /\ NoDup(c.depending) /\ IsFiniteSet(c.fetching)
  BY DEF Typed, Good, Stages
<1>2. /\ now \in Seq(Tasks) /\ rest \in Seq(Tasks) /\ NoDup(now) /\ NoDup(rest)
      /\ ToSet(now) \cup ToSet(rest) = ToSet(c.requested) /\ ToSet(now) \cap ToSet(rest) = {}
      /\ IsFiniteSet(ToSet(now)) /\ (n = 0 => now = <<>> /\ rest = c.requested)
  BY <1>1, Taking
<1>3. /\ p \in Seq(Posted) /\ More(c.posted, p)
      /\ \A i \in DOMAIN p : i \in DOMAIN c.posted \/ p[i].event = "slotActivateTasks"
  <2>1. c.posted \in Seq(Posted) /\ n \in Nat
        /\ "slotActivateTasks" \in {"executeCommands", "slotActivateTasks"}
    BY <1>1 DEF Typed
  <2> QED
    BY <2>1, Waken, ZenonT(60)
<1>4. d = Fetched4(c, rest, all, dep, p)
  BY DEF Fetched, Fetched4, Often
<1> HIDE DEF p
<1>a. all = c.fetching \cup ToSet(now)
  OBVIOUS
<1> HIDE DEF all
<1>5. c.aborted => c.requested = <<>>
  BY DEF Good, Duty
<1>6. c.aborted => n = 0
  BY <1>1, <1>5
<1> HIDE DEF now, rest
<1>7. NoDup(dep) /\ ToSet(dep) = ToSet(c.depending) \cup ToSet(now) /\ dep \in Seq(Tasks)
      /\ ToSet(c.depending) \cap ToSet(now) = {}
  <2>1. ToSet(c.depending) \cap ToSet(now) = {}
    BY <1>2 DEF Good, Stages
  <2> QED
    BY <1>1, <1>2, <2>1, JoinedLists
<1>8. c.aborted => dep = <<>> /\ rest = <<>>
  <2> SUFFICES ASSUME c.aborted PROVE dep = <<>> /\ rest = <<>>
    OBVIOUS
  <2>1. c.depending = <<>> /\ now = <<>> /\ rest = <<>>
    BY <1>2, <1>5, <1>6 DEF Good, Duty
  <2> QED
    BY <2>1
<1> HIDE DEF dep
<1>9. /\ But(c, d, {"requested", "fetching", "depending", "posted"})
      /\ d.requested = rest /\ d.fetching = all /\ d.depending = dep /\ d.posted = p
  <2>1. Shape(c)
    BY <1>1
  <2> QED
    BY <2>1, <1>4, FetchedFields
<1>10. Quiet(c, d)
  BY <1>3, <1>9 DEF Quiet
<1>11. IsFiniteSet(d.fetching)
  <2>1. IsFiniteSet(c.fetching) /\ IsFiniteSet(ToSet(now)) /\ d.fetching = c.fetching \cup ToSet(now)
    BY <1>a, <1>1, <1>2, <1>9
  <2>2. IsFiniteSet(c.fetching \cup ToSet(now))
    BY <2>1, FS_Union
  <2> QED
    BY <2>1, <2>2
<1>12. Typed(d)
  BY <1>2, <1>3, <1>7, <1>9, <1>11 DEF But, Fields, Typed
<1>13. Calm(d)
  BY <1>9 DEF But, Fields, Calm
<1>14. Order(d)
  <2>1. Order(c) /\ d.cmdQueue = c.cmdQueue /\ d.idling = c.idling
        /\ d.mIdling = c.mIdling /\ d.waitForInitialIdle = c.waitForInitialIdle
        /\ d.waitingForContinuation = c.waitingForContinuation
    BY <1>9 DEF But, Fields, Good
  <2> QED
    BY <2>1, OrderSame
<1>15. Launch(d) /\ Duty(d)
  BY <1>8, <1>9, <1>10, <1>13, ToTerminateKept DEF But, Fields, Good, Launch, Duty, Calm
<1>16. Stages(d)
  <2>1. /\ NoDup(d.depending) /\ NoDup(d.dependingAny) /\ NoDup(d.requested)
        /\ d.active = c.active /\ d.asked = c.asked
    BY <1>2, <1>7, <1>9 DEF But, Fields, Good, Stages
  <2>2. /\ ToSet(d.depending) = ToSet(c.depending) \cup ToSet(now)
        /\ ToSet(d.dependingAny) = ToSet(c.dependingAny)
        /\ ToSet(d.requested) = ToSet(rest)
    BY <1>7, <1>9 DEF But, Fields
  <2>3. Waiting(d) = Waiting(c)
    BY <1>2, <2>2 DEF Waiting
  <2>4. /\ ToSet(d.depending) \cap ToSet(d.dependingAny) = {}
        /\ (ToSet(d.depending) \cup ToSet(d.dependingAny)) \cap ToSet(d.requested) = {}
    BY <1>2, <2>2 DEF Good, Stages
  <2>5. \A i \in DOMAIN d.posted : d.posted[i].event = "slotTaskDeleted" =>
           i \in DOMAIN c.posted /\ d.posted[i] = c.posted[i]
    BY <1>10 DEF Quiet, More
  <2> QED
    BY <2>1, <2>3, <2>4, <2>5 DEF Good, Stages
<1>17. Calls(c, d)
  <2>1. Steady(c, d) /\ d.cmdQueue = c.cmdQueue /\ d.active = c.active
    BY <1>9 DEF But, Fields, Steady
  <2> QED
    BY <1>10, <1>12, <2>1, CallsQuietly
<1> QED
  BY <1>9, <1>10, <1>12, <1>13, <1>14, <1>15, <1>16, <1>17 DEF Good, Keeps, Closing, But, Fields

\* The smaller of two numbers
LEMMA SmallerNat ==
    ASSUME NEW m \in Nat, NEW n \in Nat
    PROVE  Smaller(m, n) \in 0 .. m
BY DEF Smaller

\* A method which changes nothing keeps everything.
LEMMA KeepsSame ==
    ASSUME NEW c, Typed(c), Good(c)
    PROVE  Keeps(c, c) /\ Quiet(c, c) /\ \A S : But(c, c, S)
<1>1. More(c.posted, c.posted) /\ Quiet(c, c)
  BY Sizes DEF More, Quiet
<1>2. Calls(c, c)
  BY <1>1, CallsQuietly DEF Steady
<1> QED
  BY <1>1, <1>2 DEF Keeps, But, Typed

\* What a queued command may change
LEMMA UnmovedBut ==
    ASSUME NEW c, NEW d, Typed(d), Unmoved(c, d)
    PROVE  But(c, d, {"cmdQueue", "posted", "mIdling", "delayedEnter", "renewal"})
BY DEF Typed, Unmoved, But, Fields

\* What asking for parts and starting tasks changes
OfTasks == {"cmdQueue", "posted", "mIdling", "delayedEnter", "renewal", "requested", "fetching",
            "depending", "dependingAny", "active", "running"}

\* KeepMailboxOpenTask::slotFetchRequestedParts(), for any limit
LEMMA Fetch ==
    ASSUME NEW c, Typed(c), Good(c), NEW d, d = slotFetchRequestedParts(c)
    PROVE  Keeps(c, d) /\ Typed(d) /\ (Calm(c) => Calm(d)) /\ But(c, d, OfTasks)
<1>1. CASE c.requested = <<>>
  <2>1. d = c
    BY <1>1 DEF slotFetchRequestedParts
  <2>2. Keeps(c, c) /\ \A S : But(c, c, S)
    BY KeepsSame
  <2> QED
    BY <2>1, <2>2
<1>2. CASE c.requested # <<>>
  <2> DEFINE b == breakOrCancelPossibleIdle(c)
             room == IF c.shouldExit \/ limitParallelFetchTasks < Cardinality(c.fetching)
                     THEN IF c.shouldExit THEN Len(c.requested) ELSE 0
                     ELSE Smaller(Len(c.requested),
                                  limitParallelFetchTasks - Cardinality(c.fetching))
  <2>1. Keeps(c, b) /\ Typed(b) /\ Calm(b) /\ Unmoved(c, b)
    BY Break
  <2>2. room \in 0 .. Len(c.requested)
    <3>1. Cardinality(c.fetching) \in Nat /\ limitParallelFetchTasks \in Nat
      BY FS_CardinalityType, HandoverAssumption DEF Typed
    <3>2. Len(c.requested) \in Nat
      BY DEF Typed
    <3>3. ~(limitParallelFetchTasks < Cardinality(c.fetching)) =>
             limitParallelFetchTasks - Cardinality(c.fetching) \in Nat
      BY <3>1
    <3>4. \A k \in Nat : Smaller(Len(c.requested), k) \in 0 .. Len(c.requested)
      BY <3>2, SmallerNat
    <3>5. 0 \in 0 .. Len(c.requested) /\ Len(c.requested) \in 0 .. Len(c.requested)
      BY <3>2
    <3> QED
      BY <3>3, <3>4, <3>5
  <2>3. b.requested = c.requested /\ Good(b)
    BY <2>1 DEF Unmoved, Keeps
  <2>4. d = Fetched(b, room)
    BY <1>2, <2>3 DEF slotFetchRequestedParts, Fetched
  <2>5. But(c, b, {"cmdQueue", "posted", "mIdling", "delayedEnter", "renewal"})
    BY <2>1, UnmovedBut
  <2> HIDE DEF b, room
  <2>6. Keeps(b, d) /\ Typed(d) /\ Calm(d) /\ But(b, d, {"requested", "fetching", "depending", "posted"})
    <3>1. room \in 0 .. Len(b.requested) /\ Typed(b) /\ Good(b) /\ Calm(b)
      BY <2>1, <2>2, <2>3
    <3> QED
      BY <2>4, <3>1, FetchSome
  <2>7. Keeps(c, d)
    BY <2>1, <2>6, KeepsTwice
  <2>8. But(c, d, OfTasks)
    BY <2>5, <2>6 DEF But, OfTasks
  <2> QED
    BY <2>6, <2>7, <2>8
<1> QED
  BY <1>1, <1>2


-----------------------------------------------------------------------------
(* Tasks are started                                                        *)

\* Ordinary commands may be queued whenever IDLE is not about to run.
LEMMA OrderJoined ==
    ASSUME NEW c, NEW d, NEW x \in Seq(Command), Order(c), c.cmdQueue \in Seq(Command),
           \A i \in DOMAIN x : Ordinary(x[i]), ~c.mIdling, ~d.mIdling, d.mIdling \in BOOLEAN,
           d.cmdQueue = c.cmdQueue \o x, d.idling = c.idling,
           d.waitForInitialIdle = c.waitForInitialIdle,
           d.waitingForContinuation = c.waitingForContinuation
    PROVE  Order(d)
<1> DEFINE q == c.cmdQueue
           r == d.cmdQueue
           n == Len(q)
           m == Len(x)
<1>1. /\ n \in Nat /\ m \in Nat
      /\ DOMAIN q = 1 .. n /\ DOMAIN x = 1 .. m /\ DOMAIN r = 1 .. n + m
      /\ \A i \in DOMAIN q : r[i] = q[i]
      /\ \A i \in DOMAIN x : r[n + i] = x[i]
      /\ \A i \in DOMAIN r : i \notin DOMAIN q => i - n \in DOMAIN x /\ r[i] = x[i - n]
      /\ (q = <<>> <=> n = 0) /\ (x = <<>> <=> m = 0)
  BY Joined
<1>2. Len(r) = n + m /\ r \in Seq(Command)
  BY <1>1
<1>3. r # <<>> => n + m # 0
  BY <1>2
<1>4. (q # <<>> => q[n].kind # "IDLE") /\ (q = <<>> => ~c.idling)
  BY DEF Order, EndsInIdle
<1>5. /\ c.idling /\ q # <<>> => q[1].kind = "IDLE_DONE"
      /\ q # <<>> /\ q[1].kind = "IDLE_DONE" => c.idling
      /\ \A i \in DOMAIN q : i + 1 \in DOMAIN q => (q[i].kind = "IDLE" <=> q[i + 1].kind = "IDLE_DONE")
      /\ \A i \in DOMAIN q :
           /\ q[i].numberSent => i = 1 /\ q[i].kind = "LITERAL"
           /\ q[i].kind \in {"IDLE", "IDLE_DONE"} <=> q[i].tag = "IDLE"
           /\ q[i].kind = "LITERAL" => q[i].tag \in Tasks
      /\ c.waitForInitialIdle => c.idling
      /\ ~(c.waitingForContinuation /\ c.idling)
      /\ c.idling \in BOOLEAN /\ c.mIdling \in BOOLEAN
  BY DEF Order
<1> HIDE DEF q, r, n, m
<1>6. \A i \in DOMAIN r : i \notin DOMAIN q => Ordinary(r[i])
  BY <1>1
<1>7. \A i \in DOMAIN r :
         /\ r[i].numberSent => i = 1 /\ r[i].kind = "LITERAL"
         /\ r[i].kind \in {"IDLE", "IDLE_DONE"} <=> r[i].tag = "IDLE"
         /\ r[i].kind = "LITERAL" => r[i].tag \in Tasks
  BY <1>1, <1>5, <1>6 DEF Ordinary
<1>8. \A i \in DOMAIN r : i + 1 \in DOMAIN r => (r[i].kind = "IDLE" <=> r[i + 1].kind = "IDLE_DONE")
  <2> SUFFICES ASSUME NEW i \in DOMAIN r, i + 1 \in DOMAIN r
               PROVE  r[i].kind = "IDLE" <=> r[i + 1].kind = "IDLE_DONE"
    OBVIOUS
  <2>1. CASE i + 1 \in DOMAIN q
    <3>1. i \in DOMAIN q
      BY <2>1, <1>1
    <3> QED
      BY <2>1, <3>1, <1>1, <1>5
  <2>2. CASE i + 1 \notin DOMAIN q
    <3>1. r[i + 1].kind # "IDLE_DONE"
      BY <2>2, <1>6 DEF Ordinary
    <3>2. CASE i \in DOMAIN q
      <4>1. i = n /\ q # <<>> /\ r[i] = q[n]
        BY <2>2, <3>2, <1>1
      <4> QED
        BY <4>1, <3>1, <1>4
    <3>3. CASE i \notin DOMAIN q
      BY <3>1, <3>3, <1>6 DEF Ordinary
    <3> QED
      BY <3>2, <3>3
  <2> QED
    BY <2>1, <2>2
<1>9. r # <<>> => 1 \in DOMAIN r /\ n + m \in DOMAIN r
  BY <1>1, <1>3
<1>10. r # <<>> => (d.idling <=> r[1].kind = "IDLE_DONE")
  <2> SUFFICES ASSUME r # <<>> PROVE d.idling <=> r[1].kind = "IDLE_DONE"
    OBVIOUS
  <2>1. CASE q = <<>>
    BY <2>1, <1>1, <1>4, <1>6, <1>9, <1>5, SMTT(30) DEF Ordinary
  <2>2. CASE q # <<>>
    <3>1. 1 \in DOMAIN q /\ r[1] = q[1]
      BY <2>2, <1>1
    <3> QED
      BY <2>2, <3>1, <1>5
  <2> QED
    BY <2>1, <2>2
<1>11. ~EndsInIdle(d)
  <2>1. CASE r = <<>>
    <3>1. q = <<>>
      BY <2>1, <1>1, <1>2
    <3> QED
      BY <2>1, <3>1, <1>4 DEF EndsInIdle, r
  <2>2. CASE r # <<>>
    <3>1. r[n + m].kind # "IDLE"
      <4>1. CASE m = 0
        <5>1. n + m = n /\ q # <<>> /\ r[n] = q[n]
          BY <4>1, <1>1, <1>3, <2>2
        <5> QED
          BY <5>1, <1>4
      <4>2. CASE m # 0
        <5>1. n + m \notin DOMAIN q
          BY <4>2, <1>1
        <5> QED
          BY <5>1, <1>6, <1>9, <2>2 DEF Ordinary
      <4> QED
        BY <4>1, <4>2
    <3> QED
      BY <2>2, <3>1, <1>2 DEF EndsInIdle, r
  <2> QED
    BY <2>1, <2>2
<1> QED
  BY <1>5, <1>7, <1>8, <1>10, <1>11 DEF Order, r

\* The commands of tasks which are started
Said(now) == [i \in DOMAIN now |-> Cmd(now[i], IF now[i] \in LiteralTasks THEN "LITERAL" ELSE "ATOM")]

\* The commands of the tasks which start
LEMMA SaidCommands ==
    ASSUME NEW now \in Seq(Tasks)
    PROVE  /\ Said(now) \in Seq(Command) /\ Len(Said(now)) = Len(now) /\ DOMAIN Said(now) = DOMAIN now
           /\ \A i \in DOMAIN now : Ordinary(Said(now)[i]) /\ Said(now)[i].tag = now[i]
<1>1. \A t \in Tasks : t \in Tag /\ t # "IDLE"
  BY OwnCommands DEF Tag, OwnTags
<1>2. \A t \in Tasks, k \in {"LITERAL", "ATOM"} :
         /\ Cmd(t, k) \in Command /\ Cmd(t, k).tag = t /\ Cmd(t, k).kind = k /\ ~Cmd(t, k).numberSent
  BY <1>1, OwnCommands
<1>3. \A i \in DOMAIN now : now[i] \in Tasks
  OBVIOUS
<1>4. \A i \in DOMAIN now : \E k \in {"LITERAL", "ATOM"} : Said(now)[i] = Cmd(now[i], k)
  BY DEF Said
<1>5. \A i \in DOMAIN now : Said(now)[i] \in Command /\ Ordinary(Said(now)[i]) /\ Said(now)[i].tag = now[i]
  BY <1>1, <1>2, <1>3, <1>4 DEF Ordinary
<1>6. DOMAIN Said(now) = 1 .. Len(now) /\ Len(now) \in Nat
  BY DEF Said
<1>7. Said(now) \in [1 .. Len(now) -> Command]
  BY <1>5, <1>6 DEF Said
<1> QED
  BY <1>5, <1>6, <1>7

\* Commands of tasks which were not active join the queue: each is new, and tracked.
LEMMA CallsJoined ==
    ASSUME NEW c, NEW d, NEW now \in Seq(Tasks), Typed(c), Typed(d), Steady(c, d), NoDup(now),
           ToSet(now) \cap c.active = {}, d.active = c.active \cup ToSet(now),
           d.cmdQueue = c.cmdQueue \o Said(now), Quiet(c, d),
           now # <<>> => ~c.logout /\ IsPosted(d, "executeCommands")
    PROVE  Calls(c, d)
<1> DEFINE q == c.cmdQueue
           r == d.cmdQueue
           x == Said(now)
           n == Len(q)
<1>1. /\ x \in Seq(Command) /\ Len(x) = Len(now) /\ DOMAIN x = DOMAIN now
      /\ \A i \in DOMAIN now : Ordinary(x[i]) /\ x[i].tag = now[i]
      /\ q \in Seq(Command) /\ r = q \o x
  BY SaidCommands DEF Typed
<1> HIDE DEF q, r, x
<1>2. /\ n \in Nat /\ Len(now) \in Nat
      /\ DOMAIN q = 1 .. n /\ DOMAIN now = 1 .. Len(now) /\ DOMAIN r = 1 .. n + Len(now)
      /\ \A i \in DOMAIN q : r[i] = q[i]
      /\ \A i \in DOMAIN now : r[n + i] = x[i]
      /\ \A i \in DOMAIN r : i \notin DOMAIN q => i - n \in DOMAIN now /\ r[i] = x[i - n]
      /\ Len(r) = n + Len(now) /\ r \in Seq(Command)
  <2>0. q \in Seq(Command) /\ x \in Seq(Command)
    BY <1>1
  <2>1. /\ q \o x \in Seq(Command) /\ Len(q) \in Nat /\ Len(x) \in Nat
        /\ DOMAIN q = 1 .. Len(q) /\ DOMAIN x = 1 .. Len(x) /\ DOMAIN (q \o x) = 1 .. Len(q) + Len(x)
        /\ \A i \in DOMAIN q : (q \o x)[i] = q[i]
        /\ \A i \in DOMAIN x : (q \o x)[Len(q) + i] = x[i]
        /\ \A i \in DOMAIN (q \o x) :
              i \notin DOMAIN q => i - Len(q) \in DOMAIN x /\ (q \o x)[i] = x[i - Len(q)]
    BY <2>0, Joined
  <2>2. Len(q \o x) = Len(q) + Len(x)
    BY <2>0
  <2> QED
    BY <1>1, <2>1, <2>2
<1> HIDE DEF n
<1>3. More(q, r)
  <2>1. n <= n + Len(now)
    BY <1>2
  <2> QED
    BY <1>2, <2>1 DEF More, n
<1>4. \A i \in New(c, d) : i - n \in DOMAIN now /\ Ordinary(r[i]) /\ r[i].tag = now[i - n]
  BY <1>1, <1>2 DEF New, q, r
<1>5. \A i \in DOMAIN now : n + i \in New(c, d)
  BY <1>2 DEF New, q, r
<1>6. \A t \in ToSet(now) : \E i \in New(c, d) : r[i].tag = t /\ r[i].kind # "IDLE_DONE"
  <2> SUFFICES ASSUME NEW j \in DOMAIN now
               PROVE  \E i \in New(c, d) : r[i].tag = now[j] /\ r[i].kind # "IDLE_DONE"
    BY DEF ToSet
  <2>1. n + j \in New(c, d) /\ r[n + j].tag = now[j] /\ r[n + j].kind # "IDLE_DONE"
    BY <1>1, <1>2, <1>5 DEF Ordinary
  <2> QED
    BY <2>1
<1>7. Started(c, d) = ToSet(now)
  BY DEF Started
<1>8. \A i \in DOMAIN now : now[i] \in ToSet(now)
  BY DEF ToSet
<1>9. \A i, j \in New(c, d) : r[i].tag = r[j].tag => i = j
  <2> SUFFICES ASSUME NEW i \in New(c, d), NEW j \in New(c, d), r[i].tag = r[j].tag PROVE i = j
    OBVIOUS
  <2>1. i - n = j - n
    BY <1>4 DEF NoDup
  <2>2. i \in DOMAIN r /\ j \in DOMAIN r
    BY DEF New, r
  <2> QED
    BY <2>1, <2>2, <1>2
<1>10. \A i \in New(c, d) : /\ r[i].kind # "IDLE" /\ ~r[i].numberSent /\ r[i].tag # "IDLE"
                            /\ r[i].tag \in Started(c, d)
  BY <1>4, <1>7, <1>8 DEF Ordinary
<1>11. now = <<>> => r = q
  BY <1>1, <1>2 DEF x
<1>12. \A t \in Started(c, d) : ~c.logout /\ t # "DELETE"
  <2>1. ToSet(now) # {} => now # <<>>
    BY DEF ToSet
  <2>2. ToSet(now) \subseteq Tasks
    BY DEF ToSet
  <2> QED
    BY <1>7, <2>1, <2>2, OwnCommands
<1>13. More(c.posted, d.posted) /\ Undeleted(c, d)
  BY DEF Quiet, Undeleted
<1>14. r # q => IsPosted(d, "executeCommands")
  BY <1>11
<1>15. c.active \subseteq d.active
  OBVIOUS
<1>16. \A t \in Started(c, d) : \E i \in New(c, d) : r[i].tag = t /\ r[i].kind # "IDLE_DONE"
  BY <1>6, <1>7
<1> QED
  BY <1>3, <1>9, <1>10, <1>12, <1>13, <1>14, <1>15, <1>16 DEF Calls, q, r

\* Every task which is started posts executeCommands().
LEMMA WakenForEach ==
    ASSUME NEW c, c.posted \in Seq(Posted), NEW n \in Nat, NEW d,
           d.posted = Often(c.posted, "executeCommands", n)
    PROVE  /\ d.posted \in Seq(Posted) /\ More(c.posted, d.posted)
           /\ \A i \in DOMAIN d.posted : i \in DOMAIN c.posted \/ d.posted[i].event = "executeCommands"
           /\ n # 0 => IsPosted(d, "executeCommands")
<1> DEFINE p == c.posted
           r == d.posted
           Event(e) == /\ Often(p, e, n) \in Seq(Posted) /\ More(p, Often(p, e, n))
                       /\ \A i \in DOMAIN Often(p, e, n) : i \in DOMAIN p \/ Often(p, e, n)[i].event = e
                       /\ n # 0 => \E i \in DOMAIN Often(p, e, n) : Often(p, e, n)[i].event = e
<1>1. \A e \in {"executeCommands", "slotActivateTasks"} : Event(e)
  BY Waken, ZenonT(60)
<1> HIDE DEF Event
<1>2. Event("executeCommands")
  BY <1>1
<1> QED
  BY <1>2 DEF IsPosted, Event

\* Tasks leave their lists and are started.
LEMMA TasksStart ==
    ASSUME NEW c, Typed(c), Good(c), Calm(c), NEW now \in Seq(Tasks), NoDup(now), NEW d,
           But(c, d, {"active", "running", "cmdQueue", "posted", "depending", "dependingAny"}),
           d.active = c.active \cup ToSet(now), d.running = c.running \cup (ToSet(now) \ AnyTasks),
           d.cmdQueue = c.cmdQueue \o Said(now),
           d.posted = Often(c.posted, "executeCommands", Len(now)),
           d.depending \in Seq(Tasks), d.dependingAny \in Seq(Tasks),
           NoDup(d.depending), NoDup(d.dependingAny),
           ToSet(d.depending) \subseteq ToSet(c.depending),
           ToSet(d.dependingAny) \subseteq ToSet(c.dependingAny),
           ToSet(now) \subseteq ToSet(c.depending) \cup ToSet(c.dependingAny),
           ToSet(now) \cap (ToSet(d.depending) \cup ToSet(d.dependingAny)) = {}
    PROVE  Keeps(c, d) /\ Typed(d) /\ Calm(d)
<1>1. /\ d.posted \in Seq(Posted) /\ More(c.posted, d.posted)
      /\ \A i \in DOMAIN d.posted : i \in DOMAIN c.posted \/ d.posted[i].event = "executeCommands"
      /\ Len(now) # 0 => IsPosted(d, "executeCommands")
  <2>1. c.posted \in Seq(Posted) /\ Len(now) \in Nat
    BY DEF Typed
  <2> QED
    BY <2>1, WakenForEach
<1>2. Quiet(c, d)
  BY <1>1 DEF Quiet
<1>3. /\ Said(now) \in Seq(Command) /\ DOMAIN Said(now) = DOMAIN now
      /\ \A i \in DOMAIN now : Ordinary(Said(now)[i])
  BY SaidCommands
<1>4. ToSet(now) \subseteq Tasks /\ IsFiniteSet(ToSet(now)) /\ ToSet(now) \subseteq Waiting(c)
  <2>1. ToSet(now) \subseteq Tasks
    BY DEF ToSet
  <2>2. IsFiniteSet(ToSet(now))
    BY FiniteList
  <2> QED
    BY <2>1, <2>2 DEF Waiting
<1>5. c.cmdQueue \in Seq(Command) /\ c.cmdQueue \o Said(now) \in Seq(Command) /\ IsFiniteSet(c.active)
  BY <1>3 DEF Typed
<1>6. IsFiniteSet(d.active) /\ d.active \subseteq Tracked
  <2>1. IsFiniteSet(c.active \cup ToSet(now))
    BY <1>4, <1>5, FS_Union
  <2> QED
    BY <2>1, <1>4 DEF Typed, Tracked
<1>7. Typed(d)
  BY <1>1, <1>5, <1>6 DEF But, Fields, Typed
<1>8. Calm(d)
  BY DEF But, Fields, Calm
<1>9. now # <<>> => Waiting(c) # {} /\ Len(now) # 0 /\ ToSet(now) # {}
  <2> SUFFICES ASSUME now # <<>> PROVE ToSet(now) # {} /\ Len(now) # 0
    BY <1>4
  <2>1. 1 \in DOMAIN now /\ Len(now) # 0
    OBVIOUS
  <2> QED
    BY <2>1 DEF ToSet
<1>10. c.aborted => now = <<>> /\ Waiting(c) = {} /\ ToSet(now) = {}
  <2> SUFFICES ASSUME c.aborted PROVE Waiting(c) = {}
    BY <1>4, <1>9
  <2>1. c.depending = <<>> /\ c.dependingAny = <<>> /\ c.requested = <<>>
    BY DEF Good, Duty
  <2> QED
    BY <2>1 DEF Waiting, ToSet
<1>11. c.aborted => d.depending = <<>> /\ d.dependingAny = <<>> /\ d.requested = <<>>
  <2> SUFFICES ASSUME c.aborted PROVE d.depending = <<>> /\ d.dependingAny = <<>> /\ d.requested = <<>>
    OBVIOUS
  <2>1. ToSet(d.depending) = {} /\ ToSet(d.dependingAny) = {} /\ d.requested = c.requested
    BY <1>10 DEF But, Fields, Waiting
  <2>2. \A s \in Seq(Tasks) : ToSet(s) = {} => s = <<>>
    <3> SUFFICES ASSUME NEW s \in Seq(Tasks), s # <<>> PROVE ToSet(s) # {}
      OBVIOUS
    <3>1. 1 \in DOMAIN s
      OBVIOUS
    <3> QED
      BY <3>1 DEF ToSet
  <2> QED
    BY <2>1, <2>2 DEF Good, Duty
<1>12. Order(d)
  <2>1. /\ Order(c) /\ d.idling = c.idling /\ ~c.mIdling /\ ~d.mIdling /\ d.mIdling \in BOOLEAN
        /\ d.waitForInitialIdle = c.waitForInitialIdle
        /\ d.waitingForContinuation = c.waitingForContinuation
    BY DEF But, Fields, Good, Calm, Order
  <2> QED
    BY <2>1, <1>3, <1>5, OrderJoined
<1>13. Launch(d)
  BY <1>2, <1>8, ToTerminateKept DEF But, Fields, Good, Launch, Calm
<1>14. Duty(d)
  <2>1. d.active \cap (Tasks \ AnyTasks) \subseteq d.running
    BY DEF Good, Duty
  <2>2. "SELECT" \in d.active => d.aborted /\ ~d.idleCommandRunning /\ d.running = {}
    <3>1. "SELECT" \in d.active => "SELECT" \in c.active
      BY <1>4, OwnCommands
    <3>2. "SELECT" \in c.active => c.aborted /\ ~c.idleCommandRunning /\ c.running = {}
      BY DEF Good, Duty
    <3>3. d.aborted = c.aborted /\ d.idleCommandRunning = c.idleCommandRunning
      BY DEF But, Fields
    <3> QED
      BY <3>1, <3>2, <3>3, <1>10
  <2> QED
    BY <2>1, <2>2, <1>11, ZenonT(60) DEF But, Fields, Good, Duty
<1>15. Stages(d)
  <2>1. d.requested = c.requested /\ d.asked = c.asked
    BY DEF But, Fields
  <2>2. Waiting(d) \subseteq Waiting(c)
    BY <2>1 DEF Waiting
  <2>3. /\ NoDup(d.requested) /\ ToSet(d.depending) \cap ToSet(d.dependingAny) = {}
        /\ (ToSet(d.depending) \cup ToSet(d.dependingAny)) \cap ToSet(d.requested) = {}
    BY <2>1 DEF Good, Stages
  <2>4. ToSet(now) \cap Waiting(d) = {}
    BY <2>1 DEF Waiting, Good, Stages
  <2>5. Waiting(d) \cap d.active = {} /\ Waiting(d) \cup (d.active \cap Tasks) \subseteq d.asked
    BY <1>4, <2>1, <2>2, <2>4 DEF Good, Stages
  <2>6. \A i \in DOMAIN d.posted : d.posted[i].event = "slotTaskDeleted" =>
           i \in DOMAIN c.posted /\ d.posted[i] = c.posted[i]
    BY <1>2 DEF Quiet, More
  <2>7. \A i \in DOMAIN c.posted : c.posted[i].event = "slotTaskDeleted" =>
             /\ c.posted[i].task \notin Waiting(c) \cup c.active
             /\ c.posted[i].task \in Tasks => c.posted[i].task \in c.asked
    BY DEF Good, Stages
  <2>8. \A i \in DOMAIN d.posted : d.posted[i].event = "slotTaskDeleted" =>
           /\ d.posted[i].task \notin Waiting(d) \cup d.active
           /\ d.posted[i].task \in Tasks => d.posted[i].task \in d.asked
    BY <1>4, <2>1, <2>2, <2>6, <2>7
  <2> QED
    BY <2>3, <2>5, <2>8 DEF Stages
<1>16. Calls(c, d)
  <2>1. Steady(c, d)
    BY DEF But, Fields, Steady
  <2>2. ToSet(now) \cap c.active = {}
    BY <1>4 DEF Good, Stages
  <2>3. now # <<>> => ~c.logout /\ IsPosted(d, "executeCommands")
    BY <1>1, <1>9, <1>10 DEF Good, Duty
  <2> QED
    BY <1>2, <1>7, <2>1, <2>2, <2>3, CallsJoined
<1>17. Closing(c) => Closing(d)
  <2>1. "DELETE" \in d.active => "DELETE" \in c.active
    BY <1>4, OwnCommands
  <2> QED
    BY <2>1, ZenonT(60) DEF But, Fields, Closing
<1> QED
  BY <1>7, <1>8, <1>12, <1>13, <1>14, <1>15, <1>16, <1>17 DEF Good, Keeps

\* The loops of activateTasks()
StartSome(c, n) ==
    [Perform(c, SubSeq(c.depending, 1, n)) EXCEPT !.depending = SubSeq(@, n + 1, Len(@))]
StartAny(c, n) ==
    [Perform(c, SubSeq(c.dependingAny, 1, n)) EXCEPT !.dependingAny = SubSeq(@, n + 1, Len(@))]

Performed4(c, act, run, que, p) ==
    [c EXCEPT !.active = act, !.running = run, !.cmdQueue = que, !.posted = p]

\* The fields which starting tasks changes
LEMMA PerformedFields ==
    ASSUME NEW c, Shape(c), NEW act, NEW run, NEW que, NEW p, NEW d,
           d = Performed4(c, act, run, que, p)
    PROVE  /\ But(c, d, {"active", "running", "cmdQueue", "posted"})
           /\ d.active = act /\ d.running = run /\ d.cmdQueue = que /\ d.posted = p
BY ZenonT(60) DEF Shape, But, Fields, Performed4

\* Tasks perform(): each is active, and its command is in the queue.
LEMMA Performed ==
    ASSUME NEW c, Shape(c), NEW now \in Seq(Tasks), NEW d, d = Perform(c, now)
    PROVE  /\ But(c, d, {"active", "running", "cmdQueue", "posted"})
           /\ d.active = c.active \cup ToSet(now) /\ d.running = c.running \cup (ToSet(now) \ AnyTasks)
           /\ d.cmdQueue = c.cmdQueue \o Said(now)
           /\ d.posted = Often(c.posted, "executeCommands", Len(now))
<1> DEFINE act == c.active \cup ToSet(now)
           run == c.running \cup (ToSet(now) \ AnyTasks)
           que == c.cmdQueue \o Said(now)
           p == c.posted \o [i \in DOMAIN now |-> [event |-> "executeCommands", task |-> NoTag]]
<1>1. d = Performed4(c, act, run, que, p)
  BY DEF Perform, Said, Performed4
<1>2. p = Often(c.posted, "executeCommands", Len(now))
  <2>1. DOMAIN now = 1 .. Len(now)
    OBVIOUS
  <2> QED
    BY <2>1 DEF Often
<1> HIDE DEF p, act, run, que
<1>3. /\ But(c, d, {"active", "running", "cmdQueue", "posted"})
      /\ d.active = act /\ d.running = run /\ d.cmdQueue = que /\ d.posted = p
  BY <1>1, PerformedFields
<1> QED
  BY <1>2, <1>3 DEF act, run, que

\* The first n of the tasks which depend on the mailbox are started.
LEMMA StartsSome ==
    ASSUME NEW c, Typed(c), Good(c), Calm(c), NEW n \in 0 .. Len(c.depending), NEW d, d = StartSome(c, n)
    PROVE  Keeps(c, d) /\ Typed(d) /\ Calm(d) /\ But(c, d, OfTasks)
<1> DEFINE now == SubSeq(c.depending, 1, n)
           rest == SubSeq(c.depending, n + 1, Len(c.depending))
           b == Perform(c, now)
<1>1. c.depending \in Seq(Tasks) /\ NoDup(c.depending) /\ Shape(c)
      /\ c.dependingAny \in Seq(Tasks) /\ NoDup(c.dependingAny)
      /\ ToSet(c.depending) \cap ToSet(c.dependingAny) = {}
  BY DEF Typed, Good, Stages
<1>2. /\ now \in Seq(Tasks) /\ rest \in Seq(Tasks) /\ NoDup(now) /\ NoDup(rest)
      /\ ToSet(now) \cup ToSet(rest) = ToSet(c.depending) /\ ToSet(now) \cap ToSet(rest) = {}
  BY <1>1, Taking
<1>3. d = [b EXCEPT !.depending = SubSeq(b.depending, n + 1, Len(b.depending))]
  BY DEF StartSome
<1> HIDE DEF now, rest
<1>4. b = Perform(c, now)
  OBVIOUS
<1> HIDE DEF b
<1>5. /\ But(c, b, {"active", "running", "cmdQueue", "posted"})
      /\ b.active = c.active \cup ToSet(now) /\ b.running = c.running \cup (ToSet(now) \ AnyTasks)
      /\ b.cmdQueue = c.cmdQueue \o Said(now)
      /\ b.posted = Often(c.posted, "executeCommands", Len(now))
  BY <1>1, <1>2, <1>4, Performed, SMTT(30)
<1>6. b.depending = c.depending /\ Shape(b)
  BY <1>5 DEF But, Fields
<1>7. d = [b EXCEPT !.depending = rest]
  BY <1>3, <1>6 DEF rest
<1>8. But(b, d, {"depending"}) /\ d.depending = rest
  BY <1>6, <1>7 DEF Shape, But, Fields
<1>9. But(c, d, {"active", "running", "cmdQueue", "posted", "depending", "dependingAny"})
  BY <1>5, <1>8 DEF But
<1>10. But(c, d, OfTasks)
  BY <1>9 DEF But, OfTasks
<1>11. /\ d.active = c.active \cup ToSet(now) /\ d.running = c.running \cup (ToSet(now) \ AnyTasks)
       /\ d.cmdQueue = c.cmdQueue \o Said(now)
       /\ d.posted = Often(c.posted, "executeCommands", Len(now))
  BY <1>5, <1>8 DEF But, Fields
<1>12. d.depending = rest /\ d.dependingAny = c.dependingAny
  BY <1>5, <1>8 DEF But, Fields
<1>13. /\ d.depending \in Seq(Tasks) /\ d.dependingAny \in Seq(Tasks)
       /\ NoDup(d.depending) /\ NoDup(d.dependingAny)
       /\ ToSet(d.depending) \subseteq ToSet(c.depending)
       /\ ToSet(d.dependingAny) \subseteq ToSet(c.dependingAny)
       /\ ToSet(now) \subseteq ToSet(c.depending) \cup ToSet(c.dependingAny)
       /\ ToSet(now) \cap (ToSet(d.depending) \cup ToSet(d.dependingAny)) = {}
  BY <1>1, <1>2, <1>12
<1>14. Keeps(c, d) /\ Typed(d) /\ Calm(d)
  BY <1>2, <1>9, <1>11, <1>13, TasksStart
<1> QED
  BY <1>10, <1>14

\* The first n of the tasks for any mailbox are started.
LEMMA StartsAny ==
    ASSUME NEW c, Typed(c), Good(c), Calm(c), NEW n \in 0 .. Len(c.dependingAny), NEW d, d = StartAny(c, n)
    PROVE  Keeps(c, d) /\ Typed(d) /\ Calm(d) /\ But(c, d, OfTasks)
<1> DEFINE now == SubSeq(c.dependingAny, 1, n)
           rest == SubSeq(c.dependingAny, n + 1, Len(c.dependingAny))
           b == Perform(c, now)
<1>1. c.depending \in Seq(Tasks) /\ NoDup(c.depending) /\ Shape(c)
      /\ c.dependingAny \in Seq(Tasks) /\ NoDup(c.dependingAny)
      /\ ToSet(c.depending) \cap ToSet(c.dependingAny) = {}
  BY DEF Typed, Good, Stages
<1>2. /\ now \in Seq(Tasks) /\ rest \in Seq(Tasks) /\ NoDup(now) /\ NoDup(rest)
      /\ ToSet(now) \cup ToSet(rest) = ToSet(c.dependingAny) /\ ToSet(now) \cap ToSet(rest) = {}
  BY <1>1, Taking
<1>3. d = [b EXCEPT !.dependingAny = SubSeq(b.dependingAny, n + 1, Len(b.dependingAny))]
  BY DEF StartAny
<1> HIDE DEF now, rest
<1>4. b = Perform(c, now)
  OBVIOUS
<1> HIDE DEF b
<1>5. /\ But(c, b, {"active", "running", "cmdQueue", "posted"})
      /\ b.active = c.active \cup ToSet(now) /\ b.running = c.running \cup (ToSet(now) \ AnyTasks)
      /\ b.cmdQueue = c.cmdQueue \o Said(now)
      /\ b.posted = Often(c.posted, "executeCommands", Len(now))
  BY <1>1, <1>2, <1>4, Performed, SMTT(30)
<1>6. b.dependingAny = c.dependingAny /\ Shape(b)
  BY <1>5 DEF But, Fields
<1>7. d = [b EXCEPT !.dependingAny = rest]
  BY <1>3, <1>6 DEF rest
<1>8. But(b, d, {"dependingAny"}) /\ d.dependingAny = rest
  BY <1>6, <1>7 DEF Shape, But, Fields
<1>9. But(c, d, {"active", "running", "cmdQueue", "posted", "depending", "dependingAny"})
  BY <1>5, <1>8 DEF But
<1>10. But(c, d, OfTasks)
  BY <1>9 DEF But, OfTasks
<1>11. /\ d.active = c.active \cup ToSet(now) /\ d.running = c.running \cup (ToSet(now) \ AnyTasks)
       /\ d.cmdQueue = c.cmdQueue \o Said(now)
       /\ d.posted = Often(c.posted, "executeCommands", Len(now))
  BY <1>5, <1>8 DEF But, Fields
<1>12. d.dependingAny = rest /\ d.depending = c.depending
  BY <1>5, <1>8 DEF But, Fields
<1>13. /\ d.depending \in Seq(Tasks) /\ d.dependingAny \in Seq(Tasks)
       /\ NoDup(d.depending) /\ NoDup(d.dependingAny)
       /\ ToSet(d.depending) \subseteq ToSet(c.depending)
       /\ ToSet(d.dependingAny) \subseteq ToSet(c.dependingAny)
       /\ ToSet(now) \subseteq ToSet(c.depending) \cup ToSet(c.dependingAny)
       /\ ToSet(now) \cap (ToSet(d.depending) \cup ToSet(d.dependingAny)) = {}
  BY <1>1, <1>2, <1>12
<1>14. Keeps(c, d) /\ Typed(d) /\ Calm(d)
  BY <1>2, <1>9, <1>11, <1>13, TasksStart
<1> QED
  BY <1>10, <1>14

\* There is room for no more tasks than wait.
LEMMA RoomSize ==
    ASSUME NEW c, Typed(c), NEW s \in Seq(Tasks)
    PROVE  Room(c, s) \in 0 .. Len(s)
<1>1. Cardinality(c.active) \in Nat /\ limitActiveTasks \in Nat \ {0, 1}
  BY FS_CardinalityType, HandoverAssumption DEF Typed
<1>2. Len(s) \in Nat
  OBVIOUS
<1>3. \A k \in Nat : Smaller(Len(s), k) \in 0 .. Len(s)
  BY <1>2, SmallerNat
<1>4. limitActiveTasks - 1 > Cardinality(c.active) => limitActiveTasks - 1 - Cardinality(c.active) \in Nat
  BY <1>1
<1> QED
  BY <1>3, <1>4 DEF Room

\* Both lists are served while there is room below limitActiveTasks.
LEMMA Starts ==
    ASSUME NEW c, Typed(c), Good(c), Calm(c), NEW d, d = StartTasks(c)
    PROVE  Keeps(c, d) /\ Typed(d) /\ Calm(d) /\ But(c, d, OfTasks)
<1> DEFINE n == Room(c, c.depending)
           b == StartSome(c, n)
           m == Room(b, b.dependingAny)
<1>1. d = StartAny(b, m)
  BY DEF StartTasks, StartSome, StartAny
<1>2. n \in 0 .. Len(c.depending)
  BY RoomSize DEF Typed
<1> HIDE DEF n
<1>3. b = StartSome(c, n)
  OBVIOUS
<1> HIDE DEF b
<1>4. Keeps(c, b) /\ Typed(b) /\ Calm(b) /\ But(c, b, OfTasks)
  BY <1>2, <1>3, StartsSome
<1>5. m \in 0 .. Len(b.dependingAny) /\ Good(b)
  BY <1>4, RoomSize DEF Typed, Keeps
<1> HIDE DEF m
<1>6. Keeps(b, d) /\ Typed(d) /\ Calm(d) /\ But(b, d, OfTasks)
  BY <1>1, <1>4, <1>5, StartsAny
<1>7. Keeps(c, d)
  BY <1>4, <1>6, KeepsTwice
<1>8. But(c, d, OfTasks)
  BY <1>4, <1>6 DEF But
<1> QED
  BY <1>6, <1>7, <1>8


-----------------------------------------------------------------------------
(* The mailbox goes on, or ends                                             *)

\* A step which leaves the commands, the tasks and what is posted
LEMMA Leaves ==
    ASSUME NEW c, NEW d, Typed(c), Typed(d), Good(c), NEW S, But(c, d, S),
           S \cap {"cmdQueue", "posted", "active", "idling", "mIdling", "waitForInitialIdle", "asked",
                   "waitingForContinuation", "depending", "dependingAny", "requested"} = {}
    PROVE  Order(d) /\ Stages(d) /\ Quiet(c, d)
<1>1. /\ d.cmdQueue = c.cmdQueue /\ d.posted = c.posted /\ d.active = c.active /\ d.asked = c.asked
      /\ d.idling = c.idling /\ d.mIdling = c.mIdling /\ d.waitForInitialIdle = c.waitForInitialIdle
      /\ d.waitingForContinuation = c.waitingForContinuation /\ d.depending = c.depending
      /\ d.dependingAny = c.dependingAny /\ d.requested = c.requested
  BY DEF But, Fields
<1>2. Quiet(c, d)
  BY <1>1, Sizes DEF Quiet, More
<1>3. Order(d)
  BY <1>1, OrderSame DEF Good
<1>4. Stages(d)
  BY <1>1, <1>2, StagesKept DEF Good
<1> QED
  BY <1>2, <1>3, <1>4

\* IdleLauncher::enterIdleLater() while there is nothing to do
LEMMA EnterLater ==
    ASSUME NEW c, Typed(c), Good(c), c.launcher = "alive" => Nothing(c) /\ c.deleting = "no",
           NEW d, d = enterIdleLater(c)
    PROVE  Keeps(c, d) /\ Typed(d) /\ But(c, d, {"delayedEnter"})
<1>1. CASE c.mIdling
  <2>1. d = c
    BY <1>1 DEF enterIdleLater
  <2> QED
    BY <2>1, KeepsSame
<1>2. CASE ~c.mIdling
  <2>1. d = [c EXCEPT !.delayedEnter = "started"] /\ Shape(c)
    BY <1>2 DEF enterIdleLater, Typed
  <2>2. But(c, d, {"delayedEnter"}) /\ d.delayedEnter = "started"
    BY <2>1 DEF Shape, But, Fields
  <2>3. Typed(d)
    BY <2>2 DEF But, Fields, Typed
  <2>4. Order(d) /\ Stages(d) /\ Quiet(c, d)
    BY <2>2, <2>3, Leaves
  <2>5. Launch(d) /\ Duty(d)
    BY <1>2, <2>2, <2>4, ToTerminateKept DEF But, Fields, Good, Launch, Duty, Nothing
  <2>6. Calls(c, d)
    <3>1. Steady(c, d) /\ d.cmdQueue = c.cmdQueue /\ d.active = c.active
      BY <2>2 DEF But, Fields, Steady
    <3> QED
      BY <2>3, <2>4, <3>1, CallsQuietly
  <2> QED
    BY <2>2, <2>3, <2>4, <2>5, <2>6 DEF Good, Keeps, Closing, But, Fields
<1> QED
  BY <1>1, <1>2

\* KeepMailboxOpenTask::activateTasks(): all its branches
LEMMA Activating ==
    ASSUME NEW c, Typed(c), Good(c), Closing(c), NEW d, d = activateTasks(c)
    PROVE  Keeps(c, d) /\ Typed(d)
<1> DEFINE b == breakOrCancelPossibleIdle(c)
           f == slotFetchRequestedParts(b)
           e == StartTasks(f)
<1>1. Keeps(c, b) /\ Typed(b) /\ Calm(b) /\ Unmoved(c, b)
  BY Break
<1>2. CASE c.isRunning # "RUNNING"
  <2>1. d = c
    BY <1>2 DEF activateTasks
  <2> QED
    BY <2>1, KeepsSame
<1>3. CASE c.isRunning = "RUNNING" /\ c.deleting # "no"
  <2>1. d = closeMailboxDestructively(b)
    BY <1>3 DEF activateTasks
  <2> HIDE DEF b
  <2>2. /\ Good(b) /\ ~b.mIdling /\ b.deleting # "no"
        /\ b.deleting = "performed" /\ Closing(b) => ~b.present
    BY <1>1, <1>3 DEF Keeps, Calm, Unmoved, Closing
  <2>3. Keeps(b, d) /\ Typed(d)
    BY <1>1, <2>1, <2>2, Close
  <2> QED
    BY <1>1, <2>3, KeepsTwice
<1>4. CASE c.isRunning = "RUNNING" /\ c.deleting = "no"
  <2>1. d = IF e.launcher # "none" /\ canRunIdleRightNow(e) THEN enterIdleLater(e) ELSE e
    BY <1>4 DEF activateTasks
  <2>2. f = slotFetchRequestedParts(b) /\ e = StartTasks(f)
    OBVIOUS
  <2> HIDE DEF b, f, e
  <2>3. Keeps(b, f) /\ Typed(f) /\ Calm(f) /\ But(b, f, OfTasks)
    BY <1>1, <2>2, Fetch DEF Keeps
  <2>4. Keeps(f, e) /\ Typed(e) /\ Calm(e) /\ But(f, e, OfTasks)
    BY <2>2, <2>3, Starts DEF Keeps
  <2>5. Keeps(c, e)
    BY <1>1, <2>3, <2>4, KeepsTwice
  <2>6. e.deleting = "no"
    BY <1>1, <1>4, <2>3, <2>4 DEF Unmoved, But, Fields, OfTasks
  <2>7. CASE e.launcher # "none" /\ canRunIdleRightNow(e)
    <3>1. Good(e) /\ (e.launcher = "alive" => Nothing(e) /\ e.deleting = "no")
      BY <2>4, <2>6, <2>7 DEF canRunIdleRightNow, Nothing, Keeps
    <3>2. Keeps(e, d) /\ Typed(d)
      BY <2>1, <2>4, <2>7, <3>1, EnterLater
    <3> QED
      BY <2>5, <3>2, KeepsTwice
  <2>8. CASE ~(e.launcher # "none" /\ canRunIdleRightNow(e))
    BY <2>1, <2>4, <2>5, <2>8
  <2> QED
    BY <2>7, <2>8
<1> QED
  BY <1>2, <1>3, <1>4


\* An assertion has failed which may.
Failing(c, d) == Shape(d) /\ c.failed \subseteq d.failed /\ d.failed \cap KnownFailures # {}

Stopped(c) ==
    [abort(c) EXCEPT !.shouldRunIdle = FALSE, !.isRunning = "NOT_ANYMORE",
                     !.finished = ~(c.obtaining /\ SaysClosed)]

ToStop == {"launcher", "delayedEnter", "renewal", "aborted", "shouldRunIdle", "isRunning", "finished"}

\* The fields which the end of the mailbox changes
LEMMA StoppedFields ==
    ASSUME NEW c, Shape(c), c.launcher \in Launcher, NEW d, d = Stopped(c)
    PROVE  /\ But(c, d, ToStop)
           /\ d.aborted = TRUE /\ d.isRunning = "NOT_ANYMORE" /\ d.launcher \in {"dead", "none"}
<1> DEFINE b == die(c)
           a == abort(c)
           e == [a EXCEPT !.shouldRunIdle = FALSE]
           f == [e EXCEPT !.isRunning = "NOT_ANYMORE"]
<1>1. b = c \/ b = [c EXCEPT !.launcher = "dead", !.delayedEnter = "stopped", !.renewal = "stopped"]
  BY DEF die
<1>2. But(c, b, {"launcher", "delayedEnter", "renewal"}) /\ Shape(b) /\ b.launcher \in {"dead", "none"}
  <2>1. CASE c.launcher = "none"
    BY <2>1 DEF But, die
  <2>2. CASE c.launcher # "none"
    BY <2>2, ZenonT(60) DEF But, Shape, Fields, die
  <2> QED
    BY <2>1, <2>2
<1>3. a = [b EXCEPT !.aborted = TRUE]
  BY DEF abort
<1> HIDE DEF b, a
<1>4. But(b, a, {"aborted"}) /\ Shape(a) /\ a.aborted = TRUE
  BY <1>2, <1>3, ZenonT(60) DEF But, Shape, Fields
<1>5. d = [a EXCEPT !.shouldRunIdle = FALSE, !.isRunning = "NOT_ANYMORE",
                    !.finished = ~(c.obtaining /\ SaysClosed)]
  BY DEF Stopped, a
<1>6. But(a, d, {"shouldRunIdle", "isRunning", "finished"}) /\ d.isRunning = "NOT_ANYMORE"
  BY <1>4, <1>5 DEF But, Shape, Fields
<1>7. But(c, d, ToStop)
  BY <1>2, <1>4, <1>6 DEF But, ToStop
<1> QED
  BY <1>2, <1>4, <1>6, <1>7 DEF But, Fields

\* The mailbox ends: the launcher dies, IDLE is not running, and SELECT may follow.
LEMMA Stopping ==
    ASSUME NEW c, Typed(c), Good(c), ~c.aborted, c.depending = <<>>, c.dependingAny = <<>>,
           c.requested = <<>>, ~c.idleCommandRunning, NEW d, d = Stopped(c)
    PROVE  /\ Keeps(c, d) /\ Typed(d) /\ But(c, d, ToStop) /\ d.aborted
           /\ d.isRunning = "NOT_ANYMORE" /\ d.launcher # "alive" /\ ~d.mIdling
<1>1. Shape(c) /\ c.launcher \in Launcher
  BY DEF Typed
<1>2. /\ But(c, d, ToStop)
      /\ d.aborted = TRUE /\ d.isRunning = "NOT_ANYMORE" /\ d.launcher \in {"dead", "none"}
  BY <1>1, StoppedFields
<1>3. Typed(d)
  BY <1>2, ZenonT(60) DEF But, Fields, Typed, ToStop, Launcher
<1>4. Order(d) /\ Stages(d) /\ Quiet(c, d)
  <2>1. ToStop \cap {"cmdQueue", "posted", "active", "idling", "mIdling", "waitForInitialIdle", "asked",
                     "waitingForContinuation", "depending", "dependingAny", "requested"} = {}
    BY DEF ToStop
  <2> QED
    BY <1>2, <1>3, <2>1, Leaves
<1>5. ~c.mIdling /\ ~c.logout /\ "SELECT" \notin c.active
  BY DEF Good, Launch, Duty
<1>6. /\ ~d.mIdling /\ d.idleCommandRunning = c.idleCommandRunning /\ d.tagIdle = c.tagIdle
      /\ d.logout = c.logout /\ d.active = c.active /\ d.running = c.running /\ d.deleting = c.deleting
      /\ d.depending = <<>> /\ d.dependingAny = <<>> /\ d.requested = <<>> /\ d.tagClose = c.tagClose
      /\ d.present = c.present /\ d.failed = c.failed
  BY <1>2, <1>5 DEF But, Fields, ToStop
<1>7. Launch(d)
  BY <1>2, <1>6 DEF Good, Launch
<1>8. Duty(d)
  BY <1>2, <1>5, <1>6 DEF Good, Duty
<1>9. Calls(c, d)
  <2>1. Steady(c, d) /\ d.cmdQueue = c.cmdQueue /\ d.active = c.active
    BY <1>2 DEF But, Fields, Steady, ToStop
  <2> QED
    BY <1>3, <1>4, <2>1, CallsQuietly
<1>10. Closing(c) => Closing(d)
  BY <1>6 DEF Closing
<1> QED
  BY <1>2, <1>3, <1>4, <1>6, <1>7, <1>8, <1>9, <1>10 DEF Good, Keeps

\* SELECT of another mailbox, or DELETE of this one
LEMMA Final ==
    ASSUME NEW c, Typed(c), Good(c), Calm(c), NEW t \in {"SELECT", "DELETE"}, t \notin c.active,
           ~c.logout \/ (t = "DELETE" /\ c.deleting # "performed"),
           \A i \in DOMAIN c.posted : c.posted[i].event = "slotTaskDeleted" => c.posted[i].task # t,
           NEW b, b = queueCommand(c, Cmd(t, "ATOM")),
           NEW d, But(b, d, {"obtaining", "tagClose", "deleting", "active"}), d.active = b.active \cup {t},
           t = "SELECT" => /\ d.deleting = c.deleting /\ d.tagClose = c.tagClose /\ c.aborted
                           /\ ~c.idleCommandRunning /\ c.running = {},
           t = "DELETE" => d.deleting = "performed" /\ c.deleting # "no"
    PROVE  /\ Good(d) /\ Typed(d) /\ Calls(c, d)
           /\ But(c, d, {"obtaining", "tagClose", "deleting", "active", "cmdQueue", "posted",
                         "mIdling", "delayedEnter", "renewal"})
           /\ d.mIdling = c.mIdling /\ Quiet(c, d)
<1> DEFINE cmd == Cmd(t, "ATOM")
<1>1. cmd \in Command /\ cmd.kind = "ATOM" /\ cmd.tag = t /\ ~cmd.numberSent /\ t \in Tracked
      /\ t \notin Tasks /\ t # "IDLE"
  BY OwnCommands DEF Tracked
<1>2. Typed(c) /\ cmd \in Command /\ b = queueCommand(c, cmd)
  BY <1>1
<1> HIDE DEF cmd
<1>3. /\ Typed(b) /\ Quiet(c, b)
      /\ Unmoved(c, b) /\ b.cmdQueue = Append(c.cmdQueue, cmd)
      /\ b.mIdling = c.mIdling /\ b.delayedEnter = c.delayedEnter
      /\ IsPosted(b, "executeCommands")
  BY <1>2, Queues
<1>4. But(c, b, {"cmdQueue", "posted", "mIdling", "delayedEnter", "renewal"})
  BY <1>3, UnmovedBut
<1>5. But(c, d, {"obtaining", "tagClose", "deleting", "active", "cmdQueue", "posted",
                 "mIdling", "delayedEnter", "renewal"})
  BY <1>4 DEF But
<1>6. /\ d.active = c.active \cup {t} /\ d.cmdQueue = Append(c.cmdQueue, cmd) /\ d.posted = b.posted
      /\ d.mIdling = c.mIdling /\ d.delayedEnter = c.delayedEnter
  BY <1>3, <1>4 DEF But, Fields
<1>7. Quiet(c, d) /\ IsPosted(d, "executeCommands")
  BY <1>3, <1>6 DEF Quiet, IsPosted
<1>8. d.deleting \in {"no", "waiting", "performed"}
  BY DEF Typed
<1>9. IsFiniteSet(c.active \cup {t})
  BY FS_AddElement DEF Typed
<1>10. Typed(d)
  <2>1. /\ Shape(d) /\ c.active \cup {t} \subseteq Tracked
        /\ d.cmdQueue = b.cmdQueue /\ d.posted = b.posted /\ d.respQueue = b.respQueue
        /\ d.depending = b.depending /\ d.dependingAny = b.dependingAny /\ d.requested = b.requested
        /\ d.fetching = b.fetching /\ d.arrivals = b.arrivals /\ d.launcher = b.launcher
    BY <1>1, ZenonT(60) DEF But, Fields, Typed
  <2> QED
    BY <1>3, <1>6, <1>8, <1>9, <2>1 DEF Typed
<1>11. Order(d)
  <2>1. Order(c) /\ c.cmdQueue \in Seq(Command) /\ d.idling = c.idling
        /\ d.waitForInitialIdle = c.waitForInitialIdle
        /\ d.waitingForContinuation = c.waitingForContinuation
        /\ d.mIdling \in BOOLEAN /\ ~d.mIdling /\ ~c.mIdling
    BY <1>5, <1>6, ZenonT(60) DEF Good, Typed, But, Fields, Order, Calm
  <2> QED
    BY <1>1, <1>6, <2>1, OrderKept
<1>12. Launch(d)
  <2>1. /\ d.launcher = c.launcher /\ d.idleCommandRunning = c.idleCommandRunning
        /\ d.tagIdle = c.tagIdle /\ d.aborted = c.aborted
    BY <1>5 DEF But, Fields
  <2>2. c.launcher = "alive" /\ d.deleting # "no" => c.deleting # "no"
    OBVIOUS
  <2> QED
    BY <1>6, <1>7, <2>1, <2>2, ToTerminateKept DEF Good, Launch, Calm
<1>13. Duty(d)
  <2>1. /\ d.finished = c.finished /\ d.aborted = c.aborted /\ d.logout = c.logout
        /\ d.depending = c.depending /\ d.dependingAny = c.dependingAny /\ d.requested = c.requested
        /\ d.isRunning = c.isRunning /\ d.running = c.running
        /\ d.idleCommandRunning = c.idleCommandRunning
    BY <1>5 DEF But, Fields
  <2>2. d.tagClose => d.deleting # "no"
    BY DEF Good, Duty
  <2>3. d.active \cap (Tasks \ AnyTasks) \subseteq d.running
    BY <1>1, <1>6, <2>1 DEF Good, Duty
  <2>4. "SELECT" \in d.active => d.aborted /\ ~d.idleCommandRunning /\ d.running = {}
    BY <1>6, <2>1 DEF Good, Duty
  <2> QED
    BY <2>1, <2>2, <2>3, <2>4 DEF Good, Duty
<1>14. Stages(d)
  <2>1. /\ d.depending = c.depending /\ d.dependingAny = c.dependingAny /\ d.requested = c.requested
        /\ d.asked = c.asked
    BY <1>5 DEF But, Fields
  <2>2. Waiting(d) = Waiting(c) /\ Waiting(c) \subseteq Tasks
    <3>1. Waiting(c) \subseteq Tasks
      BY DEF Typed, Waiting, ToSet
    <3> QED
      BY <2>1, <3>1 DEF Waiting
  <2>3. \A i \in DOMAIN d.posted : d.posted[i].event = "slotTaskDeleted" =>
           i \in DOMAIN c.posted /\ d.posted[i] = c.posted[i]
    BY <1>7 DEF Quiet, More
  <2>4. \A i \in DOMAIN c.posted : c.posted[i].event = "slotTaskDeleted" =>
             /\ c.posted[i].task \notin Waiting(c) \cup c.active
             /\ c.posted[i].task \in Tasks => c.posted[i].task \in c.asked
    BY DEF Good, Stages
  <2>5. \A i \in DOMAIN d.posted : d.posted[i].event = "slotTaskDeleted" =>
           /\ d.posted[i].task \notin Waiting(d) \cup d.active
           /\ d.posted[i].task \in Tasks => d.posted[i].task \in d.asked
    BY <1>6, <2>1, <2>2, <2>3, <2>4
  <2> QED
    BY <1>1, <1>6, <2>1, <2>2, <2>5 DEF Good, Stages
<1>15. Calls(c, d)
  <2>1. Steady(c, d)
    BY <1>5 DEF Steady, But, Fields
  <2> QED
    BY <1>1, <1>6, <1>7, <1>10, <2>1, CallsWith
<1> QED
  BY <1>5, <1>6, <1>7, <1>10, <1>11, <1>12, <1>13, <1>14, <1>15 DEF Good

\* CLOSE has been answered and is the end of what waits.
Ending(c) == c.deleting = "performed" /\ ~c.tagClose

\* A failed assertion is recorded, and changes nothing else.
LEMMA FailingFields ==
    ASSUME NEW c, Shape(c), NEW assertion, NEW d, d = Check(c, assertion, FALSE)
    PROVE  But(c, d, {"failed"}) /\ d.failed = c.failed \cup {assertion}
BY DEF Shape, But, Fields, Check

\* The fields which abort() changes
LEMMA AbortFields ==
    ASSUME NEW c, Shape(c), c.launcher \in Launcher, NEW d, d = abort(c)
    PROVE  /\ But(c, d, {"launcher", "delayedEnter", "renewal", "aborted"})
           /\ d.aborted = TRUE /\ d.launcher \in {"dead", "none"}
<1> DEFINE b == die(c)
<1>1. But(c, b, {"launcher", "delayedEnter", "renewal"}) /\ Shape(b) /\ b.launcher \in {"dead", "none"}
  <2>1. CASE c.launcher = "none"
    BY <2>1 DEF But, die
  <2>2. CASE c.launcher # "none"
    BY <2>2, ZenonT(60) DEF But, Shape, Fields, die
  <2> QED
    BY <2>1, <2>2
<1>2. d = [b EXCEPT !.aborted = TRUE]
  BY DEF abort
<1> HIDE DEF b
<1>3. But(b, d, {"aborted"}) /\ d.aborted = TRUE
  BY <1>1, <1>2 DEF But, Shape, Fields
<1> QED
  BY <1>1, <1>3 DEF But, Fields

\* The fields which queueCommand() changes
LEMMA QueueFields ==
    ASSUME NEW c, Shape(c), NEW cmd
    PROVE  But(c, queueCommand(c, cmd), {"cmdQueue", "posted"})
<1> DEFINE b == [c EXCEPT !.cmdQueue = Append(@, cmd)]
<1>1. But(c, b, {"cmdQueue"}) /\ Shape(b)
  BY DEF But, Shape, Fields
<1>2. queueCommand(c, cmd) = [b EXCEPT !.posted = Append(@, [event |-> "executeCommands", task |-> NoTag])]
  BY DEF queueCommand, Post
<1> HIDE DEF b
<1>3. But(b, queueCommand(c, cmd), {"posted"})
  BY <1>1, <1>2 DEF But, Shape, Fields
<1> QED
  BY <1>1, <1>3 DEF But

\* terminate() of a mailbox which has something to do
LEMMA TerminatesBadly ==
    ASSUME NEW c, Shape(c), c.launcher \in Launcher, ~c.aborted,
           ~(c.depending = <<>> /\ c.dependingAny = <<>> /\ c.requested = <<>> /\ c.running = {}),
           NEW d, d = terminate(c)
    PROVE  Failing(c, d) /\ d.isRunning # "RUNNING"
<1> DEFINE a == abort(c)
           q == Check(a, "terminate", FALSE)
           e == [q EXCEPT !.shouldRunIdle = FALSE, !.isRunning = "NOT_ANYMORE",
                          !.finished = ~(c.obtaining /\ SaysClosed)]
           f == queueCommand(e, Cmd("SELECT", "ATOM"))
<1>1. d = IF c.obtaining
          THEN [f EXCEPT !.obtaining = FALSE, !.active = @ \cup {"SELECT"}]
          ELSE Check(e, "terminate dependentTasks", c.deleting # "waiting")
  BY DEF terminate, Check
<1>2. But(c, a, {"launcher", "delayedEnter", "renewal", "aborted"})
  BY AbortFields
<1> HIDE DEF a
<1>3. But(a, q, {"failed"}) /\ q.failed = a.failed \cup {"terminate"}
  <2>1. Shape(a) /\ q = Check(a, "terminate", FALSE)
    BY <1>2 DEF But
  <2> HIDE DEF q
  <2> QED
    BY <2>1, FailingFields
<1> HIDE DEF q
<1>4. But(q, e, {"shouldRunIdle", "isRunning", "finished"}) /\ e.isRunning = "NOT_ANYMORE" /\ Shape(e)
  BY <1>3, ZenonT(60) DEF But, Shape, Fields
<1>5. e.failed = c.failed \cup {"terminate"}
  BY <1>2, <1>3, <1>4 DEF But, Fields
<1> HIDE DEF e
<1>6. But(e, f, {"cmdQueue", "posted"})
  BY <1>4, QueueFields
<1> HIDE DEF f
<1>7. CASE c.obtaining
  <2>1. But(f, d, {"obtaining", "active"})
    BY <1>1, <1>6, <1>7 DEF But, Shape, Fields
  <2>2. d.failed = e.failed /\ d.isRunning = e.isRunning /\ Shape(d)
    BY <1>6, <2>1 DEF But, Fields
  <2> QED
    BY <1>4, <1>5, <2>2 DEF Failing, KnownFailures
<1>8. CASE ~c.obtaining
  <2>1. d = e \/ d = Check(e, "terminate dependentTasks", FALSE)
    BY <1>1, <1>8 DEF Check
  <2>2. ASSUME d = Check(e, "terminate dependentTasks", FALSE)
        PROVE  e.failed \subseteq d.failed /\ d.isRunning = e.isRunning /\ Shape(d)
    <3>1. But(e, d, {"failed"}) /\ d.failed = e.failed \cup {"terminate dependentTasks"}
      BY <1>4, <2>2, FailingFields
    <3> QED
      BY <3>1 DEF But, Fields
  <2> QED
    BY <1>4, <1>5, <2>1, <2>2 DEF Failing, KnownFailures
<1> QED
  BY <1>7, <1>8

\* KeepMailboxOpenTask::terminate(): keeps everything, or an assertion fails which may.
LEMMA Terminating ==
    ASSUME NEW c, Typed(c), Good(c), Late(c), c.aborted \/ ~c.idleCommandRunning, NEW d, d = terminate(c)
    PROVE  \/ Failing(c, d) /\ d.isRunning # "RUNNING"
           \/ Keeps(c, d) /\ Typed(d) /\ (c.aborted => d = c) /\ (~c.aborted /\ Ending(c) => Closing(d))
<1>1. CASE c.aborted
  <2>1. d = c
    BY <1>1 DEF terminate
  <2> QED
    BY <1>1, <2>1, KeepsSame
<1>2. CASE ~c.aborted /\ ~(c.depending = <<>> /\ c.dependingAny = <<>> /\ c.requested = <<>> /\ c.running = {})
  <2>1. Shape(c) /\ c.launcher \in Launcher
    BY DEF Typed
  <2> QED
    BY <1>2, <2>1, TerminatesBadly
<1>3. CASE ~c.aborted /\ c.depending = <<>> /\ c.dependingAny = <<>> /\ c.requested = <<>> /\ c.running = {}
  <2> DEFINE e == Stopped(c)
             f == queueCommand(e, Cmd("SELECT", "ATOM"))
  <2>1. d = IF c.obtaining
            THEN [f EXCEPT !.obtaining = FALSE, !.active = @ \cup {"SELECT"}]
            ELSE Check(e, "terminate dependentTasks", c.deleting # "waiting")
    BY <1>3 DEF terminate, Check, Stopped
  <2>2. e = Stopped(c) /\ f = queueCommand(e, Cmd("SELECT", "ATOM"))
    OBVIOUS
  <2> HIDE DEF e, f
  <2>3. /\ Keeps(c, e) /\ Typed(e) /\ But(c, e, ToStop) /\ e.aborted
        /\ e.isRunning = "NOT_ANYMORE" /\ e.launcher # "alive" /\ ~e.mIdling
    BY <1>3, <2>2, Stopping
  <2>4. Ending(c) => Closing(e)
    BY <2>3 DEF Ending, Closing, But, Fields, ToStop
  <2>5. CASE ~c.obtaining /\ c.deleting # "waiting"
    <3>1. d = e
      BY <2>1, <2>5 DEF Check
    <3> QED
      BY <1>3, <2>3, <2>4, <3>1
  <2>6. CASE ~c.obtaining /\ c.deleting = "waiting"
    <3>1. d = Check(e, "terminate dependentTasks", FALSE) /\ Shape(e)
      BY <2>1, <2>3, <2>6 DEF Check, Typed
    <3>2. d.failed = e.failed \cup {"terminate dependentTasks"} /\ d.isRunning = e.isRunning /\ Shape(d)
      <4>1. But(e, d, {"failed"}) /\ d.failed = e.failed \cup {"terminate dependentTasks"}
        BY <3>1, FailingFields
      <4> QED
        BY <4>1 DEF But, Fields
    <3>3. e.failed = c.failed
      BY <2>3 DEF But, Fields, ToStop
    <3> QED
      BY <2>3, <3>2, <3>3 DEF Failing, KnownFailures
  <2>7. CASE c.obtaining
    <3>1. Shape(e) /\ Good(e)
      BY <2>3 DEF Typed, Keeps
    <3>2. But(e, f, {"cmdQueue", "posted"})
      BY <2>2, <3>1, QueueFields
    <3>3. But(f, d, {"obtaining", "active"}) /\ d.active = f.active \cup {"SELECT"}
      BY <2>1, <2>7, <3>2 DEF But, Shape, Fields
    <3>4. /\ d.deleting = e.deleting /\ d.tagClose = e.tagClose /\ f.active = e.active
          /\ d.isRunning = e.isRunning /\ d.aborted = e.aborted /\ d.present = e.present
      BY <3>2, <3>3 DEF But, Fields
    <3>5. /\ e.posted = c.posted /\ e.active = c.active /\ e.running = {} /\ e.deleting = c.deleting
          /\ e.logout = c.logout /\ e.idleCommandRunning = c.idleCommandRunning
      BY <1>3, <2>3 DEF But, Fields, ToStop
    <3>6. "SELECT" \notin c.active /\ ~c.logout
      BY <1>3 DEF Good, Duty
    <3>7. \A i \in DOMAIN e.posted : e.posted[i].event = "slotTaskDeleted" => e.posted[i].task # "SELECT"
      BY <1>3, <3>5 DEF Late
    <3>8. Calm(e)
      BY <2>3 DEF Calm
    <3>9. But(f, d, {"obtaining", "tagClose", "deleting", "active"})
      BY <3>3 DEF But
    <3>10. ~e.idleCommandRunning
      BY <1>3, <3>5
    <3>11. Good(d) /\ Typed(d) /\ Calls(e, d)
      <4>1. "SELECT" \in {"SELECT", "DELETE"} /\ "SELECT" # "DELETE" /\ "SELECT" \notin e.active /\ ~e.logout
        BY <3>5, <3>6
      <4> QED
        BY <2>2, <2>3, <3>1, <3>3, <3>4, <3>5, <3>7, <3>8, <3>9, <3>10, <4>1, Final
    <3>12. Closing(e) => Closing(d)
      BY <2>3, <3>3, <3>4 DEF Closing
    <3>13. Keeps(c, d)
      BY <2>3, <3>11, <3>12, KeepsTwice DEF Keeps
    <3> QED
      BY <1>3, <2>4, <3>11, <3>12, <3>13
  <2> QED
    BY <2>5, <2>6, <2>7
<1> QED
  BY <1>1, <1>2, <1>3


\* slotTaskDeleted() forgets the task.
Forgets(c, t) == [c EXCEPT !.running = @ \ {t}, !.fetching = @ \ {t}]

\* A task which is not active is forgotten.
LEMMA Forgetting ==
    ASSUME NEW c, Typed(c), Good(c), NEW t, t \notin c.active, NEW d, d = Forgets(c, t)
    PROVE  Keeps(c, d) /\ Typed(d) /\ But(c, d, {"running", "fetching"}) /\ Quiet(c, d)
<1>1. Shape(c) /\ IsFiniteSet(c.fetching)
  BY DEF Typed
<1>2. /\ But(c, d, {"running", "fetching"})
      /\ d.running = c.running \ {t} /\ d.fetching = c.fetching \ {t}
  BY <1>1, ZenonT(60) DEF Shape, But, Fields, Forgets
<1>3. IsFiniteSet(d.fetching)
  <2>1. c.fetching \ {t} \subseteq c.fetching
    OBVIOUS
  <2>2. IsFiniteSet(c.fetching \ {t})
    BY <1>1, <2>1, FS_Subset
  <2> QED
    BY <1>2, <2>2
<1>4. Typed(d)
  BY <1>2, <1>3 DEF But, Fields, Typed
<1>5. Order(d) /\ Stages(d) /\ Quiet(c, d)
  BY <1>2, <1>4, Leaves
<1>6. Launch(d)
  BY <1>2, <1>5, ToTerminateKept DEF But, Fields, Good, Launch, Nothing
<1>7. Duty(d)
  <2>1. d.active \cap (Tasks \ AnyTasks) \subseteq d.running
    BY <1>2 DEF But, Fields, Good, Duty
  <2>2. "SELECT" \in d.active => d.aborted /\ ~d.idleCommandRunning /\ d.running = {}
    BY <1>2 DEF But, Fields, Good, Duty
  <2> QED
    BY <1>2, <2>1, <2>2 DEF But, Fields, Good, Duty
<1>8. Calls(c, d)
  <2>1. Steady(c, d) /\ d.cmdQueue = c.cmdQueue /\ d.active = c.active
    BY <1>2 DEF But, Fields, Steady
  <2> QED
    BY <1>4, <1>5, <2>1, CallsQuietly
<1> QED
  BY <1>2, <1>4, <1>5, <1>6, <1>7, <1>8 DEF Good, Keeps, Closing, But, Fields

\* Late is kept by what posts no deletion.
LEMMA LateKept ==
    ASSUME NEW c, NEW d, Late(c), Calls(c, d)
    PROVE  Late(d)
<1>1. \A i \in DOMAIN d.posted : d.posted[i].event = "slotTaskDeleted" =>
           i \in DOMAIN c.posted /\ d.posted[i] = c.posted[i]
  BY DEF Calls, Undeleted, More
<1>2. (c.aborted => d.aborted) /\ (c.deleting = "performed" => d.deleting = "performed")
  BY DEF Calls, Steady
<1> QED
  BY <1>1, <1>2 DEF Late

\* IDLE does not get in the way of a mailbox which is to be deleted.
LEMMA BreaksAgain ==
    ASSUME NEW c, Shape(c), c.launcher # "none", ~c.mIdling, NEW d, d = enterIdleLater(c)
    PROVE  /\ breakOrCancelPossibleIdle(d) = breakOrCancelPossibleIdle(c)
           /\ d.isRunning = c.isRunning /\ d.deleting = c.deleting
<1>1. d = [c EXCEPT !.delayedEnter = "started"]
  BY DEF enterIdleLater
<1>2. d.launcher = c.launcher /\ d.mIdling = c.mIdling /\ d.isRunning = c.isRunning /\ d.deleting = c.deleting
  BY <1>1 DEF Shape, Fields
<1>3. [d EXCEPT !.delayedEnter = "stopped"] = [c EXCEPT !.delayedEnter = "stopped"]
  BY <1>1 DEF Shape, Fields
<1> QED
  BY <1>2, <1>3 DEF breakOrCancelPossibleIdle, finishIdle

\* KeepMailboxOpenTask::slotTaskDeleted(): all its branches
LEMMA Deleting ==
    ASSUME NEW c, Typed(c), Good(c), Closing(c), Late(c), NEW t, t \notin c.active,
           NEW d, d = slotTaskDeleted(c, t)
    PROVE  Failing(c, d) \/ (Keeps(c, d) /\ Typed(d))
<1> DEFINE b == Forgets(c, t)
           e == IF isReadyToTerminate(b) THEN terminate(b)
                ELSE IF canRunIdleRightNow(b) THEN enterIdleLater(b)
                ELSE b
<1>1. CASE c.finished
  <2>1. d = c
    BY <1>1 DEF slotTaskDeleted
  <2> QED
    BY <2>1, KeepsSame
<1>2. CASE ~c.finished
  <2>1. d = activateTasks(e)
    BY <1>2 DEF slotTaskDeleted, Forgets
  <2>2. b = Forgets(c, t)
    OBVIOUS
  <2>3. e = IF isReadyToTerminate(b) THEN terminate(b)
            ELSE IF canRunIdleRightNow(b) THEN enterIdleLater(b)
            ELSE b
    OBVIOUS
  <2> HIDE DEF b, e
  <2>4. Keeps(c, b) /\ Typed(b) /\ But(c, b, {"running", "fetching"})
    BY <2>2, Forgetting
  <2>5. Good(b) /\ Closing(b) /\ Late(b) /\ b.failed = c.failed
    BY <2>4, LateKept DEF Keeps, But, Fields
  <2>6. ASSUME Keeps(b, e), Typed(e)
        PROVE  Keeps(c, d) /\ Typed(d)
    <3>1. Good(e) /\ Closing(e)
      BY <2>5, <2>6 DEF Keeps
    <3>2. Keeps(e, d) /\ Typed(d)
      BY <2>1, <2>6, <3>1, Activating
    <3>3. Keeps(c, e)
      BY <2>4, <2>6, KeepsTwice
    <3> QED
      BY <3>2, <3>3, KeepsTwice
  <2>7. CASE isReadyToTerminate(b)
    <3>1. b.aborted \/ ~b.idleCommandRunning
      BY <2>5, <2>7 DEF isReadyToTerminate, hasPendingInternalActions, Good, Launch
    <3>2. e = terminate(b)
      BY <2>3, <2>7
    <3>3. CASE Failing(b, e) /\ e.isRunning # "RUNNING"
      <4>1. d = e
        BY <2>1, <3>3 DEF activateTasks
      <4> QED
        BY <2>5, <3>3, <4>1 DEF Failing
    <3>4. CASE Keeps(b, e) /\ Typed(e)
      BY <2>6, <3>4
    <3> QED
      BY <2>4, <2>5, <3>1, <3>2, <3>3, <3>4, Terminating
  <2>8. CASE ~isReadyToTerminate(b) /\ canRunIdleRightNow(b)
    <3>1. e = enterIdleLater(b)
      BY <2>3, <2>8
    <3>2. CASE b.launcher = "alive" /\ b.deleting # "no"
      <4>1. ~b.mIdling /\ b.isRunning = "RUNNING" /\ Shape(b) /\ b.launcher # "none"
        BY <2>4, <2>5, <3>2 DEF Good, Launch, Duty, Typed
      <4>2. /\ breakOrCancelPossibleIdle(e) = breakOrCancelPossibleIdle(b)
            /\ e.isRunning = b.isRunning /\ e.deleting = b.deleting
        BY <3>1, <4>1, BreaksAgain
      <4>3. activateTasks(e) = activateTasks(b)
        BY <3>2, <4>1, <4>2 DEF activateTasks
      <4>4. Keeps(b, d) /\ Typed(d)
        BY <2>1, <2>4, <2>5, <4>3, Activating
      <4> QED
        BY <2>4, <4>4, KeepsTwice
    <3>3. CASE ~(b.launcher = "alive" /\ b.deleting # "no")
      <4>1. b.launcher = "alive" => Nothing(b) /\ b.deleting = "no"
        BY <2>8, <3>3 DEF canRunIdleRightNow, Nothing
      <4>2. Keeps(b, e) /\ Typed(e)
        BY <2>4, <2>5, <3>1, <4>1, EnterLater
      <4> QED
        BY <2>6, <4>2
    <3> QED
      BY <3>2, <3>3
  <2>9. CASE ~isReadyToTerminate(b) /\ ~canRunIdleRightNow(b)
    <3>1. e = b
      BY <2>3, <2>9
    <3>2. Keeps(b, e) /\ Typed(e)
      BY <2>4, <2>5, <3>1, KeepsSame
    <3> QED
      BY <2>6, <3>2
  <2> QED
    BY <2>7, <2>8, <2>9
<1> QED
  BY <1>1, <1>2


-----------------------------------------------------------------------------
(* Places in queues                                                         *)

\* A list without its first element
LEMMA Tailed ==
    ASSUME NEW S, NEW q \in Seq(S), q # <<>>
    PROVE  /\ Tail(q) \in Seq(S) /\ Len(q) \in Nat /\ Len(q) # 0 /\ Len(Tail(q)) = Len(q) - 1
           /\ DOMAIN q = 1 .. Len(q) /\ DOMAIN Tail(q) = 1 .. Len(q) - 1
           /\ \A i \in DOMAIN Tail(q) : Tail(q)[i] = q[i + 1] /\ i + 1 \in DOMAIN q
           /\ Head(q) = q[1] /\ 1 \in DOMAIN q /\ q[1] \in S
           /\ \A i \in DOMAIN q : i # 1 => i - 1 \in DOMAIN Tail(q) /\ Tail(q)[i - 1] = q[i]
           /\ (Tail(q) = <<>> <=> Len(q) = 1)
<1> DEFINE r == Tail(q)
<1>1. /\ r \in Seq(S) /\ Len(q) \in Nat /\ Len(q) # 0 /\ Len(r) = Len(q) - 1
      /\ DOMAIN q = 1 .. Len(q) /\ Head(q) = q[1]
  OBVIOUS
<1>2. \A i \in 1 .. Len(q) - 1 : r[i] = q[i + 1]
  OBVIOUS
<1>3. DOMAIN r = 1 .. Len(q) - 1
  BY <1>1
<1>5. 1 \in DOMAIN q /\ q[1] \in S
  BY <1>1
<1> HIDE DEF r
<1>4. r = <<>> <=> Len(q) = 1
  <2>1. r = <<>> <=> Len(r) = 0
    BY <1>1
  <2> QED
    BY <1>1, <2>1
<1>6. \A i \in DOMAIN r : r[i] = q[i + 1] /\ i + 1 \in DOMAIN q
  BY <1>1, <1>2, <1>3
<1>7. \A i \in DOMAIN q : i # 1 => i - 1 \in 1 .. Len(q) - 1 /\ (i - 1) + 1 = i
  BY <1>1
<1>8. \A i \in DOMAIN q : i # 1 => i - 1 \in DOMAIN r /\ r[i - 1] = q[i]
  BY <1>2, <1>3, <1>7
<1> QED
  BY <1>1, <1>3, <1>4, <1>5, <1>6, <1>8 DEF r

\* Places in a queue whose first element leaves
LEMMA AtTail ==
    ASSUME NEW T, NEW q \in Seq(T), q # <<>>, NEW S
    PROVE  /\ Single(At(q, S)) => Single(At(Tail(q), S))
           /\ At(Tail(q), S) # {} => At(q, S) # {}
           /\ q[1] \notin S /\ At(q, S) # {} => At(Tail(q), S) # {}
           /\ q[1] \in S => At(q, S) # {} /\ (Single(At(q, S)) => At(Tail(q), S) = {})
<1> DEFINE r == Tail(q)
<1>1. /\ Len(q) \in Nat /\ DOMAIN q = 1 .. Len(q) /\ DOMAIN r = 1 .. Len(q) - 1
      /\ \A i \in DOMAIN r : r[i] = q[i + 1] /\ i + 1 \in DOMAIN q
      /\ 1 \in DOMAIN q
      /\ \A i \in DOMAIN q : i # 1 => i - 1 \in DOMAIN r /\ r[i - 1] = q[i]
  BY Tailed
<1> HIDE DEF r
<1>2. \A i \in At(r, S) : i \in Nat /\ i # 0 /\ i + 1 \in At(q, S)
  BY <1>1 DEF At
<1>3. \A i \in At(q, S) : i = 1 \/ i - 1 \in At(r, S)
  BY <1>1 DEF At
<1>4. Single(At(q, S)) => Single(At(r, S))
  <2> SUFFICES ASSUME Single(At(q, S)), NEW i \in At(r, S), NEW j \in At(r, S) PROVE i = j
    BY DEF Single
  <2>1. i + 1 = j + 1 /\ i \in Nat /\ j \in Nat
    BY <1>2 DEF Single
  <2> QED
    BY <2>1
<1>5. q[1] \notin S /\ At(q, S) # {} => At(r, S) # {}
  BY <1>3 DEF At
<1>6. q[1] \in S => 1 \in At(q, S)
  BY <1>1 DEF At
<1>7. q[1] \in S /\ Single(At(q, S)) => At(r, S) = {}
  <2> SUFFICES ASSUME q[1] \in S, Single(At(q, S)), NEW i \in At(r, S) PROVE FALSE
    OBVIOUS
  <2>1. i + 1 = 1 /\ i \in Nat /\ i # 0
    BY <1>2, <1>6 DEF Single
  <2> QED
    BY <2>1
<1> QED
  BY <1>2, <1>4, <1>5, <1>6, <1>7 DEF r

\* Places in a queue which gains an element
LEMMA AtAppend ==
    ASSUME NEW T, NEW q \in Seq(T), NEW e \in T, NEW S
    PROVE  /\ e \notin S => At(Append(q, e), S) = At(q, S)
           /\ At(q, S) # {} => At(Append(q, e), S) # {}
           /\ e \in S => /\ At(Append(q, e), S) # {}
                         /\ At(q, S) = {} => Single(At(Append(q, e), S))
<1> DEFINE r == Append(q, e)
<1>1. /\ Len(q) \in Nat
      /\ DOMAIN q = 1 .. Len(q) /\ DOMAIN r = 1 .. Len(q) + 1
      /\ r[Len(q) + 1] = e /\ \A i \in DOMAIN q : r[i] = q[i]
  BY Appended
<1> HIDE DEF r
<1>2. \A i \in DOMAIN r : i \in DOMAIN q \/ i = Len(q) + 1
  BY <1>1
<1>3. DOMAIN q \subseteq DOMAIN r /\ Len(q) + 1 \in DOMAIN r /\ Len(q) + 1 \notin DOMAIN q
  BY <1>1
<1>4. e \notin S => At(r, S) = At(q, S)
  BY <1>1, <1>2, <1>3 DEF At
<1>5. At(q, S) \subseteq At(r, S)
  BY <1>1, <1>3 DEF At
<1>6. e \in S => Len(q) + 1 \in At(r, S)
  BY <1>1, <1>3 DEF At
<1>7. At(q, S) = {} => \A i \in At(r, S) : i = Len(q) + 1
  BY <1>1, <1>2 DEF At
<1> QED
  BY <1>4, <1>5, <1>6, <1>7 DEF r, Single

-----------------------------------------------------------------------------
(* What the wire has to do with methods                                     *)

\* Continuation speaks of these fields only.
LEMMA ContinuationSame ==
    ASSUME NEW c, NEW d, NEW ts, NEW tc, NEW s, Continuation(c, ts, tc, s),
           d.waitForInitialIdle = c.waitForInitialIdle,
           d.waitingForContinuation = c.waitingForContinuation, d.respQueue = c.respQueue,
           d.literalCommandTag = c.literalCommandTag,
           c.cmdQueue # <<>> => d.cmdQueue # <<>> /\ d.cmdQueue[1] = c.cmdQueue[1]
    PROVE  Continuation(d, ts, tc, s)
BY DEF Continuation

\* Tokens speaks of these fields only.
LEMMA TokensSame ==
    ASSUME NEW c, NEW d, NEW ts, NEW tc, NEW s, Tokens(c, ts, tc, s),
           d.cmdQueue = c.cmdQueue, d.respQueue = c.respQueue,
           d.idleCommandRunning = c.idleCommandRunning, d.active = c.active,
           c.logout => d.logout, c.online = d.online, c.deleting = "performed" => d.deleting = "performed",
           c.aborted => d.aborted
    PROVE  Tokens(d, ts, tc, s)
<1>1. \A t : Queued(d, tc, t) = Queued(c, tc, t) /\ Ordered(d, t) = Ordered(c, t)
  BY DEF Queued, Ordered
<1>2. \A t : Once(c, ts, tc, s, t) => Once(d, ts, tc, s, t)
  BY <1>1 DEF Once
<1>3. \A t : Somewhere(d, ts, tc, s, t) <=> Somewhere(c, ts, tc, s, t)
  BY <1>1 DEF Somewhere
<1> QED
  BY <1>2, <1>3 DEF Tokens

\* Wired speaks of these fields only.
LEMMA WireSame ==
    ASSUME NEW c, NEW d, NEW ts, NEW tc, NEW s, Wired(c, ts, tc, s),
           d.cmdQueue = c.cmdQueue, d.respQueue = c.respQueue, d.idling = c.idling,
           d.waitForInitialIdle = c.waitForInitialIdle,
           d.waitingForContinuation = c.waitingForContinuation,
           d.literalCommandTag = c.literalCommandTag,
           d.idleCommandRunning = c.idleCommandRunning, d.active = c.active,
           c.logout => d.logout, c.online = d.online, c.deleting = "performed" => d.deleting = "performed",
           c.aborted => d.aborted
    PROVE  Wired(d, ts, tc, s)
<1>1. Continuation(d, ts, tc, s)
  BY ContinuationSame DEF Wired
<1>2. Tokens(d, ts, tc, s)
  BY TokensSame DEF Wired
<1>3. WireOrder(d, ts, s)
  BY DEF Wired, WireOrder
<1> QED
  BY <1>1, <1>2, <1>3 DEF Wired

\* A refusal is an answer.
LEMMA RefusedAbout ==
    ASSUME NEW q \in Seq(Response), NEW t
    PROVE  Refused(q, t) => About(q, t) # {}
<1> SUFFICES ASSUME NEW i \in DOMAIN q, Refuses(q[i], t) PROVE i \in About(q, t)
  BY DEF Refused
<1>1. q[i] \in Response
  OBVIOUS
<1> QED
  BY <1>1 DEF About, At, Responses, Refuses

\* A method queues commands of its own only, so that the wire stays in order.
LEMMA WireCalls ==
    ASSUME NEW c, NEW d, NEW ts, NEW tc, NEW s, Typed(c), Wired(c, ts, tc, s), Calls(c, d)
    PROVE  Wired(d, ts, tc, s)
<1>1. /\ DOMAIN c.cmdQueue = 1 .. Len(c.cmdQueue) /\ Len(c.cmdQueue) \in Nat
      /\ DOMAIN d.cmdQueue = 1 .. Len(d.cmdQueue) /\ Len(d.cmdQueue) \in Nat
      /\ c.cmdQueue \in Seq(Command) /\ d.cmdQueue \in Seq(Command)
  BY Sizes DEF Calls, Typed
<1>2. \A i \in DOMAIN c.cmdQueue : i \in DOMAIN d.cmdQueue /\ d.cmdQueue[i] = c.cmdQueue[i]
  BY DEF Calls, More
<1>3. c.cmdQueue # <<>> => d.cmdQueue # <<>> /\ d.cmdQueue[1] = c.cmdQueue[1]
  <2> SUFFICES ASSUME c.cmdQueue # <<>> PROVE d.cmdQueue # <<>> /\ d.cmdQueue[1] = c.cmdQueue[1]
    OBVIOUS
  <2>1. 1 \in DOMAIN c.cmdQueue
    BY <1>1
  <2>2. 1 \in DOMAIN d.cmdQueue
    BY <1>2, <2>1
  <2> QED
    BY <1>1, <1>2, <2>1, <2>2
<1>4. Continuation(d, ts, tc, s)
  BY <1>3, ContinuationSame DEF Wired, Calls, Steady
<1>5. WireOrder(d, ts, s)
  BY DEF Wired, WireOrder, Calls, Steady
<1>6. /\ c.active \subseteq d.active /\ d.active \subseteq Tracked
      /\ d.idleCommandRunning = c.idleCommandRunning /\ d.respQueue = c.respQueue
      /\ d.logout = c.logout /\ d.online = c.online
      /\ c.deleting = "performed" => d.deleting = "performed"
      /\ c.aborted => d.aborted
  BY DEF Calls, Typed, Steady
<1>7. /\ \A t \in Tracked \cup {"IDLE"} : Once(c, ts, tc, s, t)
      /\ Somewhere(c, ts, tc, s, "IDLE") => c.idleCommandRunning
      /\ \A t \in Tracked :
          /\ Somewhere(c, ts, tc, s, t) => t \in c.active \/ c.logout
          /\ c.online /\ t \in c.active => Somewhere(c, ts, tc, s, t)
      /\ Somewhere(c, ts, tc, s, "DELETE") => c.deleting = "performed"
      /\ Has(tc, "CLOSED") \/ Has(c.respQueue, "CLOSED") => c.aborted
  BY DEF Wired, Tokens
<1>8. ASSUME NEW t \in Tracked \cup {"IDLE"}, t \notin Started(c, d)
      PROVE  /\ Once(d, ts, tc, s, t)
             /\ Somewhere(d, ts, tc, s, t) <=> Somewhere(c, ts, tc, s, t)
  <2>1. \A i \in DOMAIN d.cmdQueue : d.cmdQueue[i] \in Commands(t) => i \in DOMAIN c.cmdQueue
    BY <1>8, OwnCommands DEF Calls, Commands, New
  <2>2. Ordered(d, t) = Ordered(c, t)
    BY <1>2, <2>1 DEF Ordered, At
  <2>3. \A i \in Ordered(c, t) : d.cmdQueue[i] = c.cmdQueue[i]
    BY <1>2 DEF Ordered, At
  <2>4. Queued(d, tc, t) = Queued(c, tc, t)
    BY <2>2, <2>3 DEF Queued
  <2> QED
    BY <1>6, <1>7, <2>2, <2>4 DEF Once, Somewhere
<1>9. ASSUME NEW t \in Started(c, d)
      PROVE  /\ Once(d, ts, tc, s, t) /\ Somewhere(d, ts, tc, s, t)
             /\ t \in Tracked /\ t \in d.active /\ (t = "DELETE" => d.deleting = "performed")
  <2>1. t \in Tracked /\ t \notin c.active /\ t \in d.active
    BY <1>6 DEF Started
  <2>2. ~Somewhere(c, ts, tc, s, t)
    <3>1. ~c.logout \/ (t = "DELETE" /\ c.deleting # "performed")
      BY DEF Calls
    <3> QED
      BY <1>7, <2>1, <3>1
  <2>3. ~Refused(tc, t)
    BY <2>2, RefusedAbout DEF Somewhere, Wired, TypedWire
  <2>4. Ordered(c, t) = {}
    BY <2>2, <2>3 DEF Somewhere, Queued
  <2>5. Ordered(d, t) \subseteq New(c, d)
    <3>1. \A i \in DOMAIN c.cmdQueue : d.cmdQueue[i] \notin Commands(t)
      BY <1>2, <2>4 DEF Ordered, At
    <3> QED
      BY <3>1 DEF Ordered, At, New
  <2>6. Single(Ordered(d, t))
    <3>1. \A i \in Ordered(d, t) : d.cmdQueue[i].tag = t
      BY DEF Ordered, At, Commands
    <3> QED
      BY <2>1, <2>5, <3>1 DEF Single, Calls
  <2>7. Queued(d, tc, t) # {}
    <3>1. PICK i \in New(c, d) : d.cmdQueue[i].tag = t /\ d.cmdQueue[i].kind # "IDLE_DONE"
      BY DEF Calls
    <3>2. i \in DOMAIN d.cmdQueue /\ d.cmdQueue[i] \in Command
      BY <1>1 DEF New
    <3> QED
      BY <2>3, <3>1, <3>2 DEF Queued, Ordered, At, Commands
  <2>8. Once(d, ts, tc, s, t)
    <3>1. Once(c, ts, tc, s, t)
      BY <1>7, <2>1
    <3>2. /\ Single(Sent(ts, t)) /\ Single(About(tc, t)) /\ Single(About(c.respQueue, t))
          /\ Sent(ts, t) = {} /\ ~Done(s, t) /\ About(tc, t) = {} /\ About(c.respQueue, t) = {}
      BY <2>2, <3>1 DEF Somewhere, Once
    <3> QED
      BY <1>6, <2>6, <3>2 DEF Once
  <2>9. t = "DELETE" => d.deleting = "performed"
    BY DEF Calls
  <2> QED
    BY <2>1, <2>7, <2>8, <2>9 DEF Somewhere
<1>10. Started(c, d) \subseteq Tracked /\ "IDLE" \notin Started(c, d)
  BY <1>9, OwnCommands
<1>11. \A t \in Tracked \cup {"IDLE"} : Once(d, ts, tc, s, t)
  BY <1>8, <1>9
<1>12. Somewhere(d, ts, tc, s, "IDLE") => d.idleCommandRunning
  BY <1>6, <1>7, <1>8, <1>10
<1>13. ASSUME NEW t \in Tracked
       PROVE  /\ Somewhere(d, ts, tc, s, t) => t \in d.active \/ d.logout
              /\ d.online /\ t \in d.active => Somewhere(d, ts, tc, s, t)
  <2>1. CASE t \in Started(c, d)
    BY <1>9, <2>1
  <2>2. CASE t \notin Started(c, d)
    <3>1. t \in d.active => t \in c.active
      BY <2>2 DEF Started
    <3> QED
      BY <1>6, <1>7, <1>8, <2>2, <3>1
  <2> QED
    BY <2>1, <2>2
<1>14. Somewhere(d, ts, tc, s, "DELETE") => d.deleting = "performed"
  <2>1. CASE "DELETE" \in Started(c, d)
    BY <1>9, <2>1
  <2>2. CASE "DELETE" \notin Started(c, d)
    <3>1. "DELETE" \in Tracked
      BY DEF Tracked
    <3> QED
      BY <1>6, <1>7, <1>8, <2>2, <3>1
  <2> QED
    BY <2>1, <2>2
<1>15. Has(tc, "CLOSED") \/ Has(d.respQueue, "CLOSED") => d.aborted
  BY <1>6, <1>7
<1>16. Tokens(d, ts, tc, s)
  BY <1>11, <1>12, <1>13, <1>14, <1>15 DEF Tokens
<1> QED
  BY <1>4, <1>5, <1>6, <1>16 DEF Wired


-----------------------------------------------------------------------------
(* Events, timers and the user                                              *)

\* An event which is awaited stays awaited when others are posted.
LEMMA AwaitedKept ==
    ASSUME NEW c, NEW d, More(c.posted, d.posted), d.handler = c.handler, NEW event,
           AwaitedBy(c, event)
    PROVE  AwaitedBy(d, event)
BY DEF AwaitedBy, IsPosted, More

\* A method keeps the whole invariant of the handover.
LEMMA CallsHold ==
    ASSUME NEW c, NEW d, NEW ts, NEW tc, NEW s, Holds(c, ts, tc, s), c.online, Keeps(c, d), Typed(d)
    PROVE  Holds(d, ts, tc, s)
<1>1. Typed(c) /\ Closing(c) /\ Late(c) /\ Awake(c) /\ Wired(c, ts, tc, s) /\ Calls(c, d)
  BY DEF Holds, Keeps
<1>2. Wired(d, ts, tc, s)
  BY <1>1, WireCalls
<1>3. Late(d)
  BY <1>1, LateKept
<1>4. d.online = c.online /\ d.handler = c.handler /\ d.respQueue = c.respQueue
      /\ More(c.posted, d.posted)
  BY <1>1 DEF Calls, Steady
<1>5. MayExecute(d) => AwaitedBy(d, "executeCommands")
  <2>1. CASE d.cmdQueue = c.cmdQueue
    <3>1. MayExecute(d) => MayExecute(c)
      BY <1>1, <2>1 DEF MayExecute, Calls, Steady
    <3> QED
      BY <1>1, <1>4, <3>1, AwaitedKept DEF Awake
  <2>2. CASE d.cmdQueue # c.cmdQueue
    BY <1>1, <2>2 DEF Calls, AwaitedBy
  <2> QED
    BY <2>1, <2>2
<1>6. d.respQueue # <<>> => AwaitedBy(d, "responseReceived")
  BY <1>1, <1>4, AwaitedKept DEF Awake
<1> QED
  BY <1>1, <1>2, <1>3, <1>4, <1>5, <1>6 DEF Holds, Keeps, Awake

\* A method is safe: it keeps the invariant, or a known assertion fails.
LEMMA KeepsSafe ==
    ASSUME NEW c, NEW d, NEW ts, NEW tc, NEW s, Holds(c, ts, tc, s), c.online, c.failed = {},
           Failing(c, d) \/ (Keeps(c, d) /\ Typed(d))
    PROVE  Safe(d, ts, tc, s)
<1>1. CASE Failing(c, d)
  BY <1>1 DEF Failing, Safe, Fine
<1>2. CASE Keeps(c, d) /\ Typed(d)
  <2>1. Holds(d, ts, tc, s)
    BY <1>2, CallsHold
  <2>2. Fine(d)
    BY <1>2 DEF Keeps, Calls, Steady, Fine
  <2> QED
    BY <2>1, <2>2 DEF Safe
<1> QED
  BY <1>1, <1>2

\* An event is taken from the queue.
EventTaken(c) == [c EXCEPT !.posted = Tail(@)]

\* The first posted event leaves its queue.
LEMMA TakingEvent ==
    ASSUME NEW c, Typed(c), Good(c), Closing(c), Late(c), c.posted # <<>>, NEW d, d = EventTaken(c)
    PROVE  /\ Typed(d) /\ Good(d) /\ Closing(d) /\ Late(d) /\ But(c, d, {"posted"})
           /\ \A event : IsPosted(c, event) /\ Head(c.posted).event # event => IsPosted(d, event)
           /\ IsPosted(c, Head(c.posted).event)
           /\ Head(c.posted).event = "slotTaskDeleted" => Head(c.posted).task \notin c.active
<1> DEFINE p == c.posted
           r == Tail(c.posted)
<1>1. /\ r \in Seq(Posted) /\ p \in Seq(Posted)
      /\ \A i \in DOMAIN r : r[i] = p[i + 1] /\ i + 1 \in DOMAIN p
      /\ Head(p) = p[1] /\ 1 \in DOMAIN p
      /\ \A i \in DOMAIN p : i # 1 => i - 1 \in DOMAIN r /\ r[i - 1] = p[i]
  <2>1. c.posted \in Seq(Posted)
    BY DEF Typed
  <2> QED
    BY <2>1, Tailed
<1>2. Shape(c) /\ d = [c EXCEPT !.posted = r]
  BY DEF Typed, EventTaken
<1> HIDE DEF r
<1>3. But(c, d, {"posted"}) /\ d.posted = r
  BY <1>2 DEF Shape, But, Fields
<1>4. Typed(d)
  BY <1>1, <1>3 DEF But, Fields, Typed
<1>5. Order(d)
  <2>1. Order(c) /\ d.cmdQueue = c.cmdQueue /\ d.idling = c.idling
        /\ d.mIdling = c.mIdling /\ d.waitForInitialIdle = c.waitForInitialIdle
        /\ d.waitingForContinuation = c.waitingForContinuation
    BY <1>3 DEF But, Fields, Good
  <2> QED
    BY <2>1, OrderSame
<1>6. \A event : IsPosted(d, event) => IsPosted(c, event)
  BY <1>1, <1>3 DEF IsPosted
<1>7. Launch(d) /\ Duty(d)
  BY <1>3, <1>6 DEF But, Fields, Good, Launch, Duty, Nothing
<1>8. \A i \in DOMAIN p : p[i].event = "slotTaskDeleted" =>
             /\ p[i].task \notin Waiting(c) \cup c.active
             /\ p[i].task \in Tasks => p[i].task \in c.asked
  BY DEF Good, Stages
<1>9. Stages(d)
  <2>1. /\ d.depending = c.depending /\ d.dependingAny = c.dependingAny /\ d.requested = c.requested
        /\ d.asked = c.asked /\ d.active = c.active
    BY <1>3 DEF But, Fields
  <2>2. Waiting(d) = Waiting(c)
    BY <2>1 DEF Waiting
  <2>3. \A i \in DOMAIN d.posted : d.posted[i].event = "slotTaskDeleted" =>
           /\ d.posted[i].task \notin Waiting(d) \cup d.active
           /\ d.posted[i].task \in Tasks => d.posted[i].task \in d.asked
    BY <1>1, <1>3, <1>8, <2>1, <2>2
  <2> QED
    BY <2>1, <2>2, <2>3 DEF Good, Stages
<1>10. Closing(d)
  BY <1>3 DEF But, Fields, Closing
<1>11. Late(d)
  <2>1. d.aborted = c.aborted /\ d.deleting = c.deleting
    BY <1>3 DEF But, Fields
  <2> QED
    BY <1>1, <1>3, <2>1 DEF Late
<1>12. \A event : IsPosted(c, event) /\ Head(p).event # event => IsPosted(d, event)
  <2> SUFFICES ASSUME NEW event, IsPosted(c, event), Head(p).event # event PROVE IsPosted(d, event)
    OBVIOUS
  <2>1. PICK i \in DOMAIN p : p[i].event = event
    BY DEF IsPosted
  <2>2. i # 1
    BY <1>1, <2>1
  <2>3. i - 1 \in DOMAIN r /\ r[i - 1] = p[i]
    BY <1>1, <2>2
  <2> QED
    BY <1>3, <2>1, <2>3 DEF IsPosted
<1>13. IsPosted(c, Head(p).event)
  BY <1>1 DEF IsPosted
<1> QED
  BY <1>1, <1>3, <1>4, <1>5, <1>7, <1>8, <1>9, <1>10, <1>11, <1>12, <1>13 DEF Good

\* The handler of an event starts.
LEMMA HandlerStarts ==
    ASSUME NEW ts, NEW tc, NEW s, Holds(client, ts, tc, s),
           NEW event \in {"slotActivateTasks", "slotTaskDeleted", "terminate"}, Handling(event),
           NEW c, c = Taken
    PROVE  /\ Holds(c, ts, tc, s) /\ c.online /\ c.failed = {}
           /\ IsPosted(client, event) /\ But(client, c, {"posted"})
           /\ event = "slotTaskDeleted" => Head(client.posted).task \notin c.active
<1>1. /\ Typed(client) /\ Good(client) /\ Closing(client) /\ Late(client)
      /\ client.handler = "none" /\ client.failed = {}
      /\ client.posted # <<>> /\ Head(client.posted).event = event
  BY DEF Holds, Handling, Resting, Sound
<1>2. c = EventTaken(client)
  BY <1>1 DEF Taken, EventTaken
<1>3. /\ Typed(c) /\ Good(c) /\ Closing(c) /\ Late(c) /\ But(client, c, {"posted"})
      /\ \A e : IsPosted(client, e) /\ Head(client.posted).event # e => IsPosted(c, e)
      /\ IsPosted(client, Head(client.posted).event)
      /\ Head(client.posted).event = "slotTaskDeleted" => Head(client.posted).task \notin client.active
  BY <1>1, <1>2, TakingEvent
<1>4. client.online
  BY <1>1 DEF Holds, Over
<1>5. /\ c.cmdQueue = client.cmdQueue /\ c.respQueue = client.respQueue /\ c.idling = client.idling
      /\ c.waitForInitialIdle = client.waitForInitialIdle
      /\ c.waitingForContinuation = client.waitingForContinuation
      /\ c.literalCommandTag = client.literalCommandTag
      /\ c.idleCommandRunning = client.idleCommandRunning /\ c.active = client.active
      /\ c.logout = client.logout /\ c.online = client.online /\ c.deleting = client.deleting
      /\ c.aborted = client.aborted /\ c.handler = client.handler /\ c.failed = client.failed
  BY <1>3 DEF But, Fields
<1>6. Wired(c, ts, tc, s)
  BY <1>4, <1>5, WireSame DEF Holds
<1>7. Awake(c)
  <2>1. MayExecute(c) => MayExecute(client)
    BY <1>5 DEF MayExecute
  <2>2. \A e \in {"executeCommands", "responseReceived"} : AwaitedBy(client, e) => AwaitedBy(c, e)
    BY <1>1, <1>3, <1>5 DEF AwaitedBy
  <2> QED
    BY <1>4, <1>5, <2>1, <2>2 DEF Holds, Awake
<1> QED
  BY <1>1, <1>3, <1>4, <1>5, <1>6, <1>7 DEF Holds

\* The step slotActivateTasks()
LEMMA ActivateStep ==
    ASSUME HandoverInv, slotActivateTasks
    PROVE  HandoverInv'
<1> DEFINE c == Taken
<1>1. Handling("slotActivateTasks") /\ client' = activateTasks(c) /\ Unwired /\ Sound
  BY DEF slotActivateTasks, Handling, Resting
<1>2. Holds(client, toServer, toClient, server)
  BY <1>1 DEF HandoverInv, Safe, Sound
<1>3. c = Taken
  OBVIOUS
<1> HIDE DEF c
<1>4. Holds(c, toServer, toClient, server) /\ c.online /\ c.failed = {}
  BY <1>1, <1>2, <1>3, HandlerStarts
<1>5. Keeps(c, client') /\ Typed(client')
  BY <1>1, <1>4, Activating DEF Holds
<1>6. Safe(client', toServer, toClient, server)
  BY <1>4, <1>5, KeepsSafe
<1> QED
  BY <1>1, <1>6 DEF HandoverInv, Unwired, IdlingServerGetsDone

\* The step slotTaskDeleted()
LEMMA TaskDeletedStep ==
    ASSUME HandoverInv, TaskDeleted
    PROVE  HandoverInv'
<1> DEFINE c == Taken
           t == Head(client.posted).task
<1>1. Handling("slotTaskDeleted") /\ client' = slotTaskDeleted(c, t) /\ Unwired /\ Sound
  BY DEF TaskDeleted, Handling, Resting
<1>2. Holds(client, toServer, toClient, server)
  BY <1>1 DEF HandoverInv, Safe, Sound
<1>3. c = Taken /\ t = Head(client.posted).task
  OBVIOUS
<1> HIDE DEF c, t
<1>4. Holds(c, toServer, toClient, server) /\ c.online /\ c.failed = {} /\ t \notin c.active
  BY <1>1, <1>2, <1>3, HandlerStarts
<1>5. Failing(c, client') \/ (Keeps(c, client') /\ Typed(client'))
  BY <1>1, <1>4, Deleting DEF Holds
<1>6. Safe(client', toServer, toClient, server)
  BY <1>4, <1>5, KeepsSafe
<1> QED
  BY <1>1, <1>6 DEF HandoverInv, Unwired, IdlingServerGetsDone

\* The step terminate()
LEMMA TerminateStep ==
    ASSUME HandoverInv, Terminate
    PROVE  HandoverInv'
<1> DEFINE c == Taken
<1>1. Handling("terminate") /\ client' = terminate(c) /\ Unwired /\ Sound
  BY DEF Terminate, Handling, Resting
<1>2. Holds(client, toServer, toClient, server)
  BY <1>1 DEF HandoverInv, Safe, Sound
<1>3. c = Taken
  OBVIOUS
<1> HIDE DEF c
<1>4. /\ Holds(c, toServer, toClient, server) /\ c.online /\ c.failed = {}
      /\ IsPosted(client, "terminate") /\ But(client, c, {"posted"})
  BY <1>1, <1>2, <1>3, HandlerStarts
<1>5. c.aborted \/ ~c.idleCommandRunning
  BY <1>2, <1>4 DEF Holds, Good, Launch, But, Fields
<1>6. Failing(c, client') \/ (Keeps(c, client') /\ Typed(client'))
  BY <1>1, <1>4, <1>5, Terminating DEF Holds
<1>7. Safe(client', toServer, toClient, server)
  BY <1>4, <1>6, KeepsSafe
<1> QED
  BY <1>1, <1>7 DEF HandoverInv, Unwired, IdlingServerGetsDone

\* Only an event which makes commands or tasks go on is posted.
LEMMA KeepsPosted ==
    ASSUME NEW c, NEW d, Typed(c), Good(c), Typed(d), But(c, d, {"posted"}), Quiet(c, d)
    PROVE  Keeps(c, d)
<1>1. /\ d.cmdQueue = c.cmdQueue /\ d.active = c.active /\ d.asked = c.asked
      /\ d.idling = c.idling /\ d.mIdling = c.mIdling /\ d.waitForInitialIdle = c.waitForInitialIdle
      /\ d.waitingForContinuation = c.waitingForContinuation /\ d.depending = c.depending
      /\ d.dependingAny = c.dependingAny /\ d.requested = c.requested
  BY DEF But, Fields
<1>2. Order(d)
  BY <1>1, OrderSame DEF Good
<1>3. Launch(d) /\ Duty(d)
  BY ToTerminateKept DEF But, Fields, Good, Launch, Duty, Nothing
<1>4. Stages(d)
  BY <1>1, StagesKept DEF Good
<1>5. Calls(c, d)
  <2>1. Steady(c, d)
    BY DEF But, Fields, Steady
  <2> QED
    BY <1>1, <2>1, CallsQuietly
<1> QED
  BY <1>2, <1>3, <1>4, <1>5 DEF Good, Keeps, Closing, But, Fields

\* What matters to the user interface, or only to a choice
LEMMA Aside ==
    ASSUME NEW c, Typed(c), Good(c), NEW d, But(c, d, {"fetchTimer", "obtaining", "shouldExit"})
    PROVE  Keeps(c, d) /\ Typed(d)
<1>1. Typed(d)
  BY DEF But, Fields, Typed
<1>2. Order(d) /\ Stages(d) /\ Quiet(c, d)
  <2>1. {"fetchTimer", "obtaining", "shouldExit"} \cap
          {"cmdQueue", "posted", "active", "idling", "mIdling", "waitForInitialIdle", "asked",
           "waitingForContinuation", "depending", "dependingAny", "requested"} = {}
    OBVIOUS
  <2> QED
    BY <1>1, <2>1, Leaves
<1>3. Launch(d) /\ Duty(d)
  BY <1>2, ToTerminateKept DEF But, Fields, Good, Launch, Duty, Nothing
<1>4. Calls(c, d)
  <2>1. Steady(c, d) /\ d.cmdQueue = c.cmdQueue /\ d.active = c.active
    BY DEF But, Fields, Steady
  <2> QED
    BY <1>1, <1>2, <2>1, CallsQuietly
<1> QED
  BY <1>1, <1>2, <1>3, <1>4 DEF Good, Keeps, Closing, But, Fields

Requests(c, t) == [c EXCEPT !.requested = Append(@, t), !.fetchTimer = TRUE, !.asked = @ \cup {t}]

\* A part is asked for: it waits among the requests, and the timer starts.
LEMMA Request ==
    ASSUME NEW c, Typed(c), Good(c), ~c.aborted, NEW t \in Tasks, t \notin c.asked,
           NEW d, d = Requests(c, t)
    PROVE  Keeps(c, d) /\ Typed(d)
<1>1. /\ Shape(c) /\ c.requested \in Seq(Tasks) /\ NoDup(c.requested)
      /\ t \notin Waiting(c) /\ t \notin c.active
  BY DEF Typed, Good, Stages
<1>2. t \notin ToSet(c.depending) /\ t \notin ToSet(c.dependingAny) /\ t \notin ToSet(c.requested)
  BY <1>1 DEF Waiting
<1>3. /\ Append(c.requested, t) \in Seq(Tasks) /\ NoDup(Append(c.requested, t))
      /\ ToSet(Append(c.requested, t)) = ToSet(c.requested) \cup {t}
  BY <1>1, <1>2, OneMore
<1>4. But(c, d, {"requested", "fetchTimer", "asked"}) /\ d.requested = Append(c.requested, t)
      /\ d.asked = c.asked \cup {t}
  BY <1>1, ZenonT(60) DEF Requests, Shape, But, Fields
<1>5. Typed(d)
  BY <1>3, <1>4 DEF But, Fields, Typed
<1>6. /\ d.cmdQueue = c.cmdQueue /\ d.posted = c.posted /\ d.active = c.active
      /\ d.idling = c.idling /\ d.mIdling = c.mIdling /\ d.waitForInitialIdle = c.waitForInitialIdle
      /\ d.waitingForContinuation = c.waitingForContinuation /\ d.depending = c.depending
      /\ d.dependingAny = c.dependingAny
  BY <1>4 DEF But, Fields
<1>7. Order(d)
  BY <1>6, OrderSame DEF Good
<1>8. Quiet(c, d)
  BY <1>6, Sizes DEF Quiet, More
<1>9. Launch(d) /\ Duty(d)
  BY <1>4, <1>8, ToTerminateKept DEF But, Fields, Good, Launch, Duty, Nothing
<1>10. Stages(d)
  <2>1. Waiting(d) = Waiting(c) \cup {t}
    BY <1>3, <1>4, <1>6 DEF Waiting
  <2>2. /\ NoDup(d.depending) /\ NoDup(d.dependingAny) /\ NoDup(d.requested)
        /\ ToSet(d.depending) \cap ToSet(d.dependingAny) = {}
        /\ (ToSet(d.depending) \cup ToSet(d.dependingAny)) \cap ToSet(d.requested) = {}
    BY <1>2, <1>3, <1>4, <1>6 DEF Good, Stages
  <2>3. Waiting(d) \cap d.active = {} /\ Waiting(d) \cup (d.active \cap Tasks) \subseteq d.asked
    BY <1>1, <1>4, <1>6, <2>1 DEF Good, Stages
  <2>4. \A i \in DOMAIN c.posted : c.posted[i].event = "slotTaskDeleted" =>
           /\ c.posted[i].task \notin Waiting(c) \cup c.active
           /\ c.posted[i].task \in Tasks => c.posted[i].task \in c.asked
    BY DEF Good, Stages
  <2>5. \A i \in DOMAIN d.posted : d.posted[i].event = "slotTaskDeleted" =>
           /\ d.posted[i].task \notin Waiting(d) \cup d.active
           /\ d.posted[i].task \in Tasks => d.posted[i].task \in d.asked
    BY <1>4, <1>6, <2>1, <2>4
  <2> QED
    BY <2>2, <2>3, <2>5 DEF Stages
<1>11. Calls(c, d)
  <2>1. Steady(c, d)
    BY <1>4 DEF But, Fields, Steady
  <2> QED
    BY <1>5, <1>6, <1>8, <2>1, CallsQuietly
<1> QED
  BY <1>4, <1>5, <1>7, <1>9, <1>10, <1>11 DEF Good, Keeps, Closing, But, Fields

\* The connection is to be left soon.
LEMMA PostTerminate ==
    ASSUME NEW c, Typed(c), Good(c), Calm(c), c.launcher # "none" => ~c.idleCommandRunning,
           NEW d, d = Post(c, "terminate", NoTag)
    PROVE  Keeps(c, d) /\ Typed(d)
<1>1. "terminate" \in Events /\ NoTag \in Tag \cup {NoTag} /\ "terminate" # "slotTaskDeleted"
  BY DEF Events
<1>2. /\ Typed(d) /\ But(c, d, {"posted"}) /\ More(c.posted, d.posted)
      /\ \A i \in DOMAIN d.posted : i \in DOMAIN c.posted \/ d.posted[i].event = "terminate"
  BY <1>1, Posts
<1>3. /\ d.cmdQueue = c.cmdQueue /\ d.active = c.active /\ d.asked = c.asked
      /\ d.idling = c.idling /\ d.mIdling = c.mIdling /\ d.waitForInitialIdle = c.waitForInitialIdle
      /\ d.waitingForContinuation = c.waitingForContinuation /\ d.depending = c.depending
      /\ d.dependingAny = c.dependingAny /\ d.requested = c.requested
  BY <1>2 DEF But, Fields
<1>4. Order(d)
  BY <1>3, OrderSame DEF Good
<1>5. Launch(d) /\ Duty(d)
  BY <1>2 DEF But, Fields, Good, Launch, Duty, Nothing, Calm
<1>6. Undeleted(c, d)
  BY <1>1, <1>2 DEF Undeleted
<1>7. Stages(d)
  <2>1. Waiting(d) = Waiting(c)
    BY <1>3 DEF Waiting
  <2>2. \A i \in DOMAIN d.posted : d.posted[i].event = "slotTaskDeleted" =>
           i \in DOMAIN c.posted /\ d.posted[i] = c.posted[i]
    BY <1>2, <1>6 DEF Undeleted, More
  <2> QED
    BY <1>3, <2>1, <2>2 DEF Good, Stages
<1>8. Calls(c, d)
  <2>1. New(c, d) = {} /\ Started(c, d) = {} /\ More(c.cmdQueue, d.cmdQueue)
    BY <1>3, Sizes DEF New, Started, More
  <2>2. Steady(c, d)
    BY <1>2 DEF But, Fields, Steady
  <2> QED
    BY <1>2, <1>3, <1>6, <2>1, <2>2 DEF Calls
<1> QED
  BY <1>2, <1>4, <1>5, <1>7, <1>8 DEF Good, Keeps, Closing, But, Fields

\* The user waits for the client to come to rest.
LEMMA AtRest ==
    ASSUME HandoverInv, Resting, client.online
    PROVE  /\ Holds(client, toServer, toClient, server) /\ client.failed = {} /\ client.handler = "none"
           /\ Typed(client) /\ Good(client) /\ Closing(client) /\ Late(client)
BY DEF HandoverInv, Safe, Resting, Sound, Holds

\* A step which does not touch the wire keeps IdlingServerGetsDone.
LEMMA Unwire ==
    ASSUME HandoverInv, Unwired, Safe(client', toServer, toClient, server)
    PROVE  HandoverInv'
BY DEF HandoverInv, Unwired, IdlingServerGetsDone

\* The step addDependentTask()
LEMMA AddTaskStep ==
    ASSUME HandoverInv, NEW t \in Tasks, AddTask(t)
    PROVE  HandoverInv'
<1> DEFINE b == breakOrCancelPossibleIdle(client)
<1>1. Resting /\ client.online /\ ~client.logout /\ ~client.aborted /\ Unwired /\ t \notin client.asked
  BY DEF AddTask, Maintains
<1>2. /\ Holds(client, toServer, toClient, server) /\ client.failed = {}
      /\ Typed(client) /\ Good(client)
  BY <1>1, AtRest
<1>3. client' = Asked(b, t)
  BY DEF AddTask, addDependentTask, Asked
<1>4. Keeps(client, b) /\ Typed(b) /\ Calm(b) /\ Unmoved(client, b)
  BY <1>2, Break
<1> HIDE DEF b
<1>5. Good(b) /\ ~b.logout /\ ~b.aborted /\ t \notin b.asked
  BY <1>1, <1>4 DEF Keeps, Unmoved
<1>6. Keeps(b, client') /\ Typed(client')
  BY <1>3, <1>4, <1>5, Ask
<1>7. Keeps(client, client')
  BY <1>2, <1>4, <1>6, KeepsTwice
<1>8. Safe(client', toServer, toClient, server)
  BY <1>1, <1>2, <1>6, <1>7, KeepsSafe
<1> QED
  BY <1>1, <1>8, Unwire

\* The step requestPartDownload()
LEMMA RequestStep ==
    ASSUME HandoverInv, NEW t \in Tasks, requestPartDownload(t)
    PROVE  HandoverInv'
<1>1. Resting /\ client.online /\ ~client.aborted /\ Unwired /\ t \notin client.asked
  BY DEF requestPartDownload, Maintains
<1>2. /\ Holds(client, toServer, toClient, server) /\ client.failed = {}
      /\ Typed(client) /\ Good(client)
  BY <1>1, AtRest
<1>3. client' = Requests(client, t)
  BY DEF requestPartDownload, Requests
<1>4. Keeps(client, client') /\ Typed(client')
  BY <1>1, <1>2, <1>3, Request
<1>5. Safe(client', toServer, toClient, server)
  BY <1>1, <1>2, <1>4, KeepsSafe
<1> QED
  BY <1>1, <1>5, Unwire

\* The step of the fetch timer
LEMMA FetchStep ==
    ASSUME HandoverInv, FetchTimeout
    PROVE  HandoverInv'
<1> DEFINE b == [client EXCEPT !.fetchTimer = FALSE]
<1>1. Resting /\ client.online /\ Unwired /\ client' = slotFetchRequestedParts(b)
  BY DEF FetchTimeout
<1>2. /\ Holds(client, toServer, toClient, server) /\ client.failed = {}
      /\ Typed(client) /\ Good(client)
  BY <1>1, AtRest
<1>3. But(client, b, {"fetchTimer", "obtaining", "shouldExit"})
  BY <1>2 DEF Typed, Shape, But, Fields
<1> HIDE DEF b
<1>4. Keeps(client, b) /\ Typed(b)
  BY <1>2, <1>3, Aside
<1>5. Keeps(b, client') /\ Typed(client')
  BY <1>1, <1>4, Fetch DEF Keeps
<1>6. Keeps(client, client')
  BY <1>2, <1>4, <1>5, KeepsTwice
<1>7. Safe(client', toServer, toClient, server)
  BY <1>1, <1>2, <1>5, <1>6, KeepsSafe
<1> QED
  BY <1>1, <1>7, Unwire

\* The step in which the user opens another mailbox
LEMMA SwitchStep ==
    ASSUME HandoverInv, SwitchMailbox
    PROVE  HandoverInv'
<1> DEFINE b == breakOrCancelPossibleIdle(client)
           e == [b EXCEPT !.obtaining = TRUE, !.shouldExit = TRUE]
           c == slotFetchRequestedParts(e)
<1>1. /\ Resting /\ client.online /\ Unwired
      /\ client' = IF hasPendingInternalActions(c) THEN c ELSE Post(c, "terminate", NoTag)
  BY DEF SwitchMailbox, Maintains
<1>2. /\ Holds(client, toServer, toClient, server) /\ client.failed = {}
      /\ Typed(client) /\ Good(client)
  BY <1>1, AtRest
<1>3. Keeps(client, b) /\ Typed(b) /\ Calm(b)
  BY <1>2, Break
<1> HIDE DEF b
<1>4. But(b, e, {"fetchTimer", "obtaining", "shouldExit"})
  BY <1>3, ZenonT(60) DEF Typed, Shape, But, Fields
<1>5. c = slotFetchRequestedParts(e)
  OBVIOUS
<1> HIDE DEF e, c
<1>6. Keeps(b, e) /\ Typed(e) /\ Calm(e)
  <2>1. Keeps(b, e) /\ Typed(e)
    BY <1>3, <1>4, Aside DEF Keeps
  <2> QED
    BY <1>3, <1>4, <2>1 DEF Calm, But, Fields
<1>7. Keeps(e, c) /\ Typed(c) /\ Calm(c)
  BY <1>5, <1>6, Fetch DEF Keeps
<1>8. Keeps(client, c)
  <2>1. Keeps(client, e)
    BY <1>2, <1>3, <1>6, KeepsTwice
  <2> QED
    BY <1>2, <1>7, <2>1, KeepsTwice
<1>9. Keeps(client, client') /\ Typed(client')
  <2>1. CASE hasPendingInternalActions(c)
    BY <1>1, <1>7, <1>8, <2>1
  <2>2. CASE ~hasPendingInternalActions(c)
    <3>1. client' = Post(c, "terminate", NoTag) /\ (c.launcher # "none" => ~c.idleCommandRunning)
      BY <1>1, <2>2 DEF hasPendingInternalActions
    <3>2. Keeps(c, client') /\ Typed(client')
      BY <1>7, <3>1, PostTerminate DEF Keeps
    <3> QED
      BY <1>2, <1>8, <3>2, KeepsTwice
  <2> QED
    BY <2>1, <2>2
<1>10. Safe(client', toServer, toClient, server)
  BY <1>1, <1>2, <1>9, KeepsSafe
<1> QED
  BY <1>1, <1>10, Unwire

Condemned(c) == [c EXCEPT !.deleting = "waiting", !.shouldExit = TRUE]

\* The fields which a request to delete changes
LEMMA CondemnedFields ==
    ASSUME NEW c, Shape(c), NEW d, d = Condemned(c)
    PROVE  But(c, d, {"deleting", "shouldExit"}) /\ d.deleting = "waiting"
BY ZenonT(60) DEF Condemned, Shape, But, Fields

\* The mailbox is going to be deleted: no task may join it.
LEMMA Condemning ==
    ASSUME NEW c, Typed(c), Good(c), Closing(c), Calm(c), c.deleting = "no",
           c.launcher # "none" => ~c.idleCommandRunning, NEW d, d = Condemned(c)
    PROVE  Keeps(c, d) /\ Typed(d)
<1>0. Shape(c)
  BY DEF Typed
<1>1. But(c, d, {"deleting", "shouldExit"}) /\ d.deleting = "waiting"
  BY <1>0, CondemnedFields
<1>2. Typed(d)
  BY <1>1 DEF But, Fields, Typed
<1>3. Order(d) /\ Stages(d) /\ Quiet(c, d)
  <2>1. {"deleting", "shouldExit"} \cap
          {"cmdQueue", "posted", "active", "idling", "mIdling", "waitForInitialIdle", "asked",
           "waitingForContinuation", "depending", "dependingAny", "requested"} = {}
    OBVIOUS
  <2> QED
    BY <1>1, <1>2, <2>1, Leaves
<1>4. Launch(d) /\ Duty(d)
  BY <1>1, <1>3, ToTerminateKept DEF But, Fields, Good, Launch, Duty, Nothing, Calm
<1>5. Calls(c, d)
  <2>1. Steady(c, d) /\ d.cmdQueue = c.cmdQueue /\ d.active = c.active
    BY <1>1 DEF But, Fields, Steady
  <2> QED
    BY <1>2, <1>3, <2>1, CallsQuietly
<1>6. Closing(d)
  BY <1>1 DEF Closing, But, Fields
<1> QED
  BY <1>2, <1>3, <1>4, <1>5, <1>6 DEF Good, Keeps

\* The step in which the user deletes the mailbox
LEMMA DeleteStep ==
    ASSUME HandoverInv, DeleteMailbox
    PROVE  HandoverInv'
<1> DEFINE b == breakOrCancelPossibleIdle(client)
           e == Condemned(b)
<1>1. /\ Resting /\ client.online /\ Unwired /\ client.deleting = "no"
      /\ client' = IF hasPendingInternalActions(b) THEN b ELSE Activate(e)
  BY DEF DeleteMailbox, Maintains, Condemned
<1>2. /\ Holds(client, toServer, toClient, server) /\ client.failed = {}
      /\ Typed(client) /\ Good(client) /\ Closing(client)
  BY <1>1, AtRest
<1>3. Keeps(client, b) /\ Typed(b) /\ Calm(b) /\ Unmoved(client, b)
  BY <1>2, Break
<1>4. e = Condemned(b)
  OBVIOUS
<1> HIDE DEF b, e
<1>5. Keeps(client, client') /\ Typed(client')
  <2>1. CASE hasPendingInternalActions(b)
    BY <1>1, <1>3, <2>1
  <2>2. CASE ~hasPendingInternalActions(b)
    <3>1. (b.launcher # "none" => ~b.idleCommandRunning) /\ b.deleting = "no" /\ Good(b) /\ Closing(b)
      BY <1>1, <1>2, <1>3, <2>2 DEF hasPendingInternalActions, Unmoved, Keeps
    <3>2. Keeps(b, e) /\ Typed(e)
      BY <1>3, <1>4, <3>1, Condemning
    <3>3. client' = Activate(e)
      BY <1>1, <2>2
    <3>4. Typed(client') /\ But(e, client', {"posted"}) /\ Quiet(e, client')
      BY <3>2, <3>3, ActivateQuietly
    <3>5. Keeps(e, client')
      BY <3>2, <3>4, KeepsPosted DEF Keeps
    <3>6. Keeps(client, e)
      BY <1>2, <1>3, <3>2, KeepsTwice
    <3> QED
      BY <1>2, <3>4, <3>5, <3>6, KeepsTwice
  <2> QED
    BY <2>1, <2>2
<1>6. Safe(client', toServer, toClient, server)
  BY <1>1, <1>2, <1>5, KeepsSafe
<1> QED
  BY <1>1, <1>6, Unwire

-----------------------------------------------------------------------------
(* A command, or its answer, moves from one place to another                *)

Same(S, T) == (Single(S) => Single(T)) /\ (T = {} <=> S = {})

\* Nothing has happened to the command with tag t.
Alike(c, ts, tc, s, d, us, uc, r, t) ==
    /\ Same(Ordered(c, t), Ordered(d, t)) /\ (Queued(d, uc, t) = {} <=> Queued(c, tc, t) = {})
    /\ Same(Sent(ts, t), Sent(us, t)) /\ (Done(r, t) <=> Done(s, t))
    /\ Same(About(tc, t), About(uc, t)) /\ Same(About(c.respQueue, t), About(d.respQueue, t))

\* When the places of a tag are alike, what Tokens says of it is kept.
LEMMA AlikeKeeps ==
    ASSUME NEW c, NEW ts, NEW tc, NEW s, NEW d, NEW us, NEW uc, NEW r, NEW t,
           Alike(c, ts, tc, s, d, us, uc, r, t)
    PROVE  /\ Once(c, ts, tc, s, t) => Once(d, us, uc, r, t)
           /\ Somewhere(d, us, uc, r, t) <=> Somewhere(c, ts, tc, s, t)
BY DEF Alike, Same, Once, Somewhere

\* Tokens is kept when only the places of x change, and x is at one place again.
LEMMA TokensMoved ==
    ASSUME NEW c, NEW ts, NEW tc, NEW s, NEW d, NEW us, NEW uc, NEW r, NEW x,
           Tokens(c, ts, tc, s),
           \A t \in Tracked \cup {"IDLE"} : t # x => Alike(c, ts, tc, s, d, us, uc, r, t),
           x \in Tracked \cup {"IDLE"} => /\ Once(d, us, uc, r, x)
                                          /\ Somewhere(d, us, uc, r, x) <=> Somewhere(c, ts, tc, s, x),
           d.idleCommandRunning = c.idleCommandRunning, d.active = c.active, d.logout = c.logout,
           d.online = c.online, d.deleting = c.deleting, d.aborted = c.aborted,
           Has(uc, "CLOSED") \/ Has(d.respQueue, "CLOSED") =>
               Has(tc, "CLOSED") \/ Has(c.respQueue, "CLOSED") \/ d.aborted
    PROVE  Tokens(d, us, uc, r)
<1>1. \A t \in Tracked \cup {"IDLE"} :
         /\ Once(d, us, uc, r, t)
         /\ Somewhere(d, us, uc, r, t) <=> Somewhere(c, ts, tc, s, t)
  <2> SUFFICES ASSUME NEW t \in Tracked \cup {"IDLE"}
               PROVE  /\ Once(d, us, uc, r, t)
                      /\ Somewhere(d, us, uc, r, t) <=> Somewhere(c, ts, tc, s, t)
    OBVIOUS
  <2>1. CASE t = x
    BY <2>1
  <2>2. CASE t # x
    <3>1. Alike(c, ts, tc, s, d, us, uc, r, t) /\ Once(c, ts, tc, s, t)
      BY <2>2 DEF Tokens
    <3> QED
      BY <3>1, AlikeKeeps
  <2> QED
    BY <2>1, <2>2
<1>2. "DELETE" \in Tracked \cup {"IDLE"}
  BY DEF Tracked
<1>3. Somewhere(d, us, uc, r, "IDLE") => d.idleCommandRunning
  BY <1>1 DEF Tokens
<1>4. \A t \in Tracked :
        /\ Somewhere(d, us, uc, r, t) => t \in d.active \/ d.logout
        /\ d.online /\ t \in d.active => Somewhere(d, us, uc, r, t)
  BY <1>1 DEF Tokens
<1>5. Somewhere(d, us, uc, r, "DELETE") => d.deleting = "performed"
  BY <1>1, <1>2 DEF Tokens
<1>6. Has(uc, "CLOSED") \/ Has(d.respQueue, "CLOSED") => d.aborted
  BY DEF Tokens
<1> QED
  BY <1>1, <1>3, <1>4, <1>5, <1>6 DEF Tokens

\* Another element is appended.
LEMMA SameAppend ==
    ASSUME NEW T, NEW q \in Seq(T), NEW e \in T, NEW S, e \notin S
    PROVE  Same(At(q, S), At(Append(q, e), S))
BY AtAppend DEF Same

\* Another element leaves.
LEMMA SameTail ==
    ASSUME NEW T, NEW q \in Seq(T), q # <<>>, NEW S, q[1] \notin S
    PROVE  Same(At(q, S), At(Tail(q), S))
<1>1. /\ Single(At(q, S)) => Single(At(Tail(q), S))
      /\ At(Tail(q), S) # {} => At(q, S) # {}
      /\ At(q, S) # {} => At(Tail(q), S) # {}
  BY AtTail
<1> QED
  BY <1>1 DEF Same

\* A refusal in a queue which gains a response
LEMMA RefusedAppend ==
    ASSUME NEW q \in Seq(Response), NEW e \in Response, NEW t
    PROVE  Refused(Append(q, e), t) <=> Refused(q, t) \/ Refuses(e, t)
<1> DEFINE r == Append(q, e)
<1>1. /\ Len(q) \in Nat /\ DOMAIN q = 1 .. Len(q) /\ DOMAIN r = 1 .. Len(q) + 1
      /\ r[Len(q) + 1] = e /\ \A i \in DOMAIN q : r[i] = q[i]
  BY Appended
<1> HIDE DEF r
<1>2. \A i \in DOMAIN r : i \in DOMAIN q \/ i = Len(q) + 1
  BY <1>1
<1>3. DOMAIN q \subseteq DOMAIN r /\ Len(q) + 1 \in DOMAIN r
  BY <1>1
<1>4. Refused(r, t) <=> Refused(q, t) \/ Refuses(e, t)
  BY <1>1, <1>2, <1>3 DEF Refused
<1> QED
  BY <1>4 DEF r

\* A kind in a queue which gains an element
LEMMA HasAppend ==
    ASSUME NEW T, NEW q \in Seq(T), NEW e \in T, NEW kind
    PROVE  Has(Append(q, e), kind) <=> Has(q, kind) \/ e.kind = kind
<1> DEFINE r == Append(q, e)
<1>1. /\ Len(q) \in Nat /\ DOMAIN q = 1 .. Len(q) /\ DOMAIN r = 1 .. Len(q) + 1
      /\ r[Len(q) + 1] = e /\ \A i \in DOMAIN q : r[i] = q[i]
  BY Appended
<1> HIDE DEF r
<1>2. \A i \in DOMAIN r : i \in DOMAIN q \/ i = Len(q) + 1
  BY <1>1
<1>3. DOMAIN q \subseteq DOMAIN r /\ Len(q) + 1 \in DOMAIN r
  BY <1>1
<1>4. Has(r, kind) <=> Has(q, kind) \/ e.kind = kind
  BY <1>1, <1>2, <1>3 DEF Has
<1> QED
  BY <1>4 DEF r

\* A refusal in a queue whose first response leaves
LEMMA RefusedTail ==
    ASSUME NEW q \in Seq(Response), q # <<>>, NEW t
    PROVE  Refused(q, t) <=> Refused(Tail(q), t) \/ Refuses(q[1], t)
<1> DEFINE r == Tail(q)
<1>1. /\ \A i \in DOMAIN r : r[i] = q[i + 1] /\ i + 1 \in DOMAIN q
      /\ 1 \in DOMAIN q
      /\ \A i \in DOMAIN q : i # 1 => i - 1 \in DOMAIN r /\ r[i - 1] = q[i]
  BY Tailed
<1> HIDE DEF r
<1>2. Refused(q, t) <=> Refused(r, t) \/ Refuses(q[1], t)
  BY <1>1 DEF Refused
<1> QED
  BY <1>2 DEF r

\* A kind in a queue whose first element leaves
LEMMA HasTail ==
    ASSUME NEW T, NEW q \in Seq(T), q # <<>>, NEW kind
    PROVE  Has(q, kind) <=> Has(Tail(q), kind) \/ q[1].kind = kind
<1> DEFINE r == Tail(q)
<1>1. /\ \A i \in DOMAIN r : r[i] = q[i + 1] /\ i + 1 \in DOMAIN q
      /\ 1 \in DOMAIN q
      /\ \A i \in DOMAIN q : i # 1 => i - 1 \in DOMAIN r /\ r[i - 1] = q[i]
  BY Tailed
<1> HIDE DEF r
<1>2. Has(q, kind) <=> Has(r, kind) \/ q[1].kind = kind
  BY <1>1 DEF Has
<1> QED
  BY <1>2 DEF r

\* The queue gets a command.
LEMMA QueuedWith ==
    ASSUME NEW c, NEW d, NEW tc, NEW cmd \in Command, c.cmdQueue \in Seq(Command),
           d.cmdQueue = Append(c.cmdQueue, cmd), NEW t, cmd \notin Commands(t)
    PROVE  Same(Ordered(c, t), Ordered(d, t)) /\ Queued(d, tc, t) = Queued(c, tc, t)
<1>1. Ordered(d, t) = Ordered(c, t)
  BY AtAppend DEF Ordered
<1>2. \A i \in DOMAIN c.cmdQueue : d.cmdQueue[i] = c.cmdQueue[i]
  BY Appended
<1>3. \A i \in Ordered(c, t) : d.cmdQueue[i] = c.cmdQueue[i]
  BY <1>2 DEF Ordered, At
<1>4. Queued(d, tc, t) = Queued(c, tc, t)
  BY <1>1, <1>3 DEF Queued
<1> QED
  BY <1>1, <1>4 DEF Same

\* An appended command does not become the first of several.
LEMMA FirstKept ==
    ASSUME NEW q \in Seq(Command), NEW cmd \in Command
    PROVE  q # <<>> => Append(q, cmd) # <<>> /\ Append(q, cmd)[1] = q[1]
OBVIOUS

-----------------------------------------------------------------------------
(* Timers of the launcher, and LOGOUT                                       *)

Passing(timer) == IF timer = "started" THEN "due" ELSE timer
Passed(c) == [c EXCEPT !.delayedEnter = Passing(@), !.renewal = Passing(@)]

\* The fields which time changes
LEMMA PassedFields ==
    ASSUME NEW c, Shape(c), NEW d, d = Passed(c)
    PROVE  But(c, d, {"delayedEnter", "renewal"}) /\ d.delayedEnter = Passing(c.delayedEnter)
BY ZenonT(60) DEF Passed, Shape, But, Fields

\* The step in which time passes: a timer becomes due
LEMMA ElapseStep ==
    ASSUME HandoverInv, Elapse
    PROVE  HandoverInv'
<1> DEFINE d == Passed(client)
<1>1. Resting /\ Sound /\ client.posted = <<>> /\ Unwired /\ client' = d
  BY DEF Elapse, Unwired, Resting, Passed, Passing
<1>2. Holds(client, toServer, toClient, server) /\ client.failed = {}
  BY <1>1 DEF HandoverInv, Safe, Sound
<1>3. Typed(client) /\ Good(client) /\ Shape(client)
  BY <1>2 DEF Holds, Typed
<1>4. But(client, d, {"delayedEnter", "renewal"}) /\ d.delayedEnter = Passing(client.delayedEnter)
  BY <1>3, PassedFields
<1> HIDE DEF d
<1>5. Typed(d)
  BY <1>3, <1>4 DEF But, Fields, Typed
<1>6. Order(d) /\ Stages(d) /\ Quiet(client, d)
  <2>1. {"delayedEnter", "renewal"} \cap
          {"cmdQueue", "posted", "active", "idling", "mIdling", "waitForInitialIdle", "asked",
           "waitingForContinuation", "depending", "dependingAny", "requested"} = {}
    OBVIOUS
  <2> QED
    BY <1>3, <1>4, <1>5, <2>1, Leaves
<1>7. ~IsPosted(client, "terminate")
  BY <1>1 DEF IsPosted
<1>8. d.delayedEnter = "stopped" <=> client.delayedEnter = "stopped"
  BY <1>4 DEF Passing
<1>9. Launch(d) /\ Duty(d)
  BY <1>3, <1>4, <1>6, <1>7, <1>8, ToTerminateKept DEF But, Fields, Good, Launch, Duty, Nothing
<1>10. Calls(client, d)
  <2>1. Steady(client, d) /\ d.cmdQueue = client.cmdQueue /\ d.active = client.active
    BY <1>4 DEF But, Fields, Steady
  <2> QED
    BY <1>3, <1>5, <1>6, <2>1, CallsQuietly
<1>11. Keeps(client, d)
  BY <1>4, <1>6, <1>9, <1>10 DEF Good, Keeps, Closing, But, Fields
<1>12. Safe(d, toServer, toClient, server)
  <2>1. CASE client.online
    BY <1>2, <1>5, <1>11, <2>1, KeepsSafe
  <2>2. CASE ~client.online
    <3>1. ~d.online /\ d.failed = {} /\ d.handler = client.handler /\ (Over(client) => Over(d))
      BY <1>2, <1>4, <2>2 DEF But, Fields, Over
    <3>2. Closing(d) /\ Late(d)
      BY <1>2, <1>10, <1>11, LateKept DEF Holds, Keeps
    <3> QED
      BY <1>2, <1>5, <1>11, <2>2, <3>1, <3>2 DEF Holds, Keeps, Safe, Fine
  <2> QED
    BY <2>1, <2>2
<1> QED
  BY <1>1, <1>12, Unwire

\* The timers are no longer needed.
Halted(c) == [c EXCEPT !.delayedEnter = "stopped", !.renewal = "stopped"]

\* The fields which the timer of IDLE changes when it fires
LEMMA HaltedFields ==
    ASSUME NEW c, Shape(c), NEW d, d = Halted(c)
    PROVE  But(c, d, {"delayedEnter", "renewal"}) /\ d.delayedEnter = "stopped"
BY ZenonT(60) DEF Halted, Shape, But, Fields

\* Stopping a timer of the launcher keeps everything.
LEMMA Halting ==
    ASSUME NEW c, Typed(c), Good(c), NEW d, But(c, d, {"delayedEnter", "renewal"}),
           d.delayedEnter \in {c.delayedEnter, "stopped"}
    PROVE  Keeps(c, d) /\ Typed(d)
<1>1. Typed(d)
  BY DEF But, Fields, Typed
<1>2. Order(d) /\ Stages(d) /\ Quiet(c, d)
  <2>1. {"delayedEnter", "renewal"} \cap
          {"cmdQueue", "posted", "active", "idling", "mIdling", "waitForInitialIdle", "asked",
           "waitingForContinuation", "depending", "dependingAny", "requested"} = {}
    OBVIOUS
  <2> QED
    BY <1>1, <2>1, Leaves
<1>3. Launch(d) /\ Duty(d)
  BY <1>2, ToTerminateKept DEF But, Fields, Good, Launch, Duty, Nothing
<1>4. Calls(c, d)
  <2>1. Steady(c, d) /\ d.cmdQueue = c.cmdQueue /\ d.active = c.active
    BY DEF But, Fields, Steady
  <2> QED
    BY <1>1, <1>2, <2>1, CallsQuietly
<1> QED
  BY <1>1, <1>2, <1>3, <1>4 DEF Good, Keeps, Closing, But, Fields

\* The step slotTerminateLongIdle()
LEMMA RenewStep ==
    ASSUME HandoverInv, slotTerminateLongIdle
    PROVE  HandoverInv'
<1> DEFINE c == [client EXCEPT !.renewal = "stopped"]
<1>1. /\ Resting /\ client.launcher = "alive" /\ Unwired
      /\ client' = IF c.mIdling THEN finishIdle(c) ELSE c
  BY DEF slotTerminateLongIdle, Unwired
<1>2. Holds(client, toServer, toClient, server) /\ client.failed = {} /\ client.online
  BY <1>1 DEF HandoverInv, Safe, Resting, Sound, Holds, Over
<1>3. Typed(client) /\ Good(client) /\ Shape(client)
  BY <1>2 DEF Holds, Typed
<1>4. But(client, c, {"delayedEnter", "renewal"}) /\ c.delayedEnter = client.delayedEnter
      /\ c.launcher = "alive"
  BY <1>1, <1>3 DEF Shape, But, Fields
<1> HIDE DEF c
<1>5. Keeps(client, c) /\ Typed(c)
  BY <1>3, <1>4, Halting
<1>6. Keeps(client, client') /\ Typed(client')
  <2>1. CASE c.mIdling
    <3>1. client' = breakOrCancelPossibleIdle(c)
      BY <1>1, <1>4, <2>1 DEF breakOrCancelPossibleIdle
    <3>2. Keeps(c, client') /\ Typed(client')
      BY <1>5, <3>1, Break DEF Keeps
    <3> QED
      BY <1>3, <1>5, <3>2, KeepsTwice
  <2>2. CASE ~c.mIdling
    BY <1>1, <1>5, <2>2
  <2> QED
    BY <2>1, <2>2
<1>7. Safe(client', toServer, toClient, server)
  BY <1>2, <1>6, KeepsSafe
<1> QED
  BY <1>1, <1>7, Unwire

Entering(c) ==
    [c EXCEPT !.tagIdle = TRUE, !.renewal = "started", !.mIdling = TRUE, !.idleCommandRunning = TRUE]

\* The fields which entering IDLE changes
LEMMA EnteringFields ==
    ASSUME NEW c, Shape(c), NEW d, d = Entering(c)
    PROVE  /\ But(c, d, {"tagIdle", "renewal", "mIdling", "idleCommandRunning"})
           /\ d.tagIdle = TRUE /\ d.mIdling = TRUE /\ d.idleCommandRunning = TRUE
BY ZenonT(60) DEF Entering, Shape, But, Fields

\* IDLE is queued.
LEMMA Enter ==
    ASSUME NEW c, NEW ts, NEW tc, NEW s, Holds(c, ts, tc, s), c.online, c.failed = {},
           Nothing(c), ~c.idleCommandRunning, c.launcher = "alive", c.delayedEnter = "stopped",
           ~IsPosted(c, "terminate"), c.deleting = "no",
           NEW d, d = queueCommand(Entering(c), Cmd("IDLE", "IDLE"))
    PROVE  Safe(d, ts, tc, s)
<1> DEFINE b == Entering(c)
           cmd == Cmd("IDLE", "IDLE")
<1>1. /\ Typed(c) /\ Good(c) /\ Closing(c) /\ Late(c) /\ Awake(c) /\ Wired(c, ts, tc, s) /\ Shape(c)
      /\ c.cmdQueue \in Seq(Command)
  BY DEF Holds, Typed
<1>2. cmd \in Command /\ cmd.kind = "IDLE" /\ cmd.tag = "IDLE" /\ ~cmd.numberSent
  BY OwnCommands DEF Kind
<1>3. /\ But(c, b, {"tagIdle", "renewal", "mIdling", "idleCommandRunning"})
      /\ b.tagIdle = TRUE /\ b.mIdling = TRUE /\ b.idleCommandRunning = TRUE
  BY <1>1, EnteringFields
<1>4. d = queueCommand(b, cmd)
  OBVIOUS
<1> HIDE DEF b, cmd
<1>5. Typed(b)
  BY <1>1, <1>3, ZenonT(60) DEF But, Fields, Typed
<1>6. /\ Typed(d) /\ Quiet(b, d) /\ Unmoved(b, d) /\ d.cmdQueue = Append(b.cmdQueue, cmd)
      /\ d.mIdling = b.mIdling /\ d.delayedEnter = b.delayedEnter
      /\ IsPosted(d, "executeCommands")
  BY <1>2, <1>4, <1>5, Queues
<1>7. But(b, d, {"cmdQueue", "posted", "mIdling", "delayedEnter", "renewal"})
  BY <1>6, UnmovedBut
<1>8. /\ But(c, d, {"tagIdle", "renewal", "mIdling", "idleCommandRunning", "cmdQueue", "posted",
                    "delayedEnter"})
      /\ d.delayedEnter = "stopped" /\ d.cmdQueue = Append(c.cmdQueue, cmd)
      /\ d.tagIdle = TRUE /\ d.mIdling = TRUE /\ d.idleCommandRunning = TRUE
  BY <1>3, <1>6, <1>7 DEF But, Fields
<1>9. /\ d.active = c.active /\ d.asked = c.asked /\ d.depending = c.depending
      /\ d.dependingAny = c.dependingAny /\ d.requested = c.requested /\ d.respQueue = c.respQueue
      /\ d.idling = c.idling /\ d.waitForInitialIdle = c.waitForInitialIdle
      /\ d.waitingForContinuation = c.waitingForContinuation /\ d.handler = c.handler
      /\ d.literalCommandTag = c.literalCommandTag /\ d.logout = c.logout /\ d.online = c.online
      /\ d.deleting = c.deleting /\ d.aborted = c.aborted /\ d.failed = c.failed
      /\ d.launcher = c.launcher /\ d.arrivals = c.arrivals
  BY <1>8, ZenonT(60) DEF But, Fields
<1>10. Quiet(c, d)
  BY <1>3, <1>6 DEF But, Fields, Quiet
<1>11. Order(d)
  <2>1. Order(c) /\ ~c.mIdling /\ d.mIdling \in BOOLEAN
    BY <1>1, <1>8 DEF Good, Launch
  <2> QED
    BY <1>1, <1>2, <1>8, <1>9, <2>1, OrderKept
<1>12. Launch(d)
  BY <1>1, <1>8, <1>9, <1>10, ToTerminateKept DEF Good, Launch, Nothing
<1>13. Duty(d)
  <2>1. c.active = {}
    BY DEF Nothing
  <2> QED
    BY <1>1, <1>8, <2>1, SMTT(30) DEF But, Fields, Good, Duty
<1>14. Stages(d)
  BY <1>1, <1>9, <1>10, StagesKept DEF Good
<1>15. Closing(d)
  BY <1>1, <1>8 DEF Closing, But, Fields
<1>16. Late(d)
  <2>1. \A i \in DOMAIN d.posted : d.posted[i].event = "slotTaskDeleted" =>
           i \in DOMAIN c.posted /\ d.posted[i] = c.posted[i]
    BY <1>10 DEF Quiet, More
  <2> QED
    BY <1>1, <1>9, <2>1 DEF Late
<1>17. Awake(d)
  <2>1. More(c.posted, d.posted)
    BY <1>10 DEF Quiet
  <2> QED
    BY <1>1, <1>6, <1>9, <2>1, AwaitedKept DEF Awake, AwaitedBy
<1>18. Tokens(d, ts, tc, s)
  <2>1. ~Somewhere(c, ts, tc, s, "IDLE") /\ tc \in Seq(Response) /\ Tokens(c, ts, tc, s)
    BY <1>1 DEF Wired, Tokens, TypedWire
  <2>2. ~Refused(tc, "IDLE")
    BY <2>1, RefusedAbout DEF Somewhere
  <2>3. Ordered(c, "IDLE") = {}
    BY <2>1, <2>2 DEF Somewhere, Queued
  <2>4. cmd \in Commands("IDLE") /\ \A t \in Tracked : cmd \notin Commands(t)
    BY <1>2, OwnCommands DEF Commands
  <2>5. Single(Ordered(d, "IDLE")) /\ Ordered(d, "IDLE") # {}
    <3>1. /\ At(Append(c.cmdQueue, cmd), Commands("IDLE")) # {}
          /\ At(c.cmdQueue, Commands("IDLE")) = {} =>
                 Single(At(Append(c.cmdQueue, cmd), Commands("IDLE")))
      <4>1. c.cmdQueue \in Seq(Command) /\ cmd \in Command /\ cmd \in Commands("IDLE")
        BY <1>1, <1>2, <2>4
      <4> QED
        BY <4>1, AtAppend
    <3> QED
      BY <1>8, <2>3, <3>1 DEF Ordered
  <2>6. Once(d, ts, tc, s, "IDLE")
    BY <1>9, <2>1, <2>5 DEF Once, Somewhere, Single, Tokens
  <2>7. \A t \in Tracked : /\ Same(Ordered(c, t), Ordered(d, t))
                           /\ Queued(d, tc, t) = Queued(c, tc, t)
    BY <1>1, <1>2, <1>8, <2>4, QueuedWith
  <2>8. \A t \in Tracked : Alike(c, ts, tc, s, d, ts, tc, s, t)
    BY <1>9, <2>7 DEF Alike, Same
  <2>9. \A t \in Tracked : /\ Once(d, ts, tc, s, t)
                           /\ Somewhere(d, ts, tc, s, t) <=> Somewhere(c, ts, tc, s, t)
    BY <2>1, <2>8, AlikeKeeps DEF Tokens
  <2>10. "DELETE" \in Tracked
    BY DEF Tracked
  <2> QED
    BY <1>8, <1>9, <2>1, <2>6, <2>9, <2>10 DEF Tokens
<1>19. Wired(d, ts, tc, s)
  <2>1. c.cmdQueue # <<>> => d.cmdQueue # <<>> /\ d.cmdQueue[1] = c.cmdQueue[1]
    BY <1>1, <1>2, <1>8, FirstKept
  <2>2. Continuation(d, ts, tc, s)
    BY <1>1, <1>9, <2>1, ContinuationSame DEF Wired
  <2>3. WireOrder(d, ts, s)
    BY <1>1, <1>9 DEF Wired, WireOrder
  <2> QED
    BY <1>1, <1>9, <1>18, <2>2, <2>3 DEF Wired
<1> QED
  BY <1>6, <1>9, <1>11, <1>12, <1>13, <1>14, <1>15, <1>16, <1>17, <1>19 DEF Safe, Fine, Holds, Good

\* The step slotEnterIdleNow()
LEMMA EnterStep ==
    ASSUME HandoverInv, slotEnterIdleNow
    PROVE  HandoverInv'
<1> DEFINE c == Halted(client)
           idle == Check(c, "slotEnterIdleNow", ~c.mIdling /\ ~c.tagIdle)
<1>1. /\ Resting /\ client.launcher = "alive" /\ client.delayedEnter = "due" /\ Unwired
      /\ client' = IF c.idleCommandRunning THEN enterIdleLater(c)
                   ELSE queueCommand(Entering(idle), Cmd("IDLE", "IDLE"))
  BY DEF slotEnterIdleNow, Unwired, Halted, Entering
<1>2. Holds(client, toServer, toClient, server) /\ client.failed = {} /\ client.online
  BY <1>1 DEF HandoverInv, Safe, Resting, Sound, Holds, Over
<1>3. Typed(client) /\ Good(client) /\ Shape(client)
  BY <1>2 DEF Holds, Typed
<1>4. But(client, c, {"delayedEnter", "renewal"}) /\ c.delayedEnter = "stopped"
  BY <1>3, HaltedFields
<1>5. idle = Check(c, "slotEnterIdleNow", ~c.mIdling /\ ~c.tagIdle)
  OBVIOUS
<1> HIDE DEF c, idle
<1>6. Keeps(client, c) /\ Typed(c)
  BY <1>3, <1>4, Halting
<1>7. /\ Nothing(client) /\ ~client.mIdling /\ client.deleting = "no" /\ ~IsPosted(client, "terminate")
  BY <1>1, <1>3 DEF Good, Launch
<1>8. /\ Nothing(c) /\ ~c.mIdling /\ c.deleting = "no" /\ ~IsPosted(c, "terminate")
      /\ c.launcher = "alive" /\ c.online /\ c.failed = {}
  BY <1>1, <1>2, <1>4, <1>7 DEF But, Fields, Nothing, IsPosted
<1>9. CASE c.idleCommandRunning
  <2>1. client' = enterIdleLater(c)
    BY <1>1, <1>9
  <2>2. Keeps(c, client') /\ Typed(client')
    BY <1>6, <1>8, <2>1, EnterLater DEF Keeps
  <2>3. Keeps(client, client')
    BY <1>3, <1>6, <2>2, KeepsTwice
  <2>4. Safe(client', toServer, toClient, server)
    BY <1>2, <2>2, <2>3, KeepsSafe
  <2> QED
    BY <1>1, <2>4, Unwire
<1>10. CASE ~c.idleCommandRunning
  <2>1. ~c.tagIdle
    BY <1>6, <1>10 DEF Keeps, Good, Launch
  <2>2. client' = queueCommand(Entering(c), Cmd("IDLE", "IDLE"))
    BY <1>1, <1>5, <1>8, <1>10, <2>1 DEF Check
  <2>3. Holds(c, toServer, toClient, server)
    BY <1>2, <1>6, CallsHold
  <2>4. Safe(client', toServer, toClient, server)
    BY <1>4, <1>8, <1>10, <2>2, <2>3, Enter
  <2> QED
    BY <1>1, <2>4, Unwire
<1> QED
  BY <1>9, <1>10

\* LOGOUT is queued; nothing else is wanted from the connection.
LoggedOut(b, answered) ==
    [b EXCEPT !.logout = TRUE, !.shouldExit = TRUE, !.finished = TRUE,
              !.depending = <<>>, !.dependingAny = <<>>,
              !.requested = <<>>, !.active = {}, !.obtaining = FALSE,
              !.answered = @ \cup answered]

OfLogout == {"logout", "shouldExit", "finished", "depending", "dependingAny", "requested", "active",
             "obtaining", "answered"}

LeftAlone(b) ==
    [b EXCEPT !.logout = TRUE, !.shouldExit = TRUE, !.finished = TRUE, !.depending = <<>>]
Cleared(b, all) ==
    [b EXCEPT !.dependingAny = <<>>, !.requested = <<>>, !.active = {}, !.obtaining = FALSE, !.answered = all]

\* The fields which LOGOUT changes first
LEMMA LeftAloneFields ==
    ASSUME NEW b, Shape(b), NEW d, d = LeftAlone(b)
    PROVE  /\ But(b, d, {"logout", "shouldExit", "finished", "depending"})
           /\ d.logout = TRUE /\ d.finished = TRUE /\ d.depending = <<>>
BY ZenonT(60) DEF LeftAlone, Shape, But, Fields

\* The fields which LOGOUT changes then
LEMMA ClearedFields ==
    ASSUME NEW b, Shape(b), NEW all, NEW d, d = Cleared(b, all)
    PROVE  /\ But(b, d, {"dependingAny", "requested", "active", "obtaining", "answered"})
           /\ d.dependingAny = <<>> /\ d.requested = <<>> /\ d.active = {}
BY ZenonT(60) DEF Cleared, Shape, But, Fields

\* The fields which LOGOUT changes
LEMMA LoggedOutFields ==
    ASSUME NEW b, Shape(b), NEW answered, NEW d, d = LoggedOut(b, answered)
    PROVE  /\ But(b, d, OfLogout)
           /\ d.logout = TRUE /\ d.finished = TRUE /\ d.depending = <<>> /\ d.dependingAny = <<>>
           /\ d.requested = <<>> /\ d.active = {}
<1> DEFINE e == LeftAlone(b)
<1>1. d = Cleared(e, b.answered \cup answered)
  BY DEF LoggedOut, LeftAlone, Cleared
<1>2. /\ But(b, e, {"logout", "shouldExit", "finished", "depending"})
      /\ e.logout = TRUE /\ e.finished = TRUE /\ e.depending = <<>>
  BY LeftAloneFields
<1> HIDE DEF e
<1>3. /\ But(e, d, {"dependingAny", "requested", "active", "obtaining", "answered"})
      /\ d.dependingAny = <<>> /\ d.requested = <<>> /\ d.active = {}
  <2>1. Shape(e)
    BY <1>2 DEF But
  <2> QED
    BY <1>1, <2>1, ClearedFields
<1>4. But(b, d, OfLogout)
  BY <1>2, <1>3 DEF But, OfLogout
<1>5. d.logout = e.logout /\ d.finished = e.finished /\ d.depending = e.depending
  BY <1>3 DEF But, Fields
<1> QED
  BY <1>2, <1>3, <1>4, <1>5

\* It makes no difference in which order IDLE is ended and the launcher dies.
LEMMA AbortsAndBreaks ==
    ASSUME NEW c, Shape(c), c.launcher \in Launcher,
           NEW d, d = breakOrCancelPossibleIdle(abort(c))
    PROVE  But(breakOrCancelPossibleIdle(c), d, {"launcher", "delayedEnter", "renewal", "aborted"})
           /\ d.aborted = TRUE /\ d.launcher \in {"dead", "none"}
<1> DEFINE a == abort(c)
           b == breakOrCancelPossibleIdle(c)
<1>1. /\ But(c, a, {"launcher", "delayedEnter", "renewal", "aborted"})
      /\ a.aborted = TRUE /\ a.launcher \in {"dead", "none"} /\ (a.launcher = "none" <=> c.launcher = "none")
  <2>1. /\ But(c, a, {"launcher", "delayedEnter", "renewal", "aborted"})
        /\ a.aborted = TRUE /\ a.launcher \in {"dead", "none"}
    BY AbortFields
  <2>2. a.launcher = "none" <=> c.launcher = "none"
    BY DEF abort, die, Shape, Fields
  <2> QED
    BY <2>1, <2>2
<1>2. d = breakOrCancelPossibleIdle(a) /\ b = breakOrCancelPossibleIdle(c)
  OBVIOUS
<1> HIDE DEF a, b
<1>3. CASE c.launcher = "none"
  <2>1. d = a /\ b = c
    BY <1>1, <1>2, <1>3 DEF breakOrCancelPossibleIdle
  <2> QED
    BY <1>1, <2>1 DEF b
<1>4. CASE c.launcher # "none" /\ ~c.mIdling
  <2>1. d = [a EXCEPT !.delayedEnter = "stopped"] /\ b = [c EXCEPT !.delayedEnter = "stopped"]
    <3>1. a.mIdling = c.mIdling
      BY <1>1 DEF But, Fields
    <3> QED
      BY <1>1, <1>2, <1>4, <3>1 DEF breakOrCancelPossibleIdle, finishIdle
  <2>2. But(a, d, {"delayedEnter"}) /\ But(c, b, {"delayedEnter"})
    BY <1>1, <2>1, ZenonT(60) DEF But, Shape, Fields
  <2>3. But(b, d, {"launcher", "delayedEnter", "renewal", "aborted"})
    BY <1>1, <2>2 DEF But
  <2> QED
    BY <1>1, <2>2, <2>3 DEF But, Fields, b
<1>5. CASE c.launcher # "none" /\ c.mIdling
  <2> DEFINE e == [a EXCEPT !.renewal = "stopped", !.mIdling = FALSE]
             f == [c EXCEPT !.renewal = "stopped", !.mIdling = FALSE]
             cmd == Cmd("IDLE", "IDLE_DONE")
  <2>1. d = queueCommand(e, cmd) /\ b = queueCommand(f, cmd)
    <3>1. a.mIdling = c.mIdling
      BY <1>1 DEF But, Fields
    <3> QED
      BY <1>1, <1>2, <1>5, <3>1 DEF breakOrCancelPossibleIdle, finishIdle, idleDone
  <2>2. But(a, e, {"renewal", "mIdling"}) /\ e.mIdling = FALSE
    BY <1>1, ZenonT(60) DEF But, Shape, Fields
  <2>3. But(c, f, {"renewal", "mIdling"}) /\ f.mIdling = FALSE
    BY ZenonT(60) DEF But, Shape, Fields
  <2> HIDE DEF e, f, cmd
  <2>4. But(f, e, {"launcher", "delayedEnter", "renewal", "aborted"}) /\ Shape(f) /\ Shape(e)
        /\ e.launcher = a.launcher /\ e.aborted = TRUE
    BY <1>1, <2>2, <2>3, ZenonT(60) DEF But, Fields
  <2>5. But(e, d, {"cmdQueue", "posted"}) /\ But(f, b, {"cmdQueue", "posted"})
    BY <2>1, <2>4, QueueFields
  <2>6. d.cmdQueue = b.cmdQueue /\ d.posted = b.posted
    <3>1. /\ d.cmdQueue = Append(e.cmdQueue, cmd) /\ b.cmdQueue = Append(f.cmdQueue, cmd)
          /\ d.posted = Append(e.posted, [event |-> "executeCommands", task |-> NoTag])
          /\ b.posted = Append(f.posted, [event |-> "executeCommands", task |-> NoTag])
      BY <2>1, <2>4 DEF queueCommand, Post, Shape, Fields
    <3>2. e.cmdQueue = f.cmdQueue /\ e.posted = f.posted
      BY <2>4 DEF But, Fields
    <3> QED
      BY <3>1, <3>2
  <2>7. But(b, d, {"launcher", "delayedEnter", "renewal", "aborted"})
    BY <2>4, <2>5, <2>6 DEF But
  <2> QED
    BY <1>1, <2>4, <2>5, <2>7 DEF But, Fields, b
<1> QED
  BY <1>3, <1>4, <1>5

\* LOGOUT: all tasks are killed, and their answers have nobody left who waits for them.
LEMMA LogOut ==
    ASSUME NEW c, NEW ts, NEW tc, NEW s, Holds(c, ts, tc, s), c.online, c.failed = {}, Calm(c),
           NEW a, But(c, a, {"launcher", "delayedEnter", "renewal", "aborted"}), a.aborted = TRUE,
           a.launcher \in {"dead", "none"},
           NEW answered, NEW d, d = LoggedOut(queueCommand(a, Cmd("LOGOUT", "ATOM")), answered)
    PROVE  Safe(d, ts, tc, s)
<1> DEFINE cmd == Cmd("LOGOUT", "ATOM")
           b == queueCommand(a, cmd)
<1>1. /\ Typed(c) /\ Good(c) /\ Closing(c) /\ Late(c) /\ Awake(c) /\ Wired(c, ts, tc, s) /\ Shape(c)
      /\ c.cmdQueue \in Seq(Command)
  BY DEF Holds, Typed
<1>2. /\ cmd \in Command /\ cmd.kind = "ATOM" /\ cmd.tag = "LOGOUT" /\ ~cmd.numberSent
      /\ "LOGOUT" \notin Tracked \cup {"IDLE"}
  BY OwnCommands DEF Kind
<1>3. Typed(a)
  BY <1>1 DEF But, Fields, Typed, Launcher
<1>4. b = queueCommand(a, cmd) /\ d = LoggedOut(b, answered)
  OBVIOUS
<1> HIDE DEF b, cmd
<1>5. /\ Typed(b) /\ Quiet(a, b) /\ Unmoved(a, b) /\ b.cmdQueue = Append(a.cmdQueue, cmd)
      /\ b.mIdling = a.mIdling /\ IsPosted(b, "executeCommands")
  BY <1>2, <1>3, <1>4, Queues
<1>6. But(a, b, {"cmdQueue", "posted", "mIdling", "delayedEnter", "renewal"})
  BY <1>5, UnmovedBut
<1>7. /\ But(b, d, OfLogout)
      /\ d.logout = TRUE /\ d.finished = TRUE /\ d.depending = <<>> /\ d.dependingAny = <<>>
      /\ d.requested = <<>> /\ d.active = {}
  <2>1. Shape(b)
    BY <1>5 DEF Typed
  <2>2. d = LoggedOut(b, answered)
    BY <1>4
  <2> QED
    BY <2>1, <2>2, LoggedOutFields
<1>8. /\ d.cmdQueue = Append(c.cmdQueue, cmd) /\ d.posted = b.posted /\ d.aborted = TRUE
      /\ d.launcher \in {"dead", "none"} /\ d.mIdling = c.mIdling
      /\ d.asked = c.asked /\ d.respQueue = c.respQueue
      /\ d.idling = c.idling /\ d.waitForInitialIdle = c.waitForInitialIdle
      /\ d.waitingForContinuation = c.waitingForContinuation /\ d.handler = c.handler
      /\ d.literalCommandTag = c.literalCommandTag /\ d.online = c.online
      /\ d.deleting = c.deleting /\ d.failed = c.failed /\ d.isRunning = c.isRunning
      /\ d.idleCommandRunning = c.idleCommandRunning /\ d.tagIdle = c.tagIdle
      /\ d.tagClose = c.tagClose /\ d.present = c.present
  <2>1. But(a, d, {"cmdQueue", "posted", "mIdling", "delayedEnter", "renewal"} \cup OfLogout)
    BY <1>6, <1>7 DEF But
  <2>2. But(c, d, {"cmdQueue", "posted", "mIdling", "delayedEnter", "renewal", "launcher", "aborted"}
                  \cup OfLogout)
    BY <2>1 DEF But
  <2>3. d.cmdQueue = b.cmdQueue /\ d.posted = b.posted /\ d.mIdling = b.mIdling
    BY <1>7 DEF But, Fields, OfLogout
  <2>4. a.cmdQueue = c.cmdQueue /\ a.mIdling = c.mIdling
    BY DEF But, Fields
  <2>5. d.aborted = a.aborted /\ d.launcher = a.launcher
    BY <2>1 DEF But, Fields, OfLogout
  <2>6. a.aborted = TRUE
    OBVIOUS
  <2>7. /\ d.asked = c.asked /\ d.respQueue = c.respQueue
        /\ d.idling = c.idling /\ d.waitForInitialIdle = c.waitForInitialIdle
        /\ d.waitingForContinuation = c.waitingForContinuation /\ d.handler = c.handler
        /\ d.literalCommandTag = c.literalCommandTag /\ d.online = c.online
        /\ d.deleting = c.deleting /\ d.failed = c.failed /\ d.isRunning = c.isRunning
        /\ d.idleCommandRunning = c.idleCommandRunning /\ d.tagIdle = c.tagIdle
        /\ d.tagClose = c.tagClose /\ d.present = c.present
    BY <2>2 DEF But, Fields, OfLogout
  <2> QED
    BY <1>5, <2>3, <2>4, <2>5, <2>6, <2>7
<1>9. Quiet(c, d) /\ IsPosted(d, "executeCommands")
  <2>1. a.posted = c.posted /\ d.posted = b.posted
    BY <1>8 DEF But, Fields
  <2> QED
    BY <1>5, <2>1 DEF Quiet, IsPosted
<1>10. Typed(d)
  <2>1. /\ d.fetching = b.fetching /\ d.arrivals = b.arrivals /\ d.launcher = b.launcher
        /\ d.cmdQueue = b.cmdQueue /\ d.posted = b.posted /\ d.respQueue = b.respQueue
        /\ d.deleting = b.deleting /\ Shape(d)
    BY <1>7 DEF But, Fields, OfLogout
  <2>2. IsFiniteSet({})
    BY FS_EmptySet
  <2>4. <<>> \in Seq(Tasks)
    OBVIOUS
  <2>3. /\ d.depending \in Seq(Tasks) /\ d.dependingAny \in Seq(Tasks) /\ d.requested \in Seq(Tasks)
        /\ d.active \subseteq Tracked /\ IsFiniteSet(d.active)
    BY <1>7, <2>2, <2>4
  <2> QED
    BY <1>5, <2>1, <2>3 DEF Typed
<1>11. ~c.mIdling
  BY DEF Calm
<1>12. Order(d)
  <2>1. Order(c) /\ d.mIdling \in BOOLEAN /\ ~d.mIdling
    BY <1>1, <1>8, <1>11 DEF Good, Order
  <2> QED
    BY <1>1, <1>2, <1>8, <1>11, <2>1, OrderKept
<1>13. Launch(d)
  BY <1>1, <1>8, <1>11 DEF Good, Launch
<1>14. Duty(d)
  <2>1. c.tagClose => c.deleting # "no"
    BY <1>1 DEF Good, Duty
  <2> QED
    BY <1>7, <1>8, <2>1 DEF Duty
<1>15. \A i \in DOMAIN d.posted : d.posted[i].event = "slotTaskDeleted" =>
         i \in DOMAIN c.posted /\ d.posted[i] = c.posted[i]
  BY <1>9 DEF Quiet, More
<1>16. Stages(d)
  <2>1. \A i \in DOMAIN c.posted : c.posted[i].event = "slotTaskDeleted" /\
             c.posted[i].task \in Tasks => c.posted[i].task \in c.asked
    BY <1>1 DEF Good, Stages
  <2>2. Waiting(d) = {} /\ d.active = {}
    BY <1>7 DEF Waiting, ToSet
  <2>3. NoDup(d.depending) /\ NoDup(d.dependingAny) /\ NoDup(d.requested)
    BY <1>7 DEF NoDup
  <2>4. ToSet(d.depending) = {} /\ ToSet(d.dependingAny) = {}
    BY <1>7 DEF ToSet
  <2> QED
    BY <1>8, <1>15, <2>1, <2>2, <2>3, <2>4 DEF Stages
<1>17. Closing(d)
  BY <1>1, <1>7, <1>8 DEF Closing
<1>18. Late(d)
  BY <1>1, <1>8, <1>15 DEF Late
<1>19. Awake(d)
  <2>1. More(c.posted, d.posted)
    BY <1>9 DEF Quiet
  <2> QED
    BY <1>1, <1>8, <1>9, <2>1, AwaitedKept DEF Awake, AwaitedBy
<1>20. Tokens(d, ts, tc, s)
  <2>1. Tokens(c, ts, tc, s)
    BY <1>1 DEF Wired
  <2>2. \A t \in Tracked \cup {"IDLE"} : cmd \notin Commands(t)
    BY <1>2 DEF Commands
  <2>3. \A t \in Tracked \cup {"IDLE"} : /\ Same(Ordered(c, t), Ordered(d, t))
                                         /\ Queued(d, tc, t) = Queued(c, tc, t)
    <3> SUFFICES ASSUME NEW t \in Tracked \cup {"IDLE"}
                 PROVE  Same(Ordered(c, t), Ordered(d, t)) /\ Queued(d, tc, t) = Queued(c, tc, t)
      OBVIOUS
    <3>1. c.cmdQueue \in Seq(Command) /\ cmd \in Command /\ d.cmdQueue = Append(c.cmdQueue, cmd)
          /\ cmd \notin Commands(t)
      BY <1>1, <1>2, <1>8, <2>2
    <3> QED
      BY <3>1, QueuedWith
  <2>4. \A t \in Tracked \cup {"IDLE"} : Alike(c, ts, tc, s, d, ts, tc, s, t)
    BY <1>8, <2>3 DEF Alike, Same
  <2>5. \A t \in Tracked \cup {"IDLE"} : /\ Once(d, ts, tc, s, t)
                                         /\ Somewhere(d, ts, tc, s, t) <=> Somewhere(c, ts, tc, s, t)
    BY <2>1, <2>4, AlikeKeeps DEF Tokens
  <2>6. "DELETE" \in Tracked
    BY DEF Tracked
  <2> QED
    BY <1>7, <1>8, <2>1, <2>5, <2>6 DEF Tokens
<1>21. Wired(d, ts, tc, s)
  <2>1. c.cmdQueue # <<>> => d.cmdQueue # <<>> /\ d.cmdQueue[1] = c.cmdQueue[1]
    BY <1>1, <1>2, <1>8, FirstKept
  <2>2. Continuation(d, ts, tc, s)
    BY <1>1, <1>8, <2>1, ContinuationSame DEF Wired
  <2>3. WireOrder(d, ts, s)
    BY <1>1, <1>8 DEF Wired, WireOrder
  <2> QED
    BY <1>1, <1>8, <1>20, <2>2, <2>3 DEF Wired
<1>22. c.handler \in {"none", "executeCommands", "responseReceived"}
  BY DEF Holds
<1> QED
  BY <1>8, <1>10, <1>12, <1>13, <1>14, <1>16, <1>17, <1>18, <1>19, <1>21, <1>22 DEF Safe, Fine, Holds, Good

\* The step in which the user goes offline
LEMMA OfflineStep ==
    ASSUME HandoverInv, GoOffline
    PROVE  HandoverInv'
<1> DEFINE b == breakOrCancelPossibleIdle(client)
           a == IF client.aborted THEN client ELSE breakOrCancelPossibleIdle(abort(client))
<1>1. /\ Resting /\ client.online /\ Unwired
      /\ client' = LoggedOut(queueCommand(a, Cmd("LOGOUT", "ATOM")), client.asked)
  BY DEF GoOffline, LoggedOut
<1>2. /\ Holds(client, toServer, toClient, server) /\ client.failed = {}
      /\ Typed(client) /\ Good(client)
  BY <1>1, AtRest
<1>3. Shape(client) /\ client.launcher \in Launcher
  BY <1>2 DEF Typed
<1>4. CASE client.aborted
  <2>1. Calm(client) /\ client.launcher \in {"dead", "none"} /\ client.aborted = TRUE
    BY <1>2, <1>3, <1>4 DEF Good, Launch, Calm, Launcher
  <2>2. But(client, a, {"launcher", "delayedEnter", "renewal", "aborted"}) /\ a = client
    BY <1>3, <1>4 DEF But
  <2> HIDE DEF a
  <2>3. Safe(client', toServer, toClient, server)
    BY <1>1, <1>2, <1>4, <2>1, <2>2, LogOut
  <2> QED
    BY <1>1, <2>3, Unwire
<1>5. CASE ~client.aborted
  <2>1. But(b, a, {"launcher", "delayedEnter", "renewal", "aborted"})
        /\ a.aborted = TRUE /\ a.launcher \in {"dead", "none"}
    <3>1. a = breakOrCancelPossibleIdle(abort(client))
      BY <1>5
    <3> QED
      BY <1>3, <3>1, AbortsAndBreaks
  <2>2. Keeps(client, b) /\ Typed(b) /\ Calm(b) /\ Unmoved(client, b)
    BY <1>2, Break
  <2> HIDE DEF a, b
  <2>3. Holds(b, toServer, toClient, server) /\ b.online /\ b.failed = {}
    BY <1>1, <1>2, <2>2, CallsHold DEF Unmoved
  <2>4. Safe(client', toServer, toClient, server)
    BY <1>1, <2>1, <2>2, <2>3, LogOut
  <2> QED
    BY <1>1, <2>4, Unwire
<1> QED
  BY <1>4, <1>5

=============================================================================
