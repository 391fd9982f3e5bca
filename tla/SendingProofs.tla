------------------------------ MODULE SendingProofs ------------------------------
(***************************************************************************)
(* That MSA::SMTP does what an agent promises, for any number of           *)
(* recipients and every account, and what Submission promises to the       *)
(* window and to the user, for any number of attempts and all settings.    *)
(***************************************************************************)
EXTENDS Smtp, Submission, Integers, TLAPS

(***************************************************************************)
(* The agent                                                               *)
(***************************************************************************)

Types == {"Connect", "StartTLS", "Authenticate", "Mail", "MailBurl", "Disconnect"}

Mails == {"Mail", "MailBurl"}

Commands == [type : Types, stage : 0..3, rcpts : Int, mode : AuthModes \cup {"none"}]

Requests == {"nothing", "banner", "EHLO", "HELO", "STARTTLS", "handshake", "AUTH",
             "credentials", "MAIL", "RCPT", "DATA", "content", "BURL", "QUIT"}

Clients == [queue : Seq(Commands), inProgress : BOOLEAN,
            socket : {"closed", "connecting", "open", "closing"}, encrypted : BOOLEAN,
            authModes : SUBSET AuthModes, awaits : Requests, lineWithoutCommand : BOOLEAN,
            mode : {"none"} \cup Mails, waiting : BOOLEAN, failed : BOOLEAN,
            cancelled : {"no", "asked", "late"}, told : Seq({"sent", "error"})]

-----------------------------------------------------------------------------
(* The queue                                                                *)

HeadType(c) == c.queue[1].type

Secret(command) == command.type \in Mails \cup {"Authenticate"}

\* STARTTLS is before the command at j.
TlsBefore(c, j) == \E k \in 1..(j - 1) : c.queue[k].type = "StartTLS"

MailAhead(c) ==
    \E j \in DOMAIN c.queue :
        /\ c.queue[j].type \in Mails
        /\ \A k \in 1..j : c.queue[k].type # "Disconnect"

\* Only the command at the head has begun, and only it may be a Connect; QUIT comes last.
WellOrdered(c) ==
    /\ c.queue # <<>> /\ c.queue[Len(c.queue)].type = "Disconnect"
    /\ \A j \in 2..Len(c.queue) : c.queue[j].type # "Connect" /\ c.queue[j].stage = 0

\* What must be encrypted comes after STARTTLS, or is encrypted already.
SecretsCovered(c) ==
    account.startTls =>
        \A j \in DOMAIN c.queue : Secret(c.queue[j]) =>
            \/ TlsBefore(c, j)
            \/ c.encrypted /\ HeadType(c) # "Connect"

\* An agent which has told nothing has not failed, and has its mail to send, if it is not
\* with the server already.
Verdicts(c, accepted) ==
    IF c.failed THEN c.told # <<>> /\ \A i \in DOMAIN c.told : c.told[i] = "error"
    ELSE c.told = <<>> /\ (accepted \/ MailAhead(c))

Launched(c) == c.mode # "none" /\ ~c.waiting /\ c.cancelled # "asked"

\* A record of the client whose connection is made, or being made.
Core(c, accepted) ==
    /\ c \in Clients /\ Launched(c) /\ ~c.lineWithoutCommand
    /\ c.inProgress /\ c.socket # "closed"
    /\ WellOrdered(c) /\ SecretsCovered(c) /\ Verdicts(c, accepted)
    /\ c.socket = "connecting" => HeadType(c) = "Connect"
    /\ c.socket = "closing" => HeadType(c) = "Disconnect"
    /\ HeadType(c) = "StartTLS" /\ c.queue[1].stage # 0 => c.encrypted

\* What the client waits for while the command at the head is in this stage.
Awaited(type, stage) ==
    {r \in Requests :
        /\ type = "Connect" => r \in {"nothing", "banner", "EHLO", "HELO"}
        /\ type = "StartTLS" => r \in {"nothing", "EHLO", "STARTTLS", "handshake"}
        /\ type = "Authenticate" => r \in {"nothing", "AUTH", "credentials"}
        /\ type = "Disconnect" => r \in {"nothing", "QUIT"}
        /\ type \in Mails /\ stage = 0 => r \in {"MAIL", "RCPT"}
        /\ type \in Mails /\ stage = 1 => r = "RCPT"
        /\ type = "Mail" /\ stage = 2 => r = "DATA"
        /\ type = "Mail" /\ stage = 3 => r = "content"
        /\ type = "MailBurl" /\ stage \in {2, 3} => r = "BURL"}

Live(c, accepted) ==
    /\ Core(c, accepted)
    /\ c.awaits \in Awaited(HeadType(c), c.queue[1].stage)
    /\ c.socket = "connecting" => c.awaits = "nothing"

\* Nothing has begun, or a password is waited for.
Idle(c) ==
    /\ c \in Clients /\ c.socket = "closed" /\ c.awaits = "nothing" /\ ~c.lineWithoutCommand
    /\ c.queue = <<>> /\ ~c.inProgress /\ c.told = <<>> /\ ~c.failed /\ c.cancelled = "no"
    /\ (c.mode = "none") <=> ~c.waiting

\* The connection is over, or was never made: nothing starts it any more.
Stuck(c, accepted) ==
    /\ c \in Clients /\ c.socket = "closed" /\ c.awaits = "nothing" /\ ~c.lineWithoutCommand
    /\ c.mode # "none"
    /\ c.queue # <<>> => HeadType(c) = "Disconnect"
    /\ c.waiting => c.cancelled = "asked"
    /\ c.cancelled = "asked" => c.queue # <<>> /\ c.failed
    /\ IF c.failed THEN c.told # <<>> /\ \A i \in DOMAIN c.told : c.told[i] = "error"
       ELSE c.told = <<"sent">> /\ accepted /\ Launched(c)

Inv ==
    /\ account \in Accounts
    /\ server \in [hasContent : BOOLEAN, accepted : BOOLEAN, challenged : BOOLEAN]
    /\ \/ Idle(client) /\ ~server.hasContent /\ ~server.accepted
       \/ Stuck(client, server.accepted)
       \/ Live(client, server.accepted)
    /\ server.hasContent => Launched(client)

-----------------------------------------------------------------------------
(* What keeps a record of the client sound                                  *)

\* The queues of c and d hold the same commands, of which only the first may have moved on.
SameCommands(c, d) ==
    /\ Len(d.queue) = Len(c.queue)
    /\ \A j \in DOMAIN c.queue : d.queue[j].type = c.queue[j].type
    /\ \A j \in 2..Len(c.queue) : d.queue[j].stage = c.queue[j].stage

LEMMA CoreKept ==
    ASSUME NEW acc, NEW c, NEW d \in Clients, Core(c, acc), SameCommands(c, d),
           d.mode = c.mode, d.waiting = c.waiting, d.cancelled = c.cancelled,
           d.lineWithoutCommand = c.lineWithoutCommand, d.inProgress,
           \/ d.socket = c.socket
           \/ /\ d.socket # "closed" /\ (d.socket = "connecting" => HeadType(c) = "Connect")
              /\ d.socket = "closing" => HeadType(c) = "Disconnect",
           c.encrypted => d.encrypted \/ HeadType(c) = "Connect", Verdicts(d, acc),
           HeadType(d) = "StartTLS" /\ d.queue[1].stage # 0 => d.encrypted
    PROVE  Core(d, acc)
<1>1. /\ c.queue \in Seq(Commands) /\ d.queue \in Seq(Commands) /\ c.queue # <<>>
      /\ DOMAIN d.queue = DOMAIN c.queue /\ d.queue # <<>>
      /\ DOMAIN c.queue = 1..Len(c.queue) /\ Len(c.queue) \in Nat
  BY DEF Core, Clients, WellOrdered, SameCommands
<1>2. HeadType(d) = HeadType(c)
  BY <1>1 DEF HeadType, SameCommands
<1>3. WellOrdered(d)
  BY <1>1 DEF Core, WellOrdered, SameCommands
<1>4. SecretsCovered(d)
  <2> SUFFICES ASSUME account.startTls, NEW j \in DOMAIN d.queue, Secret(d.queue[j])
               PROVE  TlsBefore(d, j) \/ (d.encrypted /\ HeadType(d) # "Connect")
    BY DEF SecretsCovered
  <2>1. j \in DOMAIN c.queue /\ Secret(c.queue[j]) /\ SecretsCovered(c)
    BY <1>1 DEF Secret, SameCommands, Core
  <2>2. TlsBefore(c, j) \/ (c.encrypted /\ HeadType(c) # "Connect")
    BY <2>1 DEF SecretsCovered
  <2>3. \A k \in 1..(j - 1) : k \in DOMAIN c.queue
    BY <1>1, <2>1
  <2>4. TlsBefore(c, j) => TlsBefore(d, j)
    BY <2>3 DEF TlsBefore, SameCommands
  <2> QED
    BY <1>2, <2>2, <2>4
<1> QED
  BY <1>2, <1>3, <1>4 DEF Core, Launched

\* The commands of a queue.
LEMMA MailStays ==
    ASSUME NEW c, NEW d, c.queue \in Seq(Commands), d.queue \in Seq(Commands),
           SameCommands(c, d), MailAhead(c)
    PROVE  MailAhead(d)
<1>1. PICK j \in DOMAIN c.queue : /\ c.queue[j].type \in Mails
                                  /\ \A k \in 1..j : c.queue[k].type # "Disconnect"
  BY DEF MailAhead
<1>2. DOMAIN d.queue = DOMAIN c.queue /\ 1..j \subseteq DOMAIN c.queue
  BY DEF SameCommands
<1>3. \A k \in DOMAIN c.queue : d.queue[k].type = c.queue[k].type
  BY DEF SameCommands
<1> QED
  BY <1>1, <1>2, <1>3 DEF MailAhead

\* The verdict of an agent does not change with its queue's head.
LEMMA VerdictsKept ==
    ASSUME NEW acc, NEW c, NEW d, c.queue \in Seq(Commands), d.queue \in Seq(Commands),
           SameCommands(c, d), d.failed = c.failed, d.told = c.told, Verdicts(c, acc)
    PROVE  Verdicts(d, acc)
BY MailStays DEF Verdicts

\* The commands are the same when the queue is.
LEMMA SameQueue ==
    ASSUME NEW c, NEW d, d.queue = c.queue PROVE SameCommands(c, d)
BY DEF SameCommands

\* The head of the queue moves on.
LEMMA HeadMoves ==
    ASSUME NEW acc, NEW c, Core(c, acc), NEW command \in Commands, command.type = HeadType(c),
           command.type = "StartTLS" /\ command.stage # 0 => c.encrypted
    PROVE  LET d == [c EXCEPT !.queue[1] = command]
           IN  Core(d, acc) /\ d.queue[1] = command /\ d.awaits = c.awaits /\ d.socket = c.socket
<1> DEFINE q == [c.queue EXCEPT ![1] = command]
           d == [c EXCEPT !.queue = q]
<1>1. c \in Clients /\ c.queue \in Seq(Commands) /\ c.queue # <<>> /\ 1 \in DOMAIN c.queue
  BY DEF Core, WellOrdered, Clients
<1>2. /\ q \in Seq(Commands) /\ Len(q) = Len(c.queue) /\ q[1] = command
      /\ \A j \in DOMAIN c.queue : j # 1 => q[j] = c.queue[j]
  BY <1>1
<1> HIDE DEF q
<1>3. /\ d \in Clients /\ d.queue = q /\ d.mode = c.mode /\ d.waiting = c.waiting
      /\ d.cancelled = c.cancelled /\ d.lineWithoutCommand = c.lineWithoutCommand
      /\ d.inProgress = c.inProgress /\ d.socket = c.socket /\ d.encrypted = c.encrypted
      /\ d.failed = c.failed /\ d.told = c.told /\ d.awaits = c.awaits
  BY <1>1, <1>2 DEF Clients
<1> HIDE DEF d
<1>4. SameCommands(c, d)
  BY <1>1, <1>2, <1>3 DEF SameCommands, HeadType
<1>5. Verdicts(d, acc)
  BY <1>1, <1>2, <1>3, <1>4, VerdictsKept DEF Core
<1>6. Core(d, acc)
  BY <1>2, <1>3, <1>4, <1>5, CoreKept DEF Core, HeadType
<1>7. [c EXCEPT !.queue[1] = command] = d
  BY DEF d, q
<1> QED
  BY <1>2, <1>3, <1>6, <1>7

-----------------------------------------------------------------------------
(* Verdicts                                                                 *)

Errors(told) == told # <<>> /\ \A i \in DOMAIN told : told[i] = "error"

LEMMA MoreErrors ==
    ASSUME NEW told \in Seq({"sent", "error"}), \A i \in DOMAIN told : told[i] = "error"
    PROVE  Append(told, "error") \in Seq({"sent", "error"}) /\ Errors(Append(told, "error"))
<1> DEFINE new == Append(told, "error")
<1>1. /\ new \in Seq({"sent", "error"}) /\ new # <<>>
      /\ DOMAIN new = 1..(Len(told) + 1) /\ DOMAIN told = 1..Len(told) /\ Len(told) \in Nat
      /\ new[Len(told) + 1] = "error" /\ \A i \in 1..Len(told) : new[i] = told[i]
  OBVIOUS
<1> HIDE DEF new
<1>2. \A i \in DOMAIN new : new[i] = "error"
  BY <1>1
<1> QED
  BY <1>1, <1>2 DEF Errors, new

LEMMA OneVerdict ==
    /\ Append(<<>>, "error") = <<"error">> /\ Errors(<<"error">>)
    /\ Append(<<>>, "sent") = <<"sent">> /\ <<"sent">> \in Seq({"sent", "error"})
    /\ <<"error">> \in Seq({"sent", "error"})
BY DEF Errors

\* done(false) of the library is an error, unless there has been one.
LEMMA DoneFails ==
    ASSUME NEW acc, NEW c, Core(c, acc)
    PROVE  LET d == handleDone(c, FALSE)
           IN  /\ Core(d, acc) /\ d.failed /\ d.queue = c.queue /\ d.socket = c.socket
               /\ d.awaits = c.awaits /\ d.encrypted = c.encrypted /\ d.authModes = c.authModes
<1> DEFINE d == handleDone(c, FALSE)
<1>1. c \in Clients
  BY DEF Core
<1>2. CASE c.failed
  BY <1>2 DEF handleDone
<1>3. CASE ~c.failed
  <2>1. c.told = <<>>
    BY <1>3 DEF Core, Verdicts
  <2>2. d = [c EXCEPT !.failed = TRUE, !.told = <<"error">>]
    BY <1>1, <1>3, <2>1, OneVerdict DEF handleDone, Tell, Clients
  <2>3. /\ d \in Clients /\ d.queue = c.queue /\ d.mode = c.mode /\ d.waiting = c.waiting
        /\ d.cancelled = c.cancelled /\ d.lineWithoutCommand = c.lineWithoutCommand
        /\ d.inProgress = c.inProgress /\ d.socket = c.socket /\ d.encrypted = c.encrypted
        /\ d.failed /\ d.told = <<"error">> /\ d.awaits = c.awaits /\ d.authModes = c.authModes
    BY <1>1, <2>2, OneVerdict DEF Clients
  <2> HIDE DEF d
  <2>4. Verdicts(d, acc)
    BY <2>3 DEF Verdicts
  <2>5. Core(d, acc)
    BY <2>3, <2>4, CoreKept, SameQueue DEF Core, HeadType
  <2> QED
    BY <2>3, <2>5 DEF d
<1> QED
  BY <1>2, <1>3

-----------------------------------------------------------------------------
(* The end of the connection                                                *)

\* An error has been told, and the socket is closed.
GivenUp(d) ==
    /\ d \in Clients /\ Launched(d) /\ ~d.lineWithoutCommand /\ d.failed
    /\ d.socket = "closed" /\ d.awaits = "nothing" /\ Errors(d.told)

LEMMA GivenUpStays ==
    ASSUME NEW d, GivenUp(d)
    PROVE  /\ GivenUp(onDisconnected(d))
           /\ onDisconnected(d).queue # <<>> => HeadType(onDisconnected(d)) = "Disconnect"
<1> DEFINE r == onDisconnected(d)
<1>1. d \in Clients /\ d.queue \in Seq(Commands) /\ d.failed
  BY DEF GivenUp, Clients
<1>2. CASE d.queue = <<>> \/ Head(d.queue).type = "Disconnect"
  <2>1. r = [d EXCEPT !.inProgress = FALSE]
    BY <1>1, <1>2 DEF onDisconnected, handleDone, Clients
  <2> HIDE DEF r
  <2>2. /\ r \in Clients /\ r.queue = d.queue /\ r.told = d.told /\ r.failed /\ r.mode = d.mode
        /\ r.waiting = d.waiting /\ r.cancelled = d.cancelled /\ r.socket = d.socket
        /\ r.awaits = d.awaits /\ r.lineWithoutCommand = d.lineWithoutCommand
    BY <1>1, <2>1 DEF Clients
  <2>3. r.queue # <<>> => HeadType(r) = "Disconnect"
    BY <1>1, <1>2, <2>2 DEF HeadType
  <2> QED
    BY <2>2, <2>3 DEF GivenUp, Launched, r
<1>3. CASE ~(d.queue = <<>> \/ Head(d.queue).type = "Disconnect")
  <2>1. r = [d EXCEPT !.inProgress = FALSE, !.queue = <<>>]
    BY <1>1, <1>3 DEF onDisconnected, handleDone, Clients
  <2> HIDE DEF r
  <2>3. <<>> \in Seq(Commands)
    OBVIOUS
  <2>2. /\ r \in Clients /\ r.queue = <<>> /\ r.told = d.told /\ r.failed /\ r.mode = d.mode
        /\ r.waiting = d.waiting /\ r.cancelled = d.cancelled /\ r.socket = d.socket
        /\ r.awaits = d.awaits /\ r.lineWithoutCommand = d.lineWithoutCommand
    BY <1>1, <2>1, <2>3 DEF Clients
  <2> QED
    BY <2>2 DEF GivenUp, Launched, r
<1> QED
  BY <1>2, <1>3

\* A client which has told nothing but errors is stuck after an error of the socket.
LEMMA ErrorEnds ==
    ASSUME NEW acc, NEW c \in Clients, Launched(c), ~c.lineWithoutCommand,
           \A i \in DOMAIN c.told : c.told[i] = "error"
    PROVE  Stuck(onError(c), acc)
<1> DEFINE told == Append(c.told, "error")
           e == handleError([c EXCEPT !.socket = "closed", !.awaits = "nothing"])
           f == onDisconnected(e)
           g == onDisconnected(f)
<1>1. told \in Seq({"sent", "error"}) /\ Errors(told)
  BY MoreErrors DEF Clients
<1>2. GivenUp(e)
  <2> HIDE DEF told
  <2>1. e = [c EXCEPT !.socket = "closed", !.awaits = "nothing", !.failed = TRUE, !.told = told]
    BY DEF handleError, Tell, Clients, told
  <2> HIDE DEF e
  <2> QED
    BY <1>1, <2>1 DEF GivenUp, Clients, Requests, Launched
<1>3. onError(c) = IF Connected(c) THEN g ELSE f
  BY DEF onError
<1> HIDE DEF e, f, g
<1>4. GivenUp(f) /\ (f.queue # <<>> => HeadType(f) = "Disconnect")
  BY <1>2, GivenUpStays DEF f
<1>5. GivenUp(g) /\ (g.queue # <<>> => HeadType(g) = "Disconnect")
  BY <1>4, GivenUpStays DEF g
<1>6. ASSUME NEW d, GivenUp(d), d.queue # <<>> => HeadType(d) = "Disconnect"
      PROVE  Stuck(d, acc)
  BY <1>6 DEF Stuck, GivenUp, Launched, Errors
<1> QED
  BY <1>3, <1>4, <1>5, <1>6

\* Nothing but errors is told by a client whose connection stands.
LEMMA CoreTold ==
    ASSUME NEW acc, NEW c, Core(c, acc) PROVE \A i \in DOMAIN c.told : c.told[i] = "error"
BY DEF Core, Verdicts

\* After QUIT, or when QUIT cannot be said any more, the end of the connection is the success
\* of what has not failed.
LEMMA QuitEnds ==
    ASSUME NEW acc, NEW c, Core(c, acc), HeadType(c) = "Disconnect"
    PROVE  LET d == onDisconnected([c EXCEPT !.socket = "closed", !.awaits = "nothing"])
           IN  Stuck(d, acc) /\ Stuck([d EXCEPT !.inProgress = TRUE], acc)
<1> DEFINE e == [c EXCEPT !.socket = "closed", !.awaits = "nothing", !.inProgress = FALSE]
           d == onDisconnected([c EXCEPT !.socket = "closed", !.awaits = "nothing"])
           r == [d EXCEPT !.inProgress = TRUE]
<1>1. /\ c \in Clients /\ c.queue \in Seq(Commands) /\ c.queue # <<>> /\ 1 \in DOMAIN c.queue
      /\ Head(c.queue) = c.queue[1]
  BY DEF Core, WellOrdered, Clients
<1>2. d = handleDone(e, TRUE)
  <2> DEFINE b == [c EXCEPT !.socket = "closed", !.awaits = "nothing"]
  <2>1. b.queue = c.queue /\ [b EXCEPT !.inProgress = FALSE] = e
    BY <1>1 DEF Clients
  <2> HIDE DEF b, e
  <2>2. onDisconnected(b) = handleDone(e, TRUE)
    BY <1>1, <2>1 DEF onDisconnected, HeadType
  <2> QED
    BY <2>2 DEF b
<1>3. /\ e \in Clients /\ e.socket = "closed" /\ e.awaits = "nothing" /\ e.queue = c.queue
      /\ e.failed = c.failed /\ e.told = c.told /\ e.lineWithoutCommand = c.lineWithoutCommand
      /\ e.mode = c.mode /\ e.waiting = c.waiting /\ e.cancelled = c.cancelled
  BY <1>1 DEF Clients, Requests
<1>4. Launched(c) /\ ~c.lineWithoutCommand /\ Verdicts(c, acc)
  BY DEF Core
<1> HIDE DEF d, e
<1>5. /\ d \in Clients /\ d.socket = "closed" /\ d.awaits = "nothing" /\ d.queue = c.queue
      /\ d.failed = c.failed /\ d.lineWithoutCommand = c.lineWithoutCommand
      /\ d.mode = c.mode /\ d.waiting = c.waiting /\ d.cancelled = c.cancelled
      /\ IF d.failed THEN d.told # <<>> /\ \A i \in DOMAIN d.told : d.told[i] = "error"
         ELSE d.told = <<"sent">> /\ acc
  <2>1. CASE c.failed
    <3>1. d = e
      BY <1>2, <1>3, <2>1 DEF handleDone
    <3> QED
      BY <1>3, <1>4, <2>1, <3>1 DEF Verdicts
  <2>2. CASE ~c.failed
    <3>1. ~MailAhead(c)
      BY <1>1 DEF MailAhead, HeadType
    <3>2. acc /\ c.told = <<>>
      BY <1>4, <2>2, <3>1 DEF Verdicts
    <3>3. d = [e EXCEPT !.told = <<"sent">>]
      BY <1>2, <1>3, <2>2, <3>2, OneVerdict DEF handleDone, Tell
    <3> QED
      BY <1>3, <2>2, <3>2, <3>3, OneVerdict DEF Clients
  <2> QED
    BY <2>1, <2>2
<1>6. Stuck(d, acc)
  BY <1>1, <1>4, <1>5 DEF Stuck, Launched, HeadType
<1>7. /\ r \in Clients /\ r.socket = d.socket /\ r.awaits = d.awaits /\ r.queue = d.queue
      /\ r.failed = d.failed /\ r.lineWithoutCommand = d.lineWithoutCommand
      /\ r.mode = d.mode /\ r.waiting = d.waiting /\ r.cancelled = d.cancelled
      /\ r.told = d.told
  BY <1>5 DEF Clients
<1> HIDE DEF r
<1>8. Stuck(r, acc)
  BY <1>1, <1>4, <1>5, <1>7 DEF Stuck, Launched, HeadType
<1> QED
  BY <1>6, <1>8 DEF d, r

-----------------------------------------------------------------------------
(* processNextCommand()                                                     *)

\* The command at the head is done.
LEMMA Popped ==
    ASSUME NEW acc, NEW c, Core(c, acc), c.socket = "open", HeadType(c) # "Disconnect",
           HeadType(c) \in Mails => acc \/ c.failed, HeadType(c) = "StartTLS" => c.encrypted
    PROVE  LET d == [c EXCEPT !.queue = Tail(@)]
           IN  /\ Core(d, acc) /\ d.queue # <<>> /\ HeadType(d) # "Connect"
               /\ d.queue[1].stage = 0 /\ d.socket = "open" /\ d.awaits = c.awaits
<1> DEFINE q == Tail(c.queue)
           d == [c EXCEPT !.queue = Tail(@)]
<1>1. /\ c \in Clients /\ c.queue \in Seq(Commands) /\ c.queue # <<>> /\ Len(c.queue) \in Nat
      /\ DOMAIN c.queue = 1..Len(c.queue) /\ c.queue[Len(c.queue)].type = "Disconnect"
      /\ \A j \in 2..Len(c.queue) : c.queue[j].type # "Connect" /\ c.queue[j].stage = 0
  BY DEF Core, WellOrdered, Clients
<1>2. Len(c.queue) > 1
  BY <1>1 DEF HeadType
<1>3. /\ q \in Seq(Commands) /\ Len(q) = Len(c.queue) - 1 /\ q # <<>>
      /\ DOMAIN q = 1..(Len(c.queue) - 1)
      /\ \A j \in 1..(Len(c.queue) - 1) : q[j] = c.queue[j + 1]
  <2>1. q \in Seq(Commands) /\ Len(q) = Len(c.queue) - 1
    BY <1>1
  <2>2. \A j \in 1..(Len(c.queue) - 1) : q[j] = c.queue[j + 1]
    BY <1>1
  <2> HIDE DEF q
  <2>3. DOMAIN q = 1..(Len(c.queue) - 1) /\ q # <<>>
    BY <1>1, <1>2, <2>1
  <2> QED
    BY <2>1, <2>2, <2>3
<1> HIDE DEF q
<1>4. /\ d \in Clients /\ d.queue = q /\ d.mode = c.mode /\ d.waiting = c.waiting
      /\ d.cancelled = c.cancelled /\ d.lineWithoutCommand = c.lineWithoutCommand
      /\ d.inProgress = c.inProgress /\ d.socket = c.socket /\ d.encrypted = c.encrypted
      /\ d.failed = c.failed /\ d.told = c.told /\ d.awaits = c.awaits
  BY <1>1, <1>3 DEF Clients, q
<1> HIDE DEF d
<1>5. WellOrdered(d)
  <2>1. q[Len(q)].type = "Disconnect"
    BY <1>1, <1>2, <1>3
  <2>2. \A j \in 2..Len(q) : q[j].type # "Connect" /\ q[j].stage = 0
    BY <1>1, <1>3
  <2> QED
    BY <1>3, <1>4, <2>1, <2>2 DEF WellOrdered
<1>6. HeadType(d) # "Connect" /\ d.queue[1].stage = 0
  BY <1>1, <1>2, <1>3, <1>4 DEF HeadType
<1>7. SecretsCovered(d)
  <2> SUFFICES ASSUME account.startTls, NEW j \in DOMAIN q, Secret(q[j])
               PROVE  TlsBefore(d, j) \/ d.encrypted
    BY <1>4, <1>6 DEF SecretsCovered
  <2>1. j + 1 \in DOMAIN c.queue /\ Secret(c.queue[j + 1]) /\ SecretsCovered(c)
    BY <1>1, <1>2, <1>3 DEF Core
  <2>2. TlsBefore(c, j + 1) \/ c.encrypted
    BY <2>1 DEF SecretsCovered
  <2>3. ASSUME TlsBefore(c, j + 1), HeadType(c) # "StartTLS" PROVE TlsBefore(d, j)
    <3>1. PICK k \in 1..((j + 1) - 1) : c.queue[k].type = "StartTLS"
      BY <2>3 DEF TlsBefore
    <3>2. k - 1 \in 1..(j - 1) /\ q[k - 1] = c.queue[k]
      <4>1. c.queue[1].type # "StartTLS"
        BY <1>1, <2>3 DEF HeadType
      <4>2. k \in 1..j /\ k # 1 /\ j \in 1..(Len(c.queue) - 1)
        BY <1>3, <3>1, <4>1
      <4>3. k - 1 \in 1..(j - 1) /\ k - 1 \in 1..(Len(c.queue) - 1) /\ (k - 1) + 1 = k
        BY <1>1, <4>2
      <4> QED
        BY <1>3, <4>3
    <3> QED
      BY <1>4, <3>1, <3>2 DEF TlsBefore
  <2> QED
    BY <1>4, <2>2, <2>3
<1>8. Verdicts(d, acc)
  <2>1. CASE c.failed \/ acc
    BY <1>4, <2>1 DEF Verdicts, Core
  <2>2. CASE ~c.failed /\ ~acc
    <3>1. MailAhead(c) /\ HeadType(c) \notin Mails
      BY <2>2 DEF Core, Verdicts
    <3>2. PICK j \in DOMAIN c.queue : /\ c.queue[j].type \in Mails
                                      /\ \A k \in 1..j : c.queue[k].type # "Disconnect"
      BY <3>1 DEF MailAhead
    <3>3. j - 1 \in DOMAIN q /\ q[j - 1].type \in Mails
      BY <1>1, <1>2, <1>3, <3>1, <3>2 DEF HeadType
    <3>4. \A k \in 1..(j - 1) : q[k].type # "Disconnect"
      <4>1. \A k \in 1..(j - 1) : k + 1 \in 1..j /\ k \in 1..(Len(c.queue) - 1)
        BY <1>1, <3>2
      <4> QED
        BY <1>3, <3>2, <4>1
    <3>5. MailAhead(d)
      BY <1>4, <3>3, <3>4 DEF MailAhead
    <3> QED
      BY <1>4, <2>2, <3>5 DEF Verdicts, Core
  <2> QED
    BY <2>1, <2>2
<1>9. Core(d, acc)
  BY <1>4, <1>5, <1>6, <1>7, <1>8 DEF Core, Launched
<1> QED
  BY <1>3, <1>4, <1>6, <1>9 DEF d

\* The client says something, or makes another step which leaves the queue alone.
LEMMA Said ==
    ASSUME NEW acc, NEW c, Core(c, acc), NEW request \in Requests,
           request \in Awaited(HeadType(c), c.queue[1].stage), Connected(c)
    PROVE  Live(Say(c, request), acc) /\ Say(c, request).awaits = request
<1> DEFINE d == Say(c, request)
<1>1. c \in Clients
  BY DEF Core
<1>2. d = [c EXCEPT !.awaits = request]
  BY DEF Say
<1> HIDE DEF d
<1>3. /\ d \in Clients /\ d.queue = c.queue /\ d.mode = c.mode /\ d.waiting = c.waiting
      /\ d.cancelled = c.cancelled /\ d.lineWithoutCommand = c.lineWithoutCommand
      /\ d.inProgress = c.inProgress /\ d.socket = c.socket /\ d.encrypted = c.encrypted
      /\ d.failed = c.failed /\ d.told = c.told /\ d.awaits = request
  BY <1>1, <1>2 DEF Clients
<1>4. Verdicts(d, acc)
  BY <1>3 DEF Core, Verdicts, MailAhead
<1>5. Core(d, acc)
  BY <1>3, <1>4, CoreKept, SameQueue DEF Core, HeadType
<1> QED
  BY <1>3, <1>5 DEF Live, HeadType, Connected, d

LEMMA StillInProgress ==
    ASSUME NEW c \in Clients, c.inProgress PROVE [c EXCEPT !.inProgress = TRUE] = c
BY DEF Clients

\* The head of the queue is begun.
LEMMA HeadStarts ==
    ASSUME NEW acc, NEW c, Core(c, acc), c.socket = "open", HeadType(c) # "Connect",
           c.queue[1].stage = 0, c.awaits = "nothing", NEW atOnce \in BOOLEAN
    PROVE  LET r == [StartHead(c, atOnce) EXCEPT !.inProgress = TRUE]
           IN  Live(r, acc) \/ Stuck(r, acc)
<1> DEFINE h == StartHead(c, atOnce)
<1>1. /\ c \in Clients /\ c.queue \in Seq(Commands) /\ c.queue # <<>> /\ 1 \in DOMAIN c.queue
      /\ Head(c.queue) = c.queue[1] /\ c.queue[1] \in Commands /\ Connected(c)
      /\ c.inProgress
  BY DEF Core, WellOrdered, Clients, Connected
<1>2. HeadType(c) \in Types
  BY <1>1 DEF HeadType, Commands
<1>3. ASSUME Live(h, acc) PROVE Live([h EXCEPT !.inProgress = TRUE], acc)
  <2>1. h \in Clients /\ h.inProgress
    BY <1>3 DEF Live, Core
  <2> HIDE DEF h
  <2> QED
    BY <1>3, <2>1, StillInProgress
<1>4. CASE HeadType(c) = "Disconnect"
  <2>1. h = sendQuit(c, atOnce)
    BY <1>1, <1>4 DEF StartHead, HeadType
  <2>2. CASE atOnce
    BY <1>1, <1>4, <2>1, <2>2, QuitEnds DEF sendQuit
  <2>3. CASE ~atOnce
    <3>1. h = [c EXCEPT !.socket = "closing", !.awaits = "QUIT"]
      BY <1>1, <2>1, <2>3 DEF sendQuit
    <3> HIDE DEF h
    <3>2. /\ h \in Clients /\ h.queue = c.queue /\ h.mode = c.mode /\ h.waiting = c.waiting
          /\ h.cancelled = c.cancelled /\ h.lineWithoutCommand = c.lineWithoutCommand
          /\ h.inProgress = c.inProgress /\ h.socket = "closing" /\ h.encrypted = c.encrypted
          /\ h.failed = c.failed /\ h.told = c.told /\ h.awaits = "QUIT"
      BY <1>1, <3>1 DEF Clients, Requests
    <3>3. Verdicts(h, acc)
      BY <3>2 DEF Core, Verdicts, MailAhead
    <3>4. Core(h, acc)
      BY <1>4, <3>2, <3>3, CoreKept, SameQueue DEF Core, HeadType
    <3>5. "QUIT" \in Awaited("Disconnect", h.queue[1].stage)
      BY DEF Awaited, Requests, Mails
    <3>6. Live(h, acc)
      BY <1>4, <3>2, <3>4, <3>5 DEF Live, HeadType
    <3> QED
      BY <1>3, <3>6 DEF h
  <2> QED
    BY <2>2, <2>3
<1>5. CASE HeadType(c) = "StartTLS"
  <2>1. h = Say(c, "STARTTLS")
    BY <1>1, <1>5 DEF StartHead, HeadType
  <2>2. "STARTTLS" \in Requests /\ "STARTTLS" \in Awaited(HeadType(c), c.queue[1].stage)
    BY <1>5 DEF Awaited, Requests, Mails
  <2> QED
    BY <1>1, <1>3, <2>1, <2>2, Said
<1>6. CASE HeadType(c) = "Authenticate" /\ ChosenMode(c) = "Any"
  <2>1. h = handleDone(c, FALSE)
    BY <1>1, <1>6 DEF StartHead, HeadType
  <2> HIDE DEF h
  <2>2. Core(h, acc) /\ h.queue = c.queue /\ h.socket = "open" /\ h.awaits = c.awaits
    BY <2>1, DoneFails
  <2>3. h.awaits \in Awaited(HeadType(h), h.queue[1].stage)
    BY <1>6, <2>2 DEF Awaited, Requests, Mails, HeadType
  <2> QED
    BY <1>3, <2>2, <2>3 DEF Live, h
<1>7. CASE HeadType(c) = "Authenticate" /\ ChosenMode(c) # "Any"
  <2> DEFINE command == [c.queue[1] EXCEPT !.mode = ChosenMode(c)]
             d == [c EXCEPT !.queue[1] = command]
  <2>1. [c EXCEPT !.queue[1].mode = ChosenMode(c)] = d
    BY Zenon
  <2>2. h = Say(d, "AUTH")
    BY <1>1, <1>7, <2>1 DEF StartHead, HeadType
  <2>3. ChosenMode(c) \in AuthModes
    BY <1>7 DEF ChosenMode, AuthModes
  <2>4. command \in Commands /\ command.type = "Authenticate"
    BY <1>1, <1>7, <2>3 DEF Commands, HeadType
  <2> HIDE DEF command, h
  <2>5. Core(d, acc) /\ d.queue[1] = command /\ d.socket = "open"
    BY <1>7, <2>4, HeadMoves
  <2> HIDE DEF d
  <2>6. "AUTH" \in Requests /\ "AUTH" \in Awaited(HeadType(d), d.queue[1].stage)
    BY <2>4, <2>5 DEF Awaited, Requests, Mails, HeadType
  <2>7. Live(h, acc)
    BY <2>2, <2>5, <2>6, Said DEF Connected
  <2> QED
    BY <1>3, <2>7 DEF h
<1>8. CASE HeadType(c) \in Mails
  <2>1. h = Say(c, "MAIL")
    BY <1>1, <1>8 DEF StartHead, HeadType, Mails
  <2>2. "MAIL" \in Requests /\ "MAIL" \in Awaited(HeadType(c), c.queue[1].stage)
    BY <1>8 DEF Awaited, Requests, Mails
  <2> QED
    BY <1>1, <1>3, <2>1, <2>2, Said
<1> QED
  BY <1>2, <1>4, <1>5, <1>6, <1>7, <1>8 DEF Types, Mails

LEMMA NextCommand ==
    ASSUME NEW acc, NEW c, Core(c, acc), c.socket = "open", HeadType(c) # "Disconnect",
           HeadType(c) \in Mails => acc \/ c.failed, HeadType(c) = "StartTLS" => c.encrypted,
           c.awaits = "nothing", NEW atOnce \in BOOLEAN
    PROVE  Live(processNextCommand(c, atOnce), acc) \/ Stuck(processNextCommand(c, atOnce), acc)
<1> DEFINE d == [c EXCEPT !.queue = Tail(@)]
<1>1. c.inProgress /\ c.queue # <<>>
  BY DEF Core, WellOrdered
<1>2. /\ Core(d, acc) /\ d.queue # <<>> /\ HeadType(d) # "Connect"
      /\ d.queue[1].stage = 0 /\ d.socket = "open" /\ d.awaits = "nothing"
  BY Popped
<1>3. processNextCommand(c, atOnce) = [StartHead(d, atOnce) EXCEPT !.inProgress = TRUE]
  <2>1. processNextCommand(c, atOnce) =
          IF d.queue = <<>> THEN handleDone([d EXCEPT !.inProgress = FALSE], FALSE)
          ELSE [StartHead(d, atOnce) EXCEPT !.inProgress = TRUE]
    BY <1>1 DEF processNextCommand
  <2> QED
    BY <1>2, <2>1
<1> HIDE DEF d
<1> QED
  BY <1>2, <1>3, HeadStarts

-----------------------------------------------------------------------------
(* Answers of the server                                                    *)

\* The command at the head moves on to the next stage.
LEMMA Staged ==
    ASSUME NEW acc, NEW c, Core(c, acc), Connected(c), NEW stage \in 0..3,
           HeadType(c) = "StartTLS" /\ stage # 0 => c.encrypted,
           NEW request \in Awaited(HeadType(c), stage)
    PROVE  Live(Stage(c, stage, request), acc)
<1> DEFINE command == [c.queue[1] EXCEPT !.stage = stage]
           d == [c EXCEPT !.queue[1] = command]
<1>1. c.queue[1] \in Commands
  BY DEF Core, WellOrdered, Clients
<1>2. [c EXCEPT !.queue[1].stage = stage] = d
  BY Zenon
<1>3. Stage(c, stage, request) = Say(d, request)
  BY <1>2 DEF Stage
<1>4. command \in Commands /\ command.type = HeadType(c) /\ command.stage = stage
  BY <1>1 DEF Commands, HeadType
<1> HIDE DEF command
<1>5. Core(d, acc) /\ d.queue[1] = command /\ d.socket = c.socket
  BY <1>4, HeadMoves
<1> HIDE DEF d
<1>6. request \in Requests /\ request \in Awaited(HeadType(d), d.queue[1].stage)
  BY <1>4, <1>5 DEF Awaited, HeadType
<1> QED
  BY <1>3, <1>5, <1>6, Said DEF Connected

\* Nothing but the end is waited for any more.
LEMMA Silent ==
    ASSUME NEW acc, NEW c, Core(c, acc), c.awaits = "nothing", HeadType(c) \notin Mails
    PROVE  Live(c, acc)
BY DEF Live, Awaited, Requests, Mails

LEMMA SilentFails ==
    ASSUME NEW acc, NEW c, Core(c, acc), c.awaits = "nothing", HeadType(c) \notin Mails
    PROVE  Live(handleDone(c, FALSE), acc)
BY DoneFails, Silent DEF HeadType

\* The answer to EHLO tells how the client may authenticate itself.
LEMMA Offered ==
    ASSUME NEW acc, NEW c, Core(c, acc), NEW offered \in SUBSET AuthModes
    PROVE  LET d == [c EXCEPT !.authModes = @ \cup offered]
           IN  /\ Core(d, acc) /\ d.queue = c.queue /\ d.socket = c.socket
               /\ d.awaits = c.awaits /\ d.encrypted = c.encrypted
<1> DEFINE d == [c EXCEPT !.authModes = @ \cup offered]
<1>1. c \in Clients
  BY DEF Core
<1>2. /\ d \in Clients /\ d.queue = c.queue /\ d.mode = c.mode /\ d.waiting = c.waiting
      /\ d.cancelled = c.cancelled /\ d.lineWithoutCommand = c.lineWithoutCommand
      /\ d.inProgress = c.inProgress /\ d.socket = c.socket /\ d.encrypted = c.encrypted
      /\ d.failed = c.failed /\ d.told = c.told /\ d.awaits = c.awaits
  BY <1>1 DEF Clients
<1> HIDE DEF d
<1>3. Verdicts(d, acc)
  BY <1>2 DEF Core, Verdicts, MailAhead
<1>4. Core(d, acc)
  BY <1>2, <1>3, CoreKept, SameQueue DEF Core, HeadType
<1> QED
  BY <1>2, <1>4 DEF d

LEMMA ConnectReads ==
    ASSUME NEW acc, NEW c, Core(c, acc), c.socket = "open", HeadType(c) = "Connect",
           c.awaits = "nothing", NEW status \in Nat, NEW offered \in SUBSET AuthModes,
           NEW atOnce \in BOOLEAN
    PROVE  LET r == readConnect(c, status, offered, atOnce)
           IN  Live(r, acc) \/ Stuck(r, acc)
<1> DEFINE stage == c.queue[1].stage
           r == readConnect(c, status, offered, atOnce)
<1>1. Head(c.queue) = c.queue[1] /\ Connected(c) /\ stage \in 0..3
  <2>1. Head(c.queue) = c.queue[1] /\ Connected(c) /\ c.queue[1] \in Commands
    BY DEF Core, WellOrdered, Clients, Connected
  <2> QED
    BY <2>1 DEF Commands
<1>2. CASE stage = 0 /\ status = 220
  <2>1. r = Stage(c, 1, "EHLO")
    BY <1>1, <1>2 DEF readConnect
  <2>2. "EHLO" \in Awaited(HeadType(c), 1)
    BY DEF Awaited, Requests, Mails
  <2> QED
    BY <1>1, <2>1, <2>2, Staged
<1>3. CASE stage = 1 /\ status = 250
  <2> DEFINE d == [c EXCEPT !.authModes = @ \cup offered]
  <2>1. r = processNextCommand(d, atOnce)
    BY <1>1, <1>3 DEF readConnect
  <2>2. Core(d, acc) /\ d.queue = c.queue /\ d.socket = c.socket /\ d.awaits = c.awaits
    BY Offered
  <2>3. HeadType(d) = "Connect"
    BY <2>2 DEF HeadType
  <2> HIDE DEF d, r
  <2> QED
    BY <2>1, <2>2, <2>3, NextCommand DEF Mails, r
<1>4. CASE stage = 2 /\ status = 250
  <2>1. r = processNextCommand(c, atOnce)
    BY <1>1, <1>4 DEF readConnect
  <2> HIDE DEF r
  <2> QED
    BY <2>1, NextCommand DEF Mails, r
<1>5. CASE stage = 1 /\ status \in {421, 502}
  <2>1. r = Stage(c, 2, "HELO")
    BY <1>1, <1>5 DEF readConnect
  <2>2. "HELO" \in Awaited(HeadType(c), 2)
    BY DEF Awaited, Requests, Mails
  <2> QED
    BY <1>1, <2>1, <2>2, Staged
<1>6. CASE /\ ~(stage = 0 /\ status = 220) /\ ~(stage = 1 /\ status = 250)
           /\ ~(stage = 2 /\ status = 250) /\ ~(stage = 1 /\ status \in {421, 502})
  <2>1. r = c
    BY <1>1, <1>6 DEF readConnect
  <2> QED
    BY <2>1, Silent DEF Mails
<1> QED
  BY <1>2, <1>3, <1>4, <1>5, <1>6

LEMMA StartTLSReads ==
    ASSUME NEW acc, NEW c, Core(c, acc), c.socket = "open", HeadType(c) = "StartTLS",
           c.awaits = "nothing", NEW status \in Nat, NEW offered \in SUBSET AuthModes,
           NEW atOnce \in BOOLEAN
    PROVE  LET r == readStartTLS(c, status, offered, atOnce)
           IN  Live(r, acc) \/ Stuck(r, acc)
<1> DEFINE stage == c.queue[1].stage
           r == readStartTLS(c, status, offered, atOnce)
<1>1. Head(c.queue) = c.queue[1] /\ Connected(c) /\ stage \in 0..3
  <2>1. Head(c.queue) = c.queue[1] /\ Connected(c) /\ c.queue[1] \in Commands
    BY DEF Core, WellOrdered, Clients, Connected
  <2> QED
    BY <2>1 DEF Commands
<1>2. CASE stage = 0 /\ status = 220
  <2>1. r = Say(c, "handshake")
    BY <1>1, <1>2 DEF handleDone, readStartTLS
  <2>2. "handshake" \in Requests /\ "handshake" \in Awaited(HeadType(c), c.queue[1].stage)
    BY DEF Awaited, Requests, Mails
  <2> QED
    BY <1>1, <2>1, <2>2, Said
<1>3. CASE stage = 1 /\ status = 250
  <2> DEFINE d == [c EXCEPT !.authModes = @ \cup offered]
  <2>1. r = processNextCommand(d, atOnce)
    BY <1>1, <1>3 DEF handleDone, readStartTLS
  <2>2. /\ Core(d, acc) /\ d.queue = c.queue /\ d.socket = c.socket /\ d.awaits = c.awaits
        /\ d.encrypted = c.encrypted
    BY Offered
  <2>3. HeadType(d) = "StartTLS" /\ c.encrypted
    BY <1>3, <2>2 DEF HeadType, Core
  <2> HIDE DEF d, r
  <2> QED
    BY <2>1, <2>2, <2>3, NextCommand DEF Mails, r
<1>4. CASE ~(stage = 0 /\ status = 220) /\ ~(stage = 1 /\ status = 250)
  <2>1. r = handleDone(c, FALSE)
    BY <1>1, <1>4 DEF handleDone, readStartTLS
  <2> QED
    BY <2>1, SilentFails DEF Mails
<1> QED
  BY <1>2, <1>3, <1>4

LEMMA AuthenticateReads ==
    ASSUME NEW acc, NEW c, Core(c, acc), c.socket = "open", HeadType(c) = "Authenticate",
           c.awaits = "nothing", NEW status \in Nat, NEW atOnce \in BOOLEAN
    PROVE  LET r == readAuthenticate(c, status, atOnce)
           IN  Live(r, acc) \/ Stuck(r, acc)
<1> DEFINE stage == c.queue[1].stage
           plain == c.queue[1].mode = "PLAIN"
           r == readAuthenticate(c, status, atOnce)
<1>1. Head(c.queue) = c.queue[1] /\ Connected(c) /\ stage \in 0..3
  <2>1. Head(c.queue) = c.queue[1] /\ Connected(c) /\ c.queue[1] \in Commands
    BY DEF Core, WellOrdered, Clients, Connected
  <2> QED
    BY <2>1 DEF Commands
<1>2. "credentials" \in Requests /\ \A n : "credentials" \in Awaited(HeadType(c), n)
  BY DEF Awaited, Requests, Mails
<1>3. CASE stage = 0 /\ status = 334
  <2>1. r = Stage(c, 1, "credentials")
    BY <1>1, <1>3 DEF handleDone, readAuthenticate
  <2> QED
    BY <1>1, <1>2, <2>1, Staged
<1>4. CASE stage = 1 /\ status = 334 /\ ~plain
  <2>1. r = Say(c, "credentials")
    BY <1>1, <1>4 DEF handleDone, readAuthenticate
  <2> QED
    BY <1>1, <1>2, <2>1, Said
<1>5. CASE (stage = 1 /\ status = 334 /\ plain) \/ status = 235
  <2>1. r = processNextCommand(c, atOnce)
    BY <1>1, <1>5 DEF handleDone, readAuthenticate
  <2> HIDE DEF r
  <2> QED
    BY <2>1, NextCommand DEF Mails, r
<1>6. CASE status # 235 /\ (stage \in {0, 1} => status # 334)
  <2>1. r = handleDone(c, FALSE)
    BY <1>1, <1>6 DEF handleDone, readAuthenticate
  <2> QED
    BY <2>1, SilentFails DEF Mails
<1> QED
  BY <1>3, <1>4, <1>5, <1>6

LEMMA RcptSent ==
    ASSUME NEW acc, NEW c, Core(c, acc), Connected(c), HeadType(c) \in Mails,
           c.queue[1].stage = 0
    PROVE  Live(sendRcpt(c), acc)
<1> DEFINE left == Head(c.queue).rcpts - 1
           command == [c.queue[1] EXCEPT !.rcpts = left]
           d == [c EXCEPT !.queue[1] = command]
           last == [command EXCEPT !.stage = 1]
           e == [d EXCEPT !.queue[1] = last]
<1>1. c.queue[1] \in Commands /\ Head(c.queue) = c.queue[1]
  BY DEF Core, WellOrdered, Clients
<1>2. command \in Commands /\ command.type = HeadType(c) /\ command.stage = 0
  BY <1>1 DEF Commands, HeadType
<1>3. [c EXCEPT !.queue[1].rcpts = left] = d
  BY Zenon
<1> HIDE DEF left
<1>4. last \in Commands /\ last.type = HeadType(c) /\ last.stage = 1
  <2> HIDE DEF command
  <2> QED
    BY <1>2 DEF Commands
<1> HIDE DEF command
<1>5. Core(d, acc) /\ d.queue[1] = command /\ d.socket = c.socket
  BY <1>2, HeadMoves DEF Mails
<1>6. [d EXCEPT !.queue[1].stage = 1] = e
  <2>1. [d EXCEPT !.queue[1].stage = 1]
          = [d EXCEPT !.queue[1] = [d.queue[1] EXCEPT !.stage = 1]]
    <3> HIDE DEF d
    <3> QED
      BY Zenon
  <2> HIDE DEF d
  <2> QED
    BY <1>5, <2>1
<1>7. sendRcpt(c) = Say(IF left = 0 THEN e ELSE d, "RCPT")
  BY <1>3, <1>6 DEF sendRcpt, left
<1> HIDE DEF d, last
<1>8. HeadType(d) = HeadType(c) /\ HeadType(e) = HeadType(c)
      /\ Core(e, acc) /\ e.queue[1] = last /\ e.socket = c.socket
  <2>1. HeadType(d) = HeadType(c)
    BY <1>2, <1>5 DEF HeadType
  <2>2. Core(e, acc) /\ e.queue[1] = last /\ e.socket = c.socket
    BY <1>4, <1>5, <2>1, HeadMoves DEF Mails
  <2> HIDE DEF e
  <2> QED
    BY <1>4, <2>1, <2>2 DEF HeadType
<1> HIDE DEF e
<1>9. "RCPT" \in Requests /\ \A n \in {0, 1} : "RCPT" \in Awaited(HeadType(c), n)
  BY DEF Awaited, Requests, Mails
<1>10. Live(Say(d, "RCPT"), acc)
  BY <1>2, <1>5, <1>8, <1>9, Said DEF Connected
<1>11. Live(Say(e, "RCPT"), acc)
  BY <1>4, <1>8, <1>9, Said DEF Connected
<1> QED
  BY <1>7, <1>10, <1>11

\* A refusal is an error, and the end of what there is to say.
LEMMA MailFails ==
    ASSUME NEW acc, NEW c, Core(c, acc), c.socket = "open", HeadType(c) \in Mails,
           c.awaits = "nothing", NEW atOnce \in BOOLEAN
    PROVE  LET r == processNextCommand(handleDone(c, FALSE), atOnce)
           IN  Live(r, acc) \/ Stuck(r, acc)
<1> DEFINE d == handleDone(c, FALSE)
<1>1. /\ Core(d, acc) /\ d.failed /\ d.queue = c.queue /\ d.socket = "open"
      /\ d.awaits = "nothing"
  BY DoneFails
<1>2. HeadType(d) \in Mails
  BY <1>1 DEF HeadType
<1> HIDE DEF d
<1>3. LET f == processNextCommand(d, atOnce) IN Live(f, acc) \/ Stuck(f, acc)
  BY <1>1, <1>2, NextCommand DEF Mails
<1> QED
  BY <1>3 DEF d

\* The message is with the server, as a value and not as a fact.
Taken(accepted) == accepted = TRUE

LEMMA MailReads ==
    ASSUME NEW acc, NEW c, Core(c, acc), c.socket = "open", HeadType(c) \in Mails,
           c.awaits = "nothing", NEW status \in Nat, NEW atOnce \in BOOLEAN,
           c.queue[1].stage = 0 => status # 421,
           status = 250 /\ c.queue[1].stage = 2 /\ HeadType(c) = "MailBurl" => Taken(acc),
           status = 250 /\ c.queue[1].stage = 3 => Taken(acc)
    PROVE  LET r == readMail(c, status, atOnce)
           IN  Live(r, acc) \/ Stuck(r, acc)
<1> DEFINE stage == c.queue[1].stage
           burl == HeadType(c) = "MailBurl"
           next == processNextCommand(c, atOnce)
           fail(d) == processNextCommand(handleDone(d, FALSE), atOnce)
           failed == fail(c)
           r == readMail(c, status, atOnce)
<1>1. Head(c.queue) = c.queue[1] /\ Connected(c) /\ c.queue[1] \in Commands
  BY DEF Core, WellOrdered, Clients, Connected
<1>2. stage \in 0..3
  BY <1>1 DEF Commands
<1>3. Live(failed, acc) \/ Stuck(failed, acc)
  BY MailFails
<1>4. Taken(acc) => Live(next, acc) \/ Stuck(next, acc)
  BY NextCommand DEF Mails, Taken
<1>5. r = CASE stage = 0 /\ status = 250 -> sendRcpt(c)
           [] stage = 1 /\ status = 250 -> Stage(c, 2, IF burl THEN "BURL" ELSE "DATA")
           [] stage = 2 /\ status = 354 /\ ~burl -> Stage(c, 3, "content")
           [] status = 250 /\ stage = (IF burl THEN 2 ELSE 3) -> next
           [] OTHER -> failed
  <2> DEFINE head == Head(c.queue)
             e == IF head.stage = 0 /\ status = 421 THEN processNextCommand(c, atOnce) ELSE c
  <2>1. r = CASE head.stage = 0 /\ status = 250 -> sendRcpt(e)
              [] head.stage = 1 /\ status = 250 ->
                     Stage(e, 2, IF head.type = "MailBurl" THEN "BURL" ELSE "DATA")
              [] head.stage = 2 /\ status = 354 /\ ~(head.type = "MailBurl") ->
                     Stage(e, 3, "content")
              [] status = 250 /\ head.stage = (IF head.type = "MailBurl" THEN 2 ELSE 3) ->
                     processNextCommand(e, atOnce)
              [] OTHER -> fail(e)
    BY Zenon DEF readMail
  <2>2. e = c /\ head = c.queue[1]
    BY <1>1
  <2> HIDE DEF fail, e, head, r
  <2> QED
    BY <2>1, <2>2 DEF HeadType
<1>6. /\ burl => Live(Stage(c, 2, "BURL"), acc)
      /\ ~burl => Live(Stage(c, 2, "DATA"), acc) /\ Live(Stage(c, 3, "content"), acc)
  <2>1. /\ burl => "BURL" \in Awaited(HeadType(c), 2)
        /\ ~burl => "DATA" \in Awaited(HeadType(c), 2) /\ "content" \in Awaited(HeadType(c), 3)
    BY DEF Awaited, Requests, Mails
  <2> QED
    BY <1>1, <2>1, Staged DEF Mails
<1>7. stage = 0 => Live(sendRcpt(c), acc)
  BY <1>1, RcptSent
<1> HIDE DEF next, fail, failed, burl
<1>8. CASE stage = 0
  <2>1. r = IF status = 250 THEN sendRcpt(c) ELSE failed
    BY <1>5, <1>8
  <2> QED
    BY <1>3, <1>7, <1>8, <2>1
<1>9. CASE stage = 1
  <2>1. r = IF status = 250 THEN Stage(c, 2, IF burl THEN "BURL" ELSE "DATA") ELSE failed
    BY <1>5, <1>9
  <2> QED
    BY <1>3, <1>6, <2>1
<1>10. CASE stage = 2
  <2>1. r = IF ~burl /\ status = 354 THEN Stage(c, 3, "content")
            ELSE IF burl /\ status = 250 THEN next ELSE failed
    BY <1>5, <1>10
  <2> QED
    BY <1>3, <1>4, <1>6, <1>10, <2>1 DEF burl
<1>11. CASE stage = 3
  <2>1. r = IF ~burl /\ status = 250 THEN next ELSE failed
    BY <1>5, <1>11
  <2> QED
    BY <1>3, <1>4, <1>11, <2>1
<1> QED
  BY <1>2, <1>8, <1>9, <1>10, <1>11

-----------------------------------------------------------------------------
(* The actions                                                              *)

\* What is waited for is nothing that the queue depends on.
LEMMA Awaits ==
    ASSUME NEW acc, NEW c, Core(c, acc), NEW request \in Requests
    PROVE  Core([c EXCEPT !.awaits = request], acc)
<1> DEFINE d == [c EXCEPT !.awaits = request]
<1>1. c \in Clients
  BY DEF Core
<1>2. /\ d \in Clients /\ d.queue = c.queue /\ d.mode = c.mode /\ d.waiting = c.waiting
      /\ d.cancelled = c.cancelled /\ d.lineWithoutCommand = c.lineWithoutCommand
      /\ d.inProgress = c.inProgress /\ d.socket = c.socket /\ d.encrypted = c.encrypted
      /\ d.failed = c.failed /\ d.told = c.told
  BY <1>1 DEF Clients
<1> HIDE DEF d
<1>3. Verdicts(d, acc)
  BY <1>2 DEF Core, Verdicts, MailAhead
<1>4. Core(d, acc)
  BY <1>2, <1>3, CoreKept, SameQueue DEF Core, HeadType
<1> QED
  BY <1>4 DEF d

\* An answer finds the command which it is about at the head.
LEMMA Reads ==
    ASSUME NEW acc, NEW c, Live(c, acc), Connected(c), NEW status \in Nat,
           NEW offered \in SUBSET AuthModes, NEW atOnce \in BOOLEAN,
           HeadType(c) \in Mails /\ c.queue[1].stage = 0 => status # 421,
           status = 250 /\ c.queue[1].stage = 2 /\ HeadType(c) = "MailBurl" => Taken(acc),
           status = 250 /\ c.queue[1].stage = 3 /\ HeadType(c) \in Mails => Taken(acc)
    PROVE  LET r == readFromSocket(c, status, offered, atOnce)
           IN  Live(r, acc) \/ Stuck(r, acc)
<1> DEFINE d == [c EXCEPT !.awaits = "nothing"]
           r == readFromSocket(c, status, offered, atOnce)
<1>1. /\ c.queue # <<>> /\ Head(c.queue) = c.queue[1] /\ Core(c, acc)
      /\ c.queue \in Seq(Commands) /\ c \in Clients
  BY DEF Live, Core, WellOrdered, Clients
<1>2. d \in Clients /\ d.queue = c.queue /\ d.socket = c.socket /\ d.awaits = "nothing"
  BY <1>1 DEF Clients, Requests
<1>3. Core(d, acc)
  <2>1. "nothing" \in Requests
    BY DEF Requests
  <2> QED
    BY <1>1, <2>1, Awaits, ZenonT(40)
<1>4. HeadType(d) = HeadType(c) /\ d.queue[1] = c.queue[1]
  BY <1>2 DEF HeadType
<1>5. HeadType(c) \in Types
  <2>1. c.queue[1] \in Commands
    BY <1>1
  <2> QED
    BY <2>1 DEF HeadType, Commands
<1>6. HeadType(c) # "Disconnect" => d.socket = "open"
  BY <1>1, <1>2 DEF Core, Connected
<1>7. /\ HeadType(c) = "Connect" => r = readConnect(d, status, offered, atOnce)
      /\ HeadType(c) = "StartTLS" => r = readStartTLS(d, status, offered, atOnce)
      /\ HeadType(c) = "Authenticate" => r = readAuthenticate(d, status, atOnce)
      /\ HeadType(c) \in Mails => r = readMail(d, status, atOnce)
      /\ HeadType(c) = "Disconnect" => r = d
  BY <1>1 DEF readFromSocket, HeadType, Mails
<1> HIDE DEF d, r
<1>8. CASE HeadType(c) = "Connect"
  BY <1>2, <1>3, <1>4, <1>6, <1>7, <1>8, ConnectReads DEF r
<1>9. CASE HeadType(c) = "StartTLS"
  BY <1>2, <1>3, <1>4, <1>6, <1>7, <1>9, StartTLSReads DEF r
<1>10. CASE HeadType(c) = "Authenticate"
  BY <1>2, <1>3, <1>4, <1>6, <1>7, <1>10, AuthenticateReads DEF r
<1>11. CASE HeadType(c) \in Mails
  <2>1. HeadType(c) # "Disconnect"
    BY <1>11 DEF Mails
  <2>2. /\ d.socket = "open" /\ HeadType(d) \in Mails
        /\ d.queue[1].stage = 0 => status # 421
        /\ status = 250 /\ d.queue[1].stage = 2 /\ HeadType(d) = "MailBurl" => Taken(acc)
        /\ status = 250 /\ d.queue[1].stage = 3 => Taken(acc)
    BY <1>4, <1>6, <1>11, <2>1
  <2>3. LET m == readMail(d, status, atOnce) IN Live(m, acc) \/ Stuck(m, acc)
    BY <1>2, <1>3, <2>2, MailReads
  <2> QED
    BY <1>7, <1>11, <2>3 DEF r
<1>12. CASE HeadType(c) = "Disconnect"
  BY <1>2, <1>3, <1>4, <1>7, <1>12, Silent DEF r, Mails
<1> QED
  BY <1>5, <1>8, <1>9, <1>10, <1>11, <1>12 DEF Types, Mails

\* A client which has not begun, but has its mail and its password.
Ready(c) ==
    /\ c \in Clients /\ c.socket = "closed" /\ c.awaits = "nothing" /\ ~c.lineWithoutCommand
    /\ c.queue = <<>> /\ ~c.inProgress /\ c.told = <<>> /\ ~c.failed /\ c.cancelled = "no"
    /\ c.mode \in Mails

\* The commands of an attempt.
Program(mode) ==
    <<Cmd("Connect")>> \o (IF account.startTls THEN <<Cmd("StartTLS")>> ELSE <<>>)
                       \o (IF account.auth THEN <<Cmd("Authenticate")>> ELSE <<>>)
                       \o <<Cmd(mode), Cmd("Disconnect")>>

LEMMA CmdType ==
    ASSUME NEW type \in Types
    PROVE  Cmd(type) \in Commands /\ Cmd(type).type = type /\ Cmd(type).stage = 0
BY SmtpAssumption DEF Cmd, Commands

\* What may follow the command that connects.
LEMMA OneMore ==
    ASSUME NEW T, NEW s \in Seq(T), NEW a \in T
    PROVE  LET q == s \o <<a>>
           IN  /\ q \in Seq(T) /\ Len(q) = Len(s) + 1 /\ q[Len(s) + 1] = a
               /\ \A j \in 1..Len(s) : q[j] = s[j]
OBVIOUS

LEMMA TwoMore ==
    ASSUME NEW T, NEW s \in Seq(T), NEW a \in T, NEW b \in T
    PROVE  LET q == s \o <<a, b>>
           IN  /\ q \in Seq(T) /\ Len(q) = Len(s) + 2 /\ q[Len(s) + 1] = a /\ q[Len(s) + 2] = b
               /\ \A j \in 1..Len(s) : q[j] = s[j]
OBVIOUS

LEMMA ProgramRuns ==
    ASSUME NEW mode \in Mails
    PROVE  LET q == Program(mode)
           IN  /\ q \in Seq(Commands) /\ q # <<>> /\ q[1] = Cmd("Connect")
               /\ q[Len(q)].type = "Disconnect"
               /\ \A j \in 2..Len(q) : q[j].type # "Connect" /\ q[j].stage = 0
               /\ \E j \in DOMAIN q : q[j].type = mode /\ \A k \in 1..j : q[k].type # "Disconnect"
               /\ account.startTls => Len(q) > 1 /\ q[2].type = "StartTLS"
<1> DEFINE C == Cmd("Connect")
           S == Cmd("StartTLS")
           A == Cmd("Authenticate")
           W == Cmd(mode)
           D == Cmd("Disconnect")
           s == <<C>> \o (IF account.startTls THEN <<S>> ELSE <<>>)
           t == s \o (IF account.auth THEN <<A>> ELSE <<>>)
           q == t \o <<W, D>>
<1>1. /\ C \in Commands /\ C.type = "Connect" /\ C.stage = 0
      /\ S \in Commands /\ S.type = "StartTLS" /\ S.stage = 0
      /\ A \in Commands /\ A.type = "Authenticate" /\ A.stage = 0
      /\ W \in Commands /\ W.type = mode /\ W.stage = 0
      /\ D \in Commands /\ D.type = "Disconnect" /\ D.stage = 0
  BY CmdType DEF Types, Mails
<1>2. mode # "Connect" /\ mode # "Disconnect"
  BY DEF Mails
<1>3. Program(mode) = q /\ Cmd("Connect") = C
  BY DEF Program
<1> HIDE DEF C, S, A, W, D
<1>4. <<C>> \in Seq(Commands) /\ Len(<<C>>) = 1 /\ <<C>>[1] = C
  BY <1>1
<1>5. /\ s \in Seq(Commands) /\ Len(s) \in {1, 2} /\ s[1] = C
      /\ account.startTls => Len(s) = 2
      /\ Len(s) = 2 => s[2] = S
  <2>1. CASE account.startTls
    <3>1. s = <<C>> \o <<S>>
      BY <2>1
    <3> HIDE DEF s
    <3> QED
      BY <1>1, <1>4, <3>1, OneMore
  <2>2. CASE ~account.startTls
    <3>1. s = <<C>>
      BY <1>4, <2>2
    <3> HIDE DEF s
    <3> QED
      BY <1>4, <2>2, <3>1
  <2> QED
    BY <2>1, <2>2
<1> HIDE DEF s
<1>6. /\ t \in Seq(Commands) /\ Len(t) >= Len(s) /\ \A j \in 1..Len(s) : t[j] = s[j]
      /\ \A j \in (Len(s) + 1)..Len(t) : t[j] = A
  <2>1. CASE account.auth
    <3>1. t = s \o <<A>>
      BY <2>1
    <3> HIDE DEF t
    <3> QED
      BY <1>1, <1>5, <3>1, OneMore
  <2>2. CASE ~account.auth
    <3>1. t = s
      BY <1>5, <2>2
    <3> HIDE DEF t
    <3> QED
      BY <1>5, <3>1
  <2> QED
    BY <2>1, <2>2
<1>7. /\ t[1] = C /\ Len(t) \in Nat /\ Len(t) >= 1
      /\ \A j \in 2..Len(t) : t[j] = S \/ t[j] = A
      /\ account.startTls => Len(t) > 1 /\ t[2] = S
  BY <1>5, <1>6
<1> HIDE DEF t
<1>8. /\ q \in Seq(Commands) /\ Len(q) = Len(t) + 2 /\ q[Len(t) + 1] = W /\ q[Len(t) + 2] = D
      /\ \A j \in 1..Len(t) : q[j] = t[j]
  BY <1>1, <1>6, TwoMore
<1> HIDE DEF q
<1>9. \A j \in 2..Len(q) : q[j] = S \/ q[j] = A \/ q[j] = W \/ q[j] = D
  BY <1>7, <1>8
<1>10. \A j \in 2..Len(q) : q[j].type # "Connect" /\ q[j].stage = 0
  BY <1>1, <1>2, <1>9
<1>11. /\ Len(t) + 1 \in DOMAIN q /\ q[Len(t) + 1].type = mode
       /\ \A k \in 1..(Len(t) + 1) : q[k].type # "Disconnect"
  <2>1. \A k \in 1..(Len(t) + 1) : q[k] = C \/ q[k] = S \/ q[k] = A \/ q[k] = W
    BY <1>7, <1>8
  <2> QED
    BY <1>1, <1>2, <1>7, <1>8, <2>1
<1>12. q # <<>> /\ q[1] = C /\ q[Len(q)].type = "Disconnect"
  BY <1>1, <1>7, <1>8
<1>13. account.startTls => Len(q) > 1 /\ q[2].type = "StartTLS"
  BY <1>1, <1>7, <1>8
<1> QED
  BY <1>3, <1>8, <1>10, <1>11, <1>12, <1>13

\* What is to be sent is queued behind the connection, which is begun.
LEMMA Begins ==
    ASSUME NEW acc, NEW c, Ready(c)
    PROVE  LET d == sendContinueGotPassword(c)
           IN  Live(d, acc) /\ d.told = <<>> /\ d.mode = c.mode /\ d.cancelled = "no" /\ ~d.waiting
<1> DEFINE C == Cmd("Connect")
           S == IF account.startTls THEN <<Cmd("StartTLS")>> ELSE <<>>
           A == IF account.auth THEN <<Cmd("Authenticate")>> ELSE <<>>
           R == <<Cmd(c.mode), Cmd("Disconnect")>>
           b == [c EXCEPT !.waiting = FALSE]
           e == Enqueue(b, "Connect", FALSE)
           q == Program(c.mode)
           d == sendContinueGotPassword(c)
<1>1. c \in Clients /\ c.queue = <<>> /\ ~c.inProgress /\ c.mode \in Mails
  BY DEF Ready
<1>2. C \in Commands /\ C.type = "Connect" /\ C.stage = 0
  BY CmdType DEF Types
<1>3. e = [c EXCEPT !.waiting = FALSE, !.queue = <<C>>, !.socket = "connecting",
                    !.inProgress = TRUE]
  <2> DEFINE f == [b EXCEPT !.queue = Append(@, C)]
  <2>1. f = [c EXCEPT !.waiting = FALSE, !.queue = <<C>>]
    <3>1. b.queue = <<>>
      BY <1>1 DEF Clients
    <3>2. Append(b.queue, C) = <<C>>
      <4> HIDE DEF C, b
      <4> QED
        BY <3>1
    <3> HIDE DEF C
    <3>3. f = [b EXCEPT !.queue = <<C>>]
      <4> HIDE DEF b
      <4> QED
        BY <3>2
    <3> QED
      BY <1>1, <3>3 DEF Clients
  <2>2. /\ f.inProgress = FALSE /\ f.queue = <<C>> /\ f.queue # <<>>
        /\ Head(f.queue).type = "Connect"
    <3> HIDE DEF C, f
    <3> QED
      BY <1>1, <1>2, <2>1 DEF Clients
  <2>3. e = processNextCommand(f, FALSE)
    <3>1. e = IF f.inProgress THEN f ELSE processNextCommand(f, FALSE)
      BY Zenon DEF Enqueue
    <3> HIDE DEF f, e
    <3> QED
      BY <2>2, <3>1
  <2> HIDE DEF f, e
  <2>4. e = [[f EXCEPT !.socket = "connecting"] EXCEPT !.inProgress = TRUE]
    BY <2>2, <2>3 DEF processNextCommand, StartHead
  <2> QED
    BY <1>1, <2>1, <2>4 DEF Clients
<1>4. d = [e EXCEPT !.queue = @ \o S \o A \o R]
  BY DEF sendContinueGotPassword
<1>5. d = [c EXCEPT !.waiting = FALSE, !.queue = q, !.socket = "connecting",
                    !.inProgress = TRUE]
  <2>1. <<C>> \o S \o A \o R = q
    BY DEF Program
  <2> HIDE DEF C, S, A, R, q, d, e
  <2> QED
    BY <1>1, <1>3, <1>4, <2>1 DEF Clients
<1>6. /\ q \in Seq(Commands) /\ q # <<>> /\ q[1] = C
      /\ q[Len(q)].type = "Disconnect"
      /\ \A j \in 2..Len(q) : q[j].type # "Connect" /\ q[j].stage = 0
      /\ \E j \in DOMAIN q : q[j].type = c.mode /\ \A k \in 1..j : q[k].type # "Disconnect"
      /\ account.startTls => Len(q) > 1 /\ q[2].type = "StartTLS"
  BY <1>1, ProgramRuns
<1> HIDE DEF q, d, e, C, S, A, R
<1>7. /\ d \in Clients /\ d.queue = q /\ d.socket = "connecting" /\ d.inProgress /\ ~d.waiting
      /\ d.told = <<>> /\ d.mode = c.mode /\ d.cancelled = "no" /\ ~d.failed
      /\ d.awaits = "nothing" /\ ~d.lineWithoutCommand
  BY <1>1, <1>5, <1>6 DEF Ready, Clients
<1>8. WellOrdered(d)
  BY <1>6, <1>7 DEF WellOrdered
<1>9. HeadType(d) = "Connect" /\ d.queue[1].stage = 0
  BY <1>2, <1>6, <1>7 DEF HeadType
<1>10. SecretsCovered(d)
  <2> SUFFICES ASSUME account.startTls, NEW j \in DOMAIN q, Secret(q[j])
               PROVE  TlsBefore(d, j)
    BY <1>7 DEF SecretsCovered
  <2>1. q[1].type = "Connect" /\ Len(q) \in Nat /\ DOMAIN q = 1..Len(q)
    BY <1>2, <1>6
  <2>2. j # 1 /\ j # 2
    BY <1>6, <2>1 DEF Secret, Mails
  <2> QED
    BY <1>6, <1>7, <2>1, <2>2 DEF TlsBefore
<1>11. Verdicts(d, acc)
  BY <1>1, <1>6, <1>7 DEF Verdicts, MailAhead
<1>12. Launched(d)
  BY <1>1, <1>7 DEF Launched, Mails
<1>13. Core(d, acc)
  BY <1>7, <1>8, <1>9, <1>10, <1>11, <1>12 DEF Core
<1>14. Live(d, acc)
  BY <1>7, <1>9, <1>13, Silent DEF Mails
<1> QED
  BY <1>7, <1>14 DEF d

\* One more command behind a queue which nothing empties any more.
LEMMA StuckQueue ==
    ASSUME NEW c \in Clients, c.socket = "closed", NEW type \in Types, NEW atOnce \in BOOLEAN,
           c.queue # <<>> => HeadType(c) = "Disconnect", c.queue = <<>> => type = "Disconnect"
    PROVE  LET d == Enqueue(c, type, atOnce)
           IN  /\ d \in Clients /\ d.queue # <<>> /\ HeadType(d) = "Disconnect"
               /\ d.socket = "closed" /\ d.awaits = c.awaits /\ d.mode = c.mode
               /\ d.waiting = c.waiting /\ d.cancelled = c.cancelled /\ d.failed = c.failed
               /\ d.told = c.told /\ d.lineWithoutCommand = c.lineWithoutCommand
<1> DEFINE C == Cmd(type)
           q == Append(c.queue, C)
           e == [c EXCEPT !.queue = Append(@, C)]
           f == [c EXCEPT !.queue = Append(@, C), !.inProgress = TRUE]
           d == Enqueue(c, type, atOnce)
<1>1. C \in Commands /\ C.type = type
  BY CmdType
<1>2. q \in Seq(Commands) /\ q # <<>> /\ Head(q) = q[1] /\ q[1].type = "Disconnect"
  <2>1. CASE c.queue = <<>>
    <3>1. q = <<C>>
      <4> HIDE DEF C
      <4> QED
        BY <2>1
    <3> HIDE DEF q, C
    <3> QED
      BY <1>1, <2>1, <3>1
  <2>2. CASE c.queue # <<>>
    <3> HIDE DEF C
    <3>1. c.queue \in Seq(Commands) /\ q \in Seq(Commands) /\ q # <<>> /\ q[1] = c.queue[1]
      BY <1>1, <2>2 DEF Clients
    <3> HIDE DEF q
    <3> QED
      BY <2>2, <3>1 DEF HeadType
  <2> QED
    BY <2>1, <2>2
<1>3. e.queue = q /\ e.inProgress = c.inProgress /\ e.socket = "closed"
  <2> HIDE DEF C
  <2> QED
    BY DEF Clients
<1>4. d = IF e.inProgress THEN e ELSE processNextCommand(e, atOnce)
  BY Zenon DEF Enqueue
<1>5. [e EXCEPT !.inProgress = TRUE] = f
  <2> HIDE DEF C
  <2> QED
    BY DEF Clients
<1> HIDE DEF d, e, q
<1>6. d = e \/ d = f
  <2>1. CASE e.inProgress
    BY <1>4, <2>1
  <2>2. CASE ~e.inProgress
    <3>1. e.queue # <<>> /\ Head(e.queue).type = "Disconnect" /\ ~Connected(e)
      BY <1>2, <1>3 DEF Connected
    <3>2. StartHead(e, atOnce) = e
      BY <3>1 DEF StartHead, sendQuit
    <3>3. processNextCommand(e, atOnce) = [StartHead(e, atOnce) EXCEPT !.inProgress = TRUE]
      BY <2>2, <3>1, Zenon DEF processNextCommand
    <3> QED
      BY <1>4, <1>5, <2>2, <3>2, <3>3
  <2> QED
    BY <2>1, <2>2
<1>7. \A r \in {e, f} :
         /\ r \in Clients /\ r.queue = q
         /\ r.socket = "closed" /\ r.awaits = c.awaits /\ r.mode = c.mode
         /\ r.waiting = c.waiting /\ r.cancelled = c.cancelled /\ r.failed = c.failed
         /\ r.told = c.told /\ r.lineWithoutCommand = c.lineWithoutCommand
  <2> HIDE DEF f
  <2>1. e = [c EXCEPT !.queue = q] /\ f = [c EXCEPT !.queue = q, !.inProgress = TRUE]
    BY DEF e, f, q
  <2> QED
    BY <1>2, <2>1 DEF Clients
<1> HIDE DEF f
<1>8. d \in {e, f}
  BY <1>6
<1>9. d.queue = q
  BY <1>7, <1>8
<1> QED
  BY <1>2, <1>7, <1>8, <1>9 DEF HeadType, d

\* The password of the next attempt finds a client which was cancelled while it waited.
LEMMA PasswordTooLate ==
    ASSUME NEW acc, NEW c, Stuck(c, acc), c.waiting
    PROVE  LET d == sendContinueGotPassword(c)
           IN  /\ Stuck(d, acc) /\ d.mode = c.mode /\ d.cancelled = c.cancelled /\ ~d.waiting
               /\ d.failed = c.failed /\ d.told = c.told
<1> DEFINE b == [c EXCEPT !.waiting = FALSE]
           e == Enqueue(b, "Connect", FALSE)
           S == IF account.startTls THEN <<Cmd("StartTLS")>> ELSE <<>>
           A == IF account.auth THEN <<Cmd("Authenticate")>> ELSE <<>>
           R == <<Cmd(c.mode), Cmd("Disconnect")>>
           q == e.queue \o S \o A \o R
           d == sendContinueGotPassword(c)
<1>1. /\ c \in Clients /\ c.socket = "closed" /\ c.queue # <<>> /\ HeadType(c) = "Disconnect"
      /\ c.cancelled = "asked" /\ c.failed /\ c.mode \in Mails
  BY DEF Stuck, Clients
<1>2. /\ b \in Clients /\ b.socket = "closed" /\ b.queue = c.queue
      /\ b.awaits = c.awaits /\ b.mode = c.mode /\ ~b.waiting /\ b.cancelled = c.cancelled
      /\ b.failed = c.failed /\ b.told = c.told /\ b.lineWithoutCommand = c.lineWithoutCommand
  BY <1>1 DEF Clients
<1>3. b.queue # <<>> /\ HeadType(b) = "Disconnect" /\ "Connect" \in Types /\ FALSE \in BOOLEAN
  BY <1>1, <1>2 DEF HeadType, Types
<1> HIDE DEF b
<1>4. /\ e \in Clients /\ e.queue # <<>> /\ HeadType(e) = "Disconnect"
      /\ e.socket = "closed" /\ e.awaits = b.awaits /\ e.mode = b.mode
      /\ e.waiting = b.waiting /\ e.cancelled = b.cancelled /\ e.failed = b.failed
      /\ e.told = b.told /\ e.lineWithoutCommand = b.lineWithoutCommand
  BY <1>2, <1>3, StuckQueue
<1>5. d = [e EXCEPT !.queue = q]
  BY DEF sendContinueGotPassword, b
<1> HIDE DEF e
<1>6. S \in Seq(Commands) /\ A \in Seq(Commands) /\ R \in Seq(Commands)
  <2>1. \A type \in {"StartTLS", "Authenticate", "Disconnect", c.mode} : Cmd(type) \in Commands
    BY <1>1, CmdType DEF Types, Mails
  <2>2. <<>> \in Seq(Commands)
    OBVIOUS
  <2> QED
    BY <2>1, <2>2
<1> HIDE DEF S, A, R
<1>7. e.queue \in Seq(Commands)
  BY <1>4 DEF Clients
<1>8. q \in Seq(Commands) /\ q # <<>> /\ q[1] = e.queue[1]
  <2> DEFINE s == e.queue \o S
             t == s \o A
  <2>1. s \in Seq(Commands) /\ s # <<>> /\ s[1] = e.queue[1]
    BY <1>4, <1>6, <1>7
  <2> HIDE DEF s
  <2>2. t \in Seq(Commands) /\ t # <<>> /\ t[1] = s[1]
    BY <1>6, <2>1
  <2> HIDE DEF t
  <2>3. t \o R \in Seq(Commands) /\ t \o R # <<>> /\ (t \o R)[1] = t[1]
    BY <1>6, <2>2
  <2> QED
    BY <2>1, <2>2, <2>3 DEF s, t
<1> HIDE DEF q, d
<1>9. /\ d \in Clients /\ d.queue = q /\ d.socket = e.socket /\ d.awaits = e.awaits
      /\ d.mode = e.mode /\ d.waiting = e.waiting /\ d.cancelled = e.cancelled
      /\ d.failed = e.failed /\ d.told = e.told /\ d.lineWithoutCommand = e.lineWithoutCommand
  BY <1>4, <1>5, <1>8 DEF Clients
<1>10. HeadType(d) = "Disconnect" /\ d.queue # <<>>
  BY <1>4, <1>8, <1>9 DEF HeadType
<1>11. Stuck(d, acc)
  BY <1>1, <1>2, <1>4, <1>9, <1>10 DEF Stuck
<1> QED
  BY <1>2, <1>4, <1>9, <1>11 DEF d

\* cancel() for a client which is stuck, or has not begun: QUIT is put in a queue which
\* nothing empties.
LEMMA QuitsInVain ==
    ASSUME NEW c \in Clients, c.socket = "closed", c.queue # <<>> => HeadType(c) = "Disconnect",
           NEW how \in {"asked", "late"}, NEW atOnce \in BOOLEAN
    PROVE  LET d == Enqueue([c EXCEPT !.cancelled = how], "Disconnect", atOnce)
           IN  /\ d \in Clients /\ d.queue # <<>> /\ HeadType(d) = "Disconnect"
               /\ d.socket = "closed" /\ d.awaits = c.awaits /\ d.mode = c.mode
               /\ d.waiting = c.waiting /\ d.cancelled = how /\ d.failed = c.failed
               /\ d.told = c.told /\ d.lineWithoutCommand = c.lineWithoutCommand
<1> DEFINE b == [c EXCEPT !.cancelled = how]
<1>1. /\ b \in Clients /\ b.socket = "closed" /\ b.queue = c.queue
      /\ b.awaits = c.awaits /\ b.mode = c.mode /\ b.waiting = c.waiting /\ b.cancelled = how
      /\ b.failed = c.failed /\ b.told = c.told /\ b.lineWithoutCommand = c.lineWithoutCommand
  BY DEF Clients
<1>2. "Disconnect" \in Types /\ (b.queue # <<>> => HeadType(b) = "Disconnect")
  BY <1>1 DEF HeadType, Types
<1> HIDE DEF b
<1> DEFINE d == Enqueue(b, "Disconnect", atOnce)
<1>3. /\ d \in Clients /\ d.queue # <<>> /\ HeadType(d) = "Disconnect"
      /\ d.socket = "closed" /\ d.awaits = b.awaits /\ d.mode = b.mode
      /\ d.waiting = b.waiting /\ d.cancelled = b.cancelled /\ d.failed = b.failed
      /\ d.told = b.told /\ d.lineWithoutCommand = b.lineWithoutCommand
  BY <1>1, <1>2, StuckQueue
<1> HIDE DEF d
<1> QED
  BY <1>1, <1>3 DEF d, b

LEMMA CancelWaiting ==
    ASSUME NEW acc, NEW c, Idle(c), c.waiting, NEW atOnce \in BOOLEAN
    PROVE  LET d == Enqueue([c EXCEPT !.cancelled = "asked"], "Disconnect", atOnce)
               r == handleError(d)
           IN  /\ ~d.failed /\ Stuck(r, acc) /\ r.mode = c.mode /\ r.waiting = c.waiting
               /\ r.cancelled = "asked" /\ r.told = <<"error">>
<1> DEFINE d == Enqueue([c EXCEPT !.cancelled = "asked"], "Disconnect", atOnce)
           r == handleError(d)
<1>1. /\ c \in Clients /\ c.socket = "closed" /\ c.queue = <<>> /\ c.awaits = "nothing"
      /\ ~c.lineWithoutCommand /\ c.told = <<>> /\ ~c.failed /\ c.mode # "none"
  BY DEF Idle
<1>2. /\ d \in Clients /\ d.queue # <<>> /\ HeadType(d) = "Disconnect"
      /\ d.socket = "closed" /\ d.awaits = c.awaits /\ d.mode = c.mode
      /\ d.waiting = c.waiting /\ d.cancelled = "asked" /\ d.failed = c.failed
      /\ d.told = c.told /\ d.lineWithoutCommand = c.lineWithoutCommand
  BY <1>1, QuitsInVain, ZenonT(40)
<1> HIDE DEF d
<1>3. r = [d EXCEPT !.failed = TRUE, !.told = <<"error">>]
  BY <1>1, <1>2, OneVerdict, ZenonT(40) DEF handleError, Tell, Clients
<1> HIDE DEF r
<1>4. /\ r \in Clients /\ r.queue = d.queue
      /\ r.socket = d.socket /\ r.awaits = d.awaits /\ r.mode = d.mode
      /\ r.waiting = d.waiting /\ r.cancelled = d.cancelled /\ r.failed
      /\ r.told = <<"error">> /\ r.lineWithoutCommand = d.lineWithoutCommand
  BY <1>2, <1>3, OneVerdict DEF Clients
<1>5. HeadType(r) = "Disconnect"
  BY <1>2, <1>4 DEF HeadType
<1>6. Stuck(r, acc)
  BY <1>1, <1>2, <1>4, <1>5 DEF Stuck
<1> QED
  BY <1>1, <1>2, <1>4, <1>6 DEF d, r

LEMMA CancelStuck ==
    ASSUME NEW acc, NEW c, Stuck(c, acc), c.cancelled = "no", c.failed, NEW atOnce \in BOOLEAN
    PROVE  LET d == Enqueue([c EXCEPT !.cancelled = "late"], "Disconnect", atOnce)
           IN  /\ d.failed /\ Stuck(d, acc) /\ d.mode = c.mode /\ d.waiting = c.waiting
               /\ d.cancelled = "late" /\ d.told = c.told
<1> DEFINE d == Enqueue([c EXCEPT !.cancelled = "late"], "Disconnect", atOnce)
<1>1. /\ c \in Clients /\ c.socket = "closed" /\ c.awaits = "nothing" /\ ~c.lineWithoutCommand
      /\ c.mode # "none" /\ (c.queue # <<>> => HeadType(c) = "Disconnect") /\ ~c.waiting
      /\ c.told # <<>> /\ \A i \in DOMAIN c.told : c.told[i] = "error"
  BY DEF Stuck
<1>2. /\ d \in Clients /\ d.queue # <<>> /\ HeadType(d) = "Disconnect"
      /\ d.socket = "closed" /\ d.awaits = c.awaits /\ d.mode = c.mode
      /\ d.waiting = c.waiting /\ d.cancelled = "late" /\ d.failed = c.failed
      /\ d.told = c.told /\ d.lineWithoutCommand = c.lineWithoutCommand
  BY <1>1, QuitsInVain, ZenonT(40)
<1> HIDE DEF d
<1>3. Stuck(d, acc)
  BY <1>1, <1>2 DEF Stuck
<1> QED
  BY <1>2, <1>3 DEF d

\* cancel() for a client whose connection stands: one more QUIT at the end.
LEMMA CancelLive ==
    ASSUME NEW acc, NEW c, Live(c, acc), c.failed, NEW atOnce \in BOOLEAN
    PROVE  LET d == Enqueue([c EXCEPT !.cancelled = "late"], "Disconnect", atOnce)
           IN  /\ d.failed /\ Live(d, acc) /\ d.mode = c.mode /\ d.waiting = c.waiting
               /\ d.cancelled = "late" /\ d.told = c.told
<1> DEFINE C == Cmd("Disconnect")
           q == Append(c.queue, C)
           b == [c EXCEPT !.cancelled = "late"]
           e == [b EXCEPT !.queue = Append(@, C)]
           d == Enqueue(b, "Disconnect", atOnce)
<1>1. /\ c \in Clients /\ c.inProgress /\ WellOrdered(c) /\ SecretsCovered(c)
      /\ c.queue \in Seq(Commands) /\ c.queue # <<>> /\ Len(c.queue) \in Nat
      /\ DOMAIN c.queue = 1..Len(c.queue)
  BY DEF Live, Core, WellOrdered, Clients
<1>2. C \in Commands /\ C.type = "Disconnect" /\ C.stage = 0
  BY CmdType DEF Types
<1>3. /\ q \in Seq(Commands) /\ q # <<>> /\ Len(q) = Len(c.queue) + 1
      /\ DOMAIN q = 1..(Len(c.queue) + 1) /\ q[Len(q)] = C
      /\ \A j \in DOMAIN c.queue : q[j] = c.queue[j]
  <2> HIDE DEF C
  <2>1. q \in Seq(Commands) /\ Len(q) = Len(c.queue) + 1
    BY <1>1, <1>2
  <2>2. q[Len(c.queue) + 1] = C /\ \A j \in DOMAIN c.queue : q[j] = c.queue[j]
    BY <1>1, <1>2
  <2> HIDE DEF q
  <2> QED
    BY <1>1, <2>1, <2>2
<1>4. d = IF e.inProgress THEN e ELSE processNextCommand(e, atOnce)
  BY Zenon DEF Enqueue
<1>5. e = [c EXCEPT !.cancelled = "late", !.queue = q]
  <2>1. b.queue = c.queue
    BY <1>1 DEF Clients
  <2>2. e = [b EXCEPT !.queue = q]
    <3> HIDE DEF b, C
    <3> QED
      BY <2>1
  <2> HIDE DEF q
  <2> QED
    BY <1>1, <2>2 DEF Clients
<1> HIDE DEF C, q, b, e, d
<1>6. /\ e \in Clients /\ e.queue = q /\ e.inProgress /\ e.mode = c.mode
      /\ e.waiting = c.waiting /\ e.cancelled = "late" /\ e.failed = c.failed
      /\ e.told = c.told /\ e.lineWithoutCommand = c.lineWithoutCommand
      /\ e.socket = c.socket /\ e.awaits = c.awaits /\ e.encrypted = c.encrypted
  BY <1>1, <1>3, <1>5 DEF Clients
<1>7. d = e
  BY <1>4, <1>6
<1>8. HeadType(e) = HeadType(c) /\ e.queue[1] = c.queue[1]
  BY <1>1, <1>3, <1>6 DEF HeadType
<1>9. WellOrdered(e)
  <2>1. \A j \in 2..Len(q) : j \in 2..Len(c.queue) \/ q[j] = C
    BY <1>1, <1>3
  <2>2. \A j \in 2..Len(c.queue) : q[j] = c.queue[j]
    BY <1>1, <1>3
  <2>3. \A j \in 2..Len(q) : q[j].type # "Connect" /\ q[j].stage = 0
    BY <1>1, <1>2, <2>1, <2>2 DEF WellOrdered
  <2> QED
    BY <1>2, <1>3, <1>6, <2>3 DEF WellOrdered
<1>10. SecretsCovered(e)
  <2> SUFFICES ASSUME account.startTls, NEW j \in DOMAIN q, Secret(q[j])
               PROVE  TlsBefore(e, j) \/ (e.encrypted /\ HeadType(e) # "Connect")
    BY <1>6 DEF SecretsCovered
  <2>1. j \in DOMAIN c.queue
    BY <1>1, <1>2, <1>3 DEF Secret, Mails
  <2>2. TlsBefore(c, j) \/ (c.encrypted /\ HeadType(c) # "Connect")
    BY <1>1, <1>3, <2>1 DEF SecretsCovered
  <2>3. TlsBefore(c, j) => TlsBefore(e, j)
    <3>1. \A k \in 1..(j - 1) : k \in DOMAIN c.queue
      BY <1>1, <2>1
    <3> QED
      BY <1>3, <1>6, <3>1 DEF TlsBefore
  <2> QED
    BY <1>6, <1>8, <2>2, <2>3
<1>11. Verdicts(e, acc)
  BY <1>6 DEF Live, Core, Verdicts
<1>12. Launched(e) /\ Launched(c)
  BY <1>6 DEF Live, Core, Launched
<1>13. Core(e, acc)
  BY <1>6, <1>8, <1>9, <1>10, <1>11, <1>12 DEF Live, Core
<1>14. Live(e, acc)
  BY <1>6, <1>8, <1>13 DEF Live
<1> QED
  BY <1>6, <1>7, <1>14 DEF d, b

-----------------------------------------------------------------------------
(* What the library never changes: whose attempt it is, and that it failed  *)

Marks == {"queue", "inProgress", "socket", "authModes", "awaits", "mode", "waiting", "failed",
          "cancelled", "told", "lineWithoutCommand"}

Keeps(c, r) ==
    /\ Marks \subseteq DOMAIN r
    /\ r.mode = c.mode /\ r.waiting = c.waiting /\ r.cancelled = c.cancelled
    /\ c.failed => r.failed

LEMMA KeepsChained ==
    ASSUME NEW c, NEW d, NEW e, Keeps(c, d), Keeps(d, e) PROVE Keeps(c, e)
BY DEF Keeps

LEMMA KeepsItself ==
    ASSUME NEW c, Marks \subseteq DOMAIN c PROVE Keeps(c, c)
BY DEF Keeps

\* Every other field may change.
LEMMA KeepsOthers ==
    ASSUME NEW c, Marks \subseteq DOMAIN c, NEW x
    PROVE  /\ Keeps(c, [c EXCEPT !.queue = x]) /\ Keeps(c, [c EXCEPT !.inProgress = x])
           /\ Keeps(c, [c EXCEPT !.socket = x]) /\ Keeps(c, [c EXCEPT !.awaits = x])
           /\ Keeps(c, [c EXCEPT !.authModes = x]) /\ Keeps(c, [c EXCEPT !.told = x])
           /\ Keeps(c, [c EXCEPT !.failed = TRUE])
           /\ Keeps(c, [c EXCEPT !.lineWithoutCommand = x])
BY DEF Keeps, Marks

LEMMA KeepsTold ==
    ASSUME NEW c, Marks \subseteq DOMAIN c, NEW verdict
    PROVE  /\ Keeps(c, Tell(c, verdict)) /\ Keeps(c, handleError(c))
           /\ Keeps(c, handleDone(c, TRUE)) /\ Keeps(c, handleDone(c, FALSE))
<1> DEFINE d == [c EXCEPT !.failed = TRUE]
<1>1. Keeps(c, Tell(c, verdict)) /\ Keeps(c, Tell(c, "sent"))
  BY KeepsOthers DEF Tell
<1>2. Keeps(c, d) /\ Marks \subseteq DOMAIN d
  BY KeepsOthers
<1> HIDE DEF d
<1>3. Keeps(d, Tell(d, "error"))
  BY <1>2, KeepsOthers DEF Tell
<1>4. Keeps(c, Tell(d, "error"))
  BY <1>2, <1>3, KeepsChained
<1>5. handleError(c) = Tell(d, "error")
  BY DEF handleError, d
<1>6. handleDone(c, TRUE) = IF c.failed THEN c ELSE Tell(c, "sent")
  BY DEF handleDone
<1>7. handleDone(c, FALSE) = IF c.failed THEN c ELSE Tell(d, "error")
  BY DEF handleDone, d
<1> QED
  BY <1>1, <1>4, <1>5, <1>6, <1>7, KeepsItself

LEMMA KeepsDisconnected ==
    ASSUME NEW c, Marks \subseteq DOMAIN c PROVE Keeps(c, onDisconnected(c))
<1> DEFINE d == [c EXCEPT !.inProgress = FALSE]
           e == [d EXCEPT !.queue = <<>>]
           T == handleDone(d, TRUE)
           F == handleDone(e, FALSE)
<1>1. Keeps(c, d) /\ Marks \subseteq DOMAIN d
  BY KeepsOthers
<1>2. onDisconnected(c) = IF c.queue = <<>> \/ Head(c.queue).type = "Disconnect" THEN T ELSE F
  BY Zenon DEF onDisconnected
<1> HIDE DEF d
<1>3. Keeps(d, e) /\ Marks \subseteq DOMAIN e /\ Keeps(d, T)
  BY <1>1, KeepsOthers, KeepsTold
<1> HIDE DEF e, T
<1>4. Keeps(e, F)
  BY <1>3, KeepsTold
<1> HIDE DEF F
<1> QED
  BY <1>1, <1>2, <1>3, <1>4, KeepsChained

LEMMA KeepsClosed ==
    ASSUME NEW c, Marks \subseteq DOMAIN c
    PROVE  /\ Keeps(c, [c EXCEPT !.socket = "closed", !.awaits = "nothing"])
           /\ Keeps(c, [c EXCEPT !.socket = "closing", !.awaits = "QUIT"])
BY DEF Keeps, Marks

LEMMA KeepsError ==
    ASSUME NEW c, Marks \subseteq DOMAIN c PROVE Keeps(c, onError(c))
<1> DEFINE d == [c EXCEPT !.socket = "closed", !.awaits = "nothing"]
           e == handleError(d)
           f == onDisconnected(e)
           g == onDisconnected(f)
<1>1. Keeps(c, d) /\ onError(c) = IF Connected(c) THEN g ELSE f
  BY KeepsClosed DEF onError
<1> HIDE DEF d
<1>2. Keeps(d, e)
  BY <1>1, KeepsTold DEF Keeps
<1> HIDE DEF e
<1>3. Keeps(e, f)
  BY <1>2, KeepsDisconnected DEF Keeps
<1> HIDE DEF f
<1>4. Keeps(f, g)
  BY <1>3, KeepsDisconnected DEF Keeps
<1> HIDE DEF g
<1> QED
  BY <1>1, <1>2, <1>3, <1>4, KeepsChained

LEMMA KeepsSaid ==
    ASSUME NEW c, Marks \subseteq DOMAIN c, NEW request, NEW stage
    PROVE  Keeps(c, Say(c, request)) /\ Keeps(c, Stage(c, stage, request))
<1> DEFINE d == [c EXCEPT !.queue[1].stage = stage]
<1>1. \A x : Marks \subseteq DOMAIN x => Keeps(x, Say(x, request))
  BY KeepsItself, KeepsOthers DEF Say
<1>2. Keeps(c, d)
  BY DEF Keeps, Marks
<1>3. Stage(c, stage, request) = Say(d, request)
  BY DEF Stage
<1> HIDE DEF d
<1>4. Keeps(d, Say(d, request))
  BY <1>1, <1>2 DEF Keeps
<1> QED
  BY <1>1, <1>2, <1>3, <1>4, KeepsChained

LEMMA KeepsStarted ==
    ASSUME NEW c, Marks \subseteq DOMAIN c, NEW atOnce \in BOOLEAN,
           Head(c.queue).type \in Types
    PROVE  Keeps(c, StartHead(c, atOnce))
<1> DEFINE type == Head(c.queue).type
           a == [c EXCEPT !.queue[1].mode = ChosenMode(c)]
           closed == [c EXCEPT !.socket = "closed", !.awaits = "nothing"]
           r == StartHead(c, atOnce)
<1>1. CASE type = "Connect"
  <2>1. r = [c EXCEPT !.socket = "connecting"]
    BY <1>1 DEF StartHead
  <2>2. Keeps(c, [c EXCEPT !.socket = "connecting"])
    BY DEF Keeps, Marks
  <2> QED
    BY <2>1, <2>2, Zenon
<1>2. CASE type = "Disconnect"
  <2>1. r = IF ~Connected(c) THEN c
            ELSE IF atOnce THEN onDisconnected(closed)
            ELSE [c EXCEPT !.socket = "closing", !.awaits = "QUIT"]
    BY <1>2 DEF StartHead, sendQuit
  <2>2. Keeps(c, closed)
    BY KeepsClosed
  <2> HIDE DEF closed, r
  <2>3. Keeps(closed, onDisconnected(closed))
    BY <2>2, KeepsDisconnected DEF Keeps
  <2>4. Keeps(c, onDisconnected(closed))
    BY <2>2, <2>3, KeepsChained
  <2> QED
    BY <2>1, <2>4, KeepsItself, KeepsClosed DEF r
<1>3. CASE type = "StartTLS"
  <2>1. r = Say(c, "STARTTLS")
    BY <1>3 DEF StartHead
  <2> QED
    BY <2>1, KeepsSaid
<1>4. CASE type = "Authenticate"
  <2>1. r = IF ChosenMode(c) = "Any" THEN handleDone(c, FALSE) ELSE Say(a, "AUTH")
    BY <1>4 DEF StartHead, handleDone
  <2>2. Keeps(c, a)
    BY DEF Keeps, Marks
  <2> HIDE DEF a, r
  <2>3. Keeps(a, Say(a, "AUTH"))
    BY <2>2, KeepsSaid DEF Keeps
  <2>4. Keeps(c, Say(a, "AUTH")) /\ Keeps(c, handleDone(c, FALSE))
    BY <2>2, <2>3, KeepsChained, KeepsTold
  <2> QED
    BY <2>1, <2>4 DEF r
<1>5. CASE type \in Mails
  <2>1. r = Say(c, "MAIL")
    BY <1>5 DEF StartHead, Mails
  <2> QED
    BY <2>1, KeepsSaid
<1> QED
  BY <1>1, <1>2, <1>3, <1>4, <1>5 DEF Types, Mails

LEMMA KeepsNext ==
    ASSUME NEW c, Marks \subseteq DOMAIN c, c.queue \in Seq(Commands), NEW atOnce \in BOOLEAN
    PROVE  Keeps(c, processNextCommand(c, atOnce))
<1> DEFINE d == IF c.inProgress /\ c.queue # <<>> THEN [c EXCEPT !.queue = Tail(@)] ELSE c
           e == [d EXCEPT !.inProgress = FALSE]
           F == handleDone(e, FALSE)
           s == StartHead(d, atOnce)
           n == [s EXCEPT !.inProgress = TRUE]
<1>1. Keeps(c, d) /\ d.queue \in Seq(Commands)
  <2> DEFINE t == [c EXCEPT !.queue = Tail(@)]
  <2>1. Keeps(c, t)
    BY KeepsOthers
  <2>2. c.queue # <<>> => t.queue \in Seq(Commands)
    BY DEF Marks
  <2>3. d = c \/ (d = t /\ c.queue # <<>>)
    OBVIOUS
  <2> HIDE DEF d, t
  <2> QED
    BY <2>1, <2>2, <2>3, KeepsItself
<1>2. processNextCommand(c, atOnce) = (IF d.queue = <<>> THEN F ELSE n)
  BY Zenon DEF processNextCommand
<1> HIDE DEF d
<1>3. CASE d.queue = <<>>
  <2>1. Keeps(d, e)
    BY <1>1, KeepsOthers DEF Keeps
  <2> HIDE DEF e
  <2>2. Keeps(e, F)
    BY <2>1, KeepsTold DEF Keeps
  <2> HIDE DEF F
  <2> QED
    BY <1>1, <1>2, <1>3, <2>1, <2>2, KeepsChained
<1>4. CASE d.queue # <<>>
  <2>1. Head(d.queue).type \in Types
    <3>1. Head(d.queue) \in Commands
      BY <1>1, <1>4
    <3> QED
      BY <3>1 DEF Commands
  <2>2. Keeps(d, s)
    BY <1>1, <2>1, KeepsStarted DEF Keeps
  <2> HIDE DEF s
  <2>3. Keeps(s, n)
    BY <2>2, KeepsOthers DEF Keeps
  <2> HIDE DEF n
  <2> QED
    BY <1>1, <1>2, <1>4, <2>2, <2>3, KeepsChained
<1> QED
  BY <1>3, <1>4

LEMMA KeepsRcpt ==
    ASSUME NEW c, Marks \subseteq DOMAIN c PROVE Keeps(c, sendRcpt(c))
<1> DEFINE left == Head(c.queue).rcpts - 1
           d == [c EXCEPT !.queue[1].rcpts = left]
           e == [d EXCEPT !.queue[1].stage = 1]
           f == IF left = 0 THEN e ELSE d
<1>1. Keeps(c, d) /\ Keeps(d, e)
  BY DEF Keeps, Marks
<1>2. sendRcpt(c) = Say(f, "RCPT")
  BY Zenon DEF sendRcpt
<1>3. Keeps(c, f)
  <2> HIDE DEF d, e
  <2> QED
    BY <1>1, KeepsChained
<1> HIDE DEF f
<1>4. Keeps(f, Say(f, "RCPT"))
  BY <1>3, KeepsSaid DEF Keeps
<1> QED
  BY <1>2, <1>3, <1>4, KeepsChained

\* What an answer makes of the client, whatever it is.
LEMMA KeepsRead ==
    ASSUME NEW c \in Clients, c.queue # <<>>, NEW status \in Nat,
           NEW offered \in SUBSET AuthModes, NEW atOnce \in BOOLEAN,
           HeadType(c) \in Mails /\ c.queue[1].stage = 0 => status # 421
    PROVE  Keeps(c, readFromSocket(c, status, offered, atOnce))
<1> DEFINE d == [c EXCEPT !.awaits = "nothing"]
           o == [d EXCEPT !.authModes = @ \cup offered]
           f == handleDone(d, FALSE)
           fn == processNextCommand(f, atOnce)
           on == processNextCommand(o, atOnce)
           dn == processNextCommand(d, atOnce)
           head == c.queue[1]
           r == readFromSocket(c, status, offered, atOnce)
<1>1. /\ Keeps(c, d) /\ Marks \subseteq DOMAIN d /\ d.queue = c.queue
      /\ c.queue \in Seq(Commands) /\ Head(c.queue) = head /\ head.type \in Types
  <2>1. Marks \subseteq DOMAIN c /\ c.queue \in Seq(Commands) /\ head \in Commands
    BY DEF Clients, Marks
  <2>2. Keeps(c, d) /\ d.queue = c.queue
    BY <2>1, KeepsOthers DEF Marks
  <2> HIDE DEF d
  <2> QED
    BY <2>1, <2>2 DEF Keeps, Commands
<1>2. /\ head.type = "Connect" => r = readConnect(d, status, offered, atOnce)
      /\ head.type = "StartTLS" => r = readStartTLS(d, status, offered, atOnce)
      /\ head.type = "Authenticate" => r = readAuthenticate(d, status, atOnce)
      /\ head.type \in Mails => r = readMail(d, status, atOnce)
      /\ head.type = "Disconnect" => r = d
  BY <1>1 DEF readFromSocket, Mails
<1> HIDE DEF d, r
<1>3. Keeps(d, d) /\ Keeps(d, dn)
  BY <1>1, KeepsItself, KeepsNext
<1>4. Keeps(d, on)
  <2>1. Keeps(d, o) /\ o.queue = d.queue
    BY <1>1, KeepsOthers, ZenonT(40) DEF Marks
  <2> HIDE DEF o
  <2>2. Keeps(o, on)
    BY <1>1, <2>1, KeepsNext DEF Keeps
  <2> HIDE DEF on
  <2> QED
    BY <2>1, <2>2, KeepsChained
<1>5. Keeps(d, f) /\ Keeps(d, fn)
  <2>1. Keeps(d, f)
    BY <1>1, KeepsTold
  <2>2. f.queue = d.queue
    BY <1>1 DEF handleDone, Tell, Marks
  <2> HIDE DEF f
  <2>3. Keeps(f, fn)
    BY <1>1, <2>1, <2>2, KeepsNext DEF Keeps
  <2> HIDE DEF fn
  <2> QED
    BY <2>1, <2>3, KeepsChained
<1>6. \A request, stage : Keeps(d, Say(d, request)) /\ Keeps(d, Stage(d, stage, request))
  BY <1>1, KeepsSaid
<1>7. Keeps(d, sendRcpt(d))
  BY <1>1, KeepsRcpt
<1>8. Head(d.queue) = head
  BY <1>1
<1> HIDE DEF o, f, fn, on, dn
<1>9. CASE head.type = "Connect"
  <2>1. readConnect(d, status, offered, atOnce) \in
          {Stage(d, 1, "EHLO"), on, dn, Stage(d, 2, "HELO"), d}
    BY DEF readConnect, on, o, dn
  <2> QED
    BY <1>1, <1>2, <1>3, <1>4, <1>6, <1>9, <2>1, KeepsChained DEF r
<1>10. CASE head.type = "StartTLS"
  <2>1. readStartTLS(d, status, offered, atOnce) \in {Say(d, "handshake"), on, f}
    BY DEF readStartTLS, on, o, f, handleDone
  <2> QED
    BY <1>1, <1>2, <1>4, <1>5, <1>6, <1>10, <2>1, KeepsChained DEF r
<1>11. CASE head.type = "Authenticate"
  <2>1. readAuthenticate(d, status, atOnce) \in
          {Stage(d, 1, "credentials"), Say(d, "credentials"), dn, f}
    BY DEF readAuthenticate, dn, f, handleDone
  <2> QED
    BY <1>1, <1>2, <1>3, <1>5, <1>6, <1>11, <2>1, KeepsChained DEF r
<1>12. CASE head.type \in Mails
  <2>1. readMail(d, status, atOnce) \in
          {sendRcpt(d), Stage(d, 2, "BURL"), Stage(d, 2, "DATA"), Stage(d, 3, "content"), dn, fn}
    <3>1. ~(head.stage = 0 /\ status = 421)
      BY <1>12 DEF HeadType
    <3> DEFINE m == readMail(d, status, atOnce)
               next(x) == processNextCommand(x, atOnce)
               fail(x) == next(handleDone(x, FALSE))
               h == Head(d.queue)
               e == IF h.stage = 0 /\ status = 421 THEN next(d) ELSE d
    <3>2. m = CASE h.stage = 0 /\ status = 250 -> sendRcpt(e)
                [] h.stage = 1 /\ status = 250 ->
                       Stage(e, 2, IF h.type = "MailBurl" THEN "BURL" ELSE "DATA")
                [] h.stage = 2 /\ status = 354 /\ ~(h.type = "MailBurl") ->
                       Stage(e, 3, "content")
                [] status = 250 /\ h.stage = (IF h.type = "MailBurl" THEN 2 ELSE 3) -> next(e)
                [] OTHER -> fail(e)
      BY Zenon DEF readMail
    <3>3. e = d
      BY <1>8, <3>1
    <3>4. next(d) = dn /\ fail(d) = fn
      BY Zenon DEF dn, fn, f
    <3> HIDE DEF next, fail, e, h, m
    <3> QED
      BY <3>2, <3>3, <3>4 DEF m
  <2> QED
    BY <1>1, <1>2, <1>3, <1>5, <1>6, <1>7, <1>12, <2>1, KeepsChained DEF r
<1>13. CASE head.type = "Disconnect"
  BY <1>1, <1>2, <1>13 DEF r
<1> QED
  BY <1>1, <1>9, <1>10, <1>11, <1>12, <1>13 DEF Types, Mails

-----------------------------------------------------------------------------
(* The steps of the library                                                 *)

\* A step of a client whose connection stands, or is being made: it goes on, or is over.
LibraryStep ==
    /\ Live(client, server.accepted) /\ Keeps(client, client')
    /\ Live(client', server.accepted) \/ Stuck(client', server.accepted)
    /\ server'.accepted = server.accepted
    /\ server'.hasContent => Launched(client')
    /\ server' \in [hasContent : BOOLEAN, accepted : BOOLEAN, challenged : BOOLEAN]

LEMMA InvLive ==
    ASSUME Inv, client.socket # "closed"
    PROVE  /\ Live(client, server.accepted) /\ Core(client, server.accepted)
           /\ client \in Clients /\ Marks \subseteq DOMAIN client /\ Launched(client)
           /\ client.queue # <<>> /\ client.queue[1] \in Commands
           /\ server \in [hasContent : BOOLEAN, accepted : BOOLEAN, challenged : BOOLEAN]
<1>1. Live(client, server.accepted) /\ Core(client, server.accepted) /\ client \in Clients
  BY DEF Inv, Idle, Stuck, Live, Core
<1>2. Marks \subseteq DOMAIN client
  BY <1>1 DEF Clients, Marks
<1>3. client.queue # <<>> /\ client.queue[1] \in Commands
  BY <1>1 DEF Core, WellOrdered, Clients
<1> QED
  BY <1>1, <1>2, <1>3 DEF Core, Inv

\* A step which the server only looks at.
LEMMA SocketStep ==
    ASSUME Inv, client.socket # "closed", server' = server, Keeps(client, client'),
           Live(client', server.accepted) \/ Stuck(client', server.accepted)
    PROVE  LibraryStep
<1>1. Launched(client')
  BY InvLive DEF Launched, Keeps
<1> QED
  BY <1>1, InvLive DEF LibraryStep

LEMMA OnConnectedStep == ASSUME Inv, onConnected PROVE LibraryStep
<1> DEFINE d == [client EXCEPT !.socket = "open", !.awaits = "banner", !.authModes = {},
                               !.encrypted = account.encryptedConnect]
           acc == server.accepted
<1>1. client.socket = "connecting" /\ client' = d /\ server' = server
  BY DEF onConnected
<1>2. account.encryptedConnect \in BOOLEAN
  BY DEF Inv, Accounts
<1>3. Core(client, acc) /\ client \in Clients /\ Marks \subseteq DOMAIN client
  BY <1>1, InvLive
<1>4. /\ d \in Clients /\ d.queue = client.queue /\ d.mode = client.mode
      /\ d.waiting = client.waiting /\ d.cancelled = client.cancelled
      /\ d.lineWithoutCommand = client.lineWithoutCommand
      /\ d.inProgress = client.inProgress /\ d.socket = "open"
      /\ d.failed = client.failed /\ d.told = client.told /\ d.awaits = "banner"
  BY <1>2, <1>3 DEF Clients, Requests
<1>5. Keeps(client, d)
  BY <1>3 DEF Keeps, Marks
<1> HIDE DEF d, acc
<1>6. HeadType(client) = "Connect" /\ HeadType(d) = "Connect"
  BY <1>1, <1>3, <1>4 DEF Core, HeadType
<1>7. Verdicts(d, acc)
  BY <1>3, <1>4 DEF Core, Verdicts, MailAhead
<1>8. Core(d, acc)
  BY <1>1, <1>3, <1>4, <1>6, <1>7, CoreKept, SameQueue DEF Core
<1>9. Live(d, acc)
  BY <1>4, <1>6, <1>8 DEF Live, Awaited, Requests, Mails
<1> QED
  BY <1>1, <1>5, <1>9, SocketStep DEF acc

LEMMA BrokenStep ==
    ASSUME Inv, client.socket # "closed", client' = onError(client), server' = server
    PROVE  LibraryStep
<1>1. Stuck(client', server.accepted)
  BY InvLive, CoreTold, ErrorEnds DEF Core
<1>2. Keeps(client, client')
  BY InvLive, KeepsError
<1> QED
  BY <1>1, <1>2, SocketStep

LEMMA EncryptedStep == ASSUME Inv, encrypted PROVE LibraryStep
<1> DEFINE d == [client EXCEPT !.encrypted = TRUE]
           acc == server.accepted
           r == Stage(d, 1, "EHLO")
<1>1. client.awaits = "handshake" /\ client' = r /\ server' = server
  BY DEF encrypted
<1>2. client.socket # "closed"
  BY <1>1 DEF Inv, Idle, Stuck, Live, Core
<1>3. HeadType(client) = "StartTLS" /\ Connected(client)
  <2>1. HeadType(client) \in Types
    BY <1>2, InvLive DEF HeadType, Commands
  <2>2. client.socket # "connecting"
    BY <1>1, <1>2, InvLive DEF Live
  <2>3. client.socket \in {"closed", "connecting", "open", "closing"}
    BY <1>2, InvLive DEF Clients
  <2> QED
    BY <1>1, <1>2, <2>1, <2>2, <2>3, InvLive
    DEF Live, Awaited, Types, Mails, Connected, Commands, HeadType
<1>4. /\ d \in Clients /\ d.queue = client.queue /\ d.mode = client.mode
      /\ d.waiting = client.waiting /\ d.cancelled = client.cancelled
      /\ d.lineWithoutCommand = client.lineWithoutCommand
      /\ d.inProgress = client.inProgress /\ d.socket = client.socket
      /\ d.failed = client.failed /\ d.told = client.told /\ d.encrypted
  BY <1>2, InvLive DEF Clients
<1>5. Keeps(client, d)
  BY <1>2, InvLive DEF Keeps, Marks
<1> HIDE DEF d
<1>6. HeadType(d) = "StartTLS" /\ Connected(d)
  BY <1>3, <1>4 DEF HeadType, Connected
<1>7. Verdicts(d, acc)
  BY <1>2, <1>4, InvLive DEF Core, Verdicts, MailAhead
<1>8. Core(d, acc)
  BY <1>2, <1>4, <1>7, InvLive, CoreKept, SameQueue DEF Core
<1>9. Live(r, acc)
  <2>1. "EHLO" \in Awaited("StartTLS", 1)
    BY DEF Awaited, Requests, Mails
  <2> QED
    BY <1>4, <1>6, <1>8, <2>1, Staged
<1>10. Keeps(client, r)
  <2>1. Keeps(d, r)
    BY <1>5, KeepsSaid DEF Keeps
  <2> HIDE DEF r
  <2> QED
    BY <1>5, <2>1, KeepsChained
<1> QED
  BY <1>1, <1>2, <1>9, <1>10, SocketStep

LEMMA SslErrorsStep == ASSUME Inv, handleSslErrors PROVE LibraryStep
<1> DEFINE d == Tell(client, "error")
           told == Append(client.told, "error")
<1>1. client' = onError(d) /\ server' = server /\ client.socket # "closed"
  BY DEF handleSslErrors, Inv, Idle, Stuck, Live, Core
<1>2. told \in Seq({"sent", "error"}) /\ Errors(told)
  BY <1>1, InvLive, CoreTold, MoreErrors DEF Clients
<1>3. d = [client EXCEPT !.told = told]
  BY DEF Tell
<1> HIDE DEF d, told
<1>4. d \in Clients /\ Launched(d) /\ ~d.lineWithoutCommand /\ d.told = told
  BY <1>1, <1>2, <1>3, InvLive DEF Clients, Core, Launched
<1>5. Stuck(client', server.accepted)
  BY <1>1, <1>2, <1>4, ErrorEnds DEF Errors
<1>6. Keeps(client, d) /\ Keeps(d, onError(d))
  <2>1. Keeps(client, d)
    BY <1>1, <1>3, InvLive, KeepsOthers
  <2> QED
    BY <2>1, KeepsError DEF Keeps
<1>7. Keeps(client, client')
  BY <1>1, <1>6, KeepsChained
<1> QED
  BY <1>1, <1>5, <1>7, SocketStep

LEMMA DisconnectedStep == ASSUME Inv, disconnected PROVE LibraryStep
<1> DEFINE d == [client EXCEPT !.socket = "closed", !.awaits = "nothing"]
<1>1. client.socket = "closing" /\ client' = onDisconnected(d) /\ server' = server
  BY DEF disconnected
<1>2. HeadType(client) = "Disconnect"
  BY <1>1, InvLive DEF Core
<1>3. Stuck(client', server.accepted)
  BY <1>1, <1>2, InvLive, QuitEnds
<1>4. Keeps(client, d)
  BY <1>1, InvLive, KeepsClosed
<1> HIDE DEF d
<1>5. Keeps(d, onDisconnected(d))
  BY <1>4, KeepsDisconnected DEF Keeps
<1>6. Keeps(client, client')
  BY <1>1, <1>4, <1>5, KeepsChained
<1> QED
  BY <1>1, <1>3, <1>6, SocketStep

Fits(c, status, accepted) ==
    /\ status \in Nat
    /\ HeadType(c) \in Mails /\ c.queue[1].stage = 0 => status # 421
    /\ status = 250 /\ c.queue[1].stage = 2 /\ HeadType(c) = "MailBurl" => Taken(accepted)
    /\ status = 250 /\ c.queue[1].stage = 3 /\ HeadType(c) \in Mails => Taken(accepted)

\* A server which has answered a message has taken or refused it, and without early 421 does
\* not hang up on the sender.
LEMMA WhatIsAnswered ==
    ASSUME Inv, Early421 = FALSE, Connected(client), NEW status \in Answers
    PROVE  Fits(client, status, server.accepted)
<1>1. client.socket # "closed"
  BY DEF Connected
<1> DEFINE stage == client.queue[1].stage
           type == HeadType(client)
<1>2. /\ client.awaits \in Awaited(type, stage) /\ client.awaits \in Requests
      /\ Head(client.queue) = client.queue[1] /\ stage \in 0..3 /\ type \in Types
      /\ server.accepted \in BOOLEAN
  <2>1. client.queue \in Seq(Commands) /\ client.queue # <<>> /\ client.queue[1] \in Commands
    BY <1>1, InvLive DEF Clients
  <2>2. stage \in 0..3 /\ type \in Types
    BY <2>1 DEF Commands, HeadType
  <2>3. client.awaits \in Awaited(type, stage) /\ server.accepted \in BOOLEAN
    BY <1>1, InvLive DEF Live
  <2> QED
    BY <2>1, <2>2, <2>3 DEF Awaited
<1>3. status \in Nat
  BY <1>2 DEF Answers, Requests
<1>4. ASSUME type \in Mails, stage = 0 PROVE status # 421
  <2>1. client.awaits \in {"MAIL", "RCPT"}
    BY <1>2, <1>4 DEF Awaited
  <2>2. Answers = {250, 500}
    BY <1>2, <1>4, <2>1 DEF Answers
  <2> QED
    BY <2>2
<1>5. ASSUME status = 250, client.awaits \in {"content", "BURL"} PROVE Taken(server.accepted)
  <2>1. Answers = IF server.accepted THEN {250} ELSE {421, 500}
    BY <1>5 DEF Answers
  <2>2. server.accepted
    BY <1>5, <2>1
  <2> QED
    BY <1>2, <2>2 DEF Taken
<1>6. type = "MailBurl" /\ stage = 2 => client.awaits \in {"content", "BURL"}
  BY <1>2 DEF Awaited, Mails
<1>7. type \in Mails /\ stage = 3 => client.awaits \in {"content", "BURL"}
  BY <1>2 DEF Awaited, Mails
<1> QED
  BY <1>3, <1>4, <1>5, <1>6, <1>7 DEF Fits

LEMMA AnswerStep == ASSUME Inv, Early421 = FALSE, answer PROVE LibraryStep
<1> DEFINE acc == server.accepted
<1>1. PICK status \in Answers, offered \in SUBSET AuthModes, atOnce \in BOOLEAN :
         /\ offered = {} \/ (client.awaits = "EHLO" /\ status = 250)
         /\ client' = readFromSocket(client, status, offered, atOnce)
         /\ server' = [server EXCEPT
                          !.challenged = @ \/ (client.awaits = "credentials" /\ status = 334),
                          !.hasContent = client'.awaits \in {"content", "BURL"}]
  BY DEF answer
<1>2. Connected(client) /\ client.socket # "closed"
  BY DEF answer, Connected
<1>3. Fits(client, status, acc)
  BY <1>2, WhatIsAnswered
<1>4. Live(client, acc) /\ client \in Clients /\ client.queue # <<>>
  BY <1>2, InvLive
<1>5. /\ server' \in [hasContent : BOOLEAN, accepted : BOOLEAN, challenged : BOOLEAN]
      /\ server'.accepted = server.accepted
      /\ server'.hasContent => client'.awaits \in {"content", "BURL"}
  <2>1. server \in [hasContent : BOOLEAN, accepted : BOOLEAN, challenged : BOOLEAN]
    BY <1>2, InvLive
  <2> DEFINE challenged == server.challenged \/ (client.awaits = "credentials" /\ status = 334)
             content == client'.awaits \in {"content", "BURL"}
  <2>2. server' = [server EXCEPT !.challenged = challenged, !.hasContent = content]
    BY <1>1
  <2>3. challenged \in BOOLEAN /\ content \in BOOLEAN
    BY <2>1
  <2> HIDE DEF challenged, content
  <2>4. /\ server' \in [hasContent : BOOLEAN, accepted : BOOLEAN, challenged : BOOLEAN]
        /\ server'.accepted = server.accepted /\ server'.hasContent = content
    BY <2>1, <2>2, <2>3
  <2> QED
    BY <2>4 DEF content
<1> HIDE DEF acc
<1>6. Live(client', acc) \/ Stuck(client', acc)
  BY <1>1, <1>2, <1>3, <1>4, Reads DEF Fits
<1>7. Keeps(client, client')
  BY <1>1, <1>3, <1>4, KeepsRead DEF Fits
<1>8. server'.hasContent => Launched(client')
  BY <1>5, <1>6 DEF Live, Core, Stuck
<1> QED
  BY <1>4, <1>5, <1>6, <1>7, <1>8 DEF LibraryStep, acc

Library ==
    \/ onConnected \/ connectionFails \/ encrypted \/ handleSslErrors
    \/ connectionLost \/ disconnected \/ answer

LEMMA LibrarySteps == ASSUME Inv, Early421 = FALSE, Library PROVE LibraryStep
<1>1. CASE onConnected
  BY <1>1, OnConnectedStep
<1>2. CASE connectionFails
  BY <1>2, BrokenStep DEF connectionFails
<1>3. CASE encrypted
  BY <1>3, EncryptedStep
<1>4. CASE handleSslErrors
  BY <1>4, SslErrorsStep
<1>5. CASE connectionLost
  BY <1>5, BrokenStep DEF connectionLost, Connected
<1>6. CASE disconnected
  BY <1>6, DisconnectedStep
<1>7. CASE answer
  BY <1>7, AnswerStep
<1> QED
  BY <1>1, <1>2, <1>3, <1>4, <1>5, <1>6, <1>7 DEF Library

-----------------------------------------------------------------------------
(* The steps of the user and of the server                                  *)

\* An attempt begins: with a question, or with the connection.
SendStep ==
    /\ Idle(client) /\ client.mode = "none" /\ server' = server
    /\ ~server.hasContent /\ ~server.accepted
    /\ \/ Idle(client') /\ client'.mode # "none" /\ client'.waiting
       \/ Live(client', server.accepted) /\ client'.told = <<>>

LEMMA Sends ==
    ASSUME Inv, NEW mode \in Mails, send(mode) PROVE SendStep
<1> DEFINE c == [client EXCEPT !.mode = mode, !.waiting = TRUE]
           d == sendContinueGotPassword(c)
<1>1. client.mode = "none" /\ client' = (IF account.auth THEN c ELSE d) /\ server' = server
  BY DEF send
<1>2. Idle(client) /\ client \in Clients /\ ~server.hasContent /\ ~server.accepted
  BY <1>1 DEF Inv, Idle, Stuck, Live, Core, Launched
<1>3. /\ c \in Clients /\ c.socket = "closed" /\ c.awaits = "nothing" /\ ~c.lineWithoutCommand
      /\ c.queue = <<>> /\ ~c.inProgress /\ c.told = <<>> /\ ~c.failed /\ c.cancelled = "no"
      /\ c.mode = mode /\ c.waiting
  BY <1>2 DEF Idle, Clients
<1>4. mode # "none"
  BY DEF Mails
<1> HIDE DEF c
<1>5. Idle(c) /\ Ready(c)
  BY <1>3, <1>4 DEF Idle, Ready
<1>6. Live(d, server.accepted) /\ d.told = <<>>
  BY <1>5, Begins
<1> HIDE DEF d
<1>7. CASE account.auth
  BY <1>1, <1>2, <1>3, <1>4, <1>5, <1>7 DEF SendStep
<1>8. CASE ~account.auth
  BY <1>1, <1>2, <1>6, <1>8 DEF SendStep
<1> QED
  BY <1>7, <1>8

\* A password comes: the attempt begins, or has been cancelled.
PasswordStep ==
    /\ server' = server
    /\ \/ /\ Idle(client) /\ client.mode # "none" /\ ~server.hasContent /\ ~server.accepted
          /\ Live(client', server.accepted) /\ client'.told = <<>>
       \/ /\ Stuck(client, server.accepted) /\ client.waiting
          /\ Stuck(client', server.accepted)
          /\ client'.mode = client.mode /\ client'.cancelled = client.cancelled
          /\ client'.failed = client.failed /\ client'.told = client.told

LEMMA Passwords ==
    ASSUME Inv, setPassword PROVE PasswordStep
<1>1. client.waiting /\ client' = sendContinueGotPassword(client) /\ server' = server
  BY DEF setPassword
<1>2. CASE Stuck(client, server.accepted)
  BY <1>1, <1>2, PasswordTooLate DEF PasswordStep
<1>3. CASE Idle(client) /\ ~server.hasContent /\ ~server.accepted
  <2>1. client.mode # "none" /\ client.mode \in Mails
    BY <1>1, <1>3 DEF Idle, Clients
  <2>2. Ready(client)
    BY <1>3, <2>1 DEF Idle, Ready
  <2>3. Live(client', server.accepted) /\ client'.told = <<>>
    BY <1>1, <2>2, Begins
  <2> QED
    BY <1>1, <1>3, <2>1, <2>3 DEF PasswordStep
<1>4. ~Live(client, server.accepted)
  BY <1>1 DEF Live, Core, Launched
<1> QED
  BY <1>2, <1>3, <1>4 DEF Inv

\* The attempt is cancelled at its question, or after it has failed.
CancelStep ==
    /\ server' = server /\ client'.mode = client.mode /\ client'.waiting = client.waiting
    /\ \/ /\ Idle(client) /\ client.waiting /\ client.mode # "none" /\ ~server.hasContent
          /\ ~server.accepted /\ Stuck(client', server.accepted)
          /\ client'.cancelled = "asked" /\ client'.told = <<"error">>
       \/ /\ client.cancelled = "no" /\ client'.cancelled = "late"
          /\ client'.told = client.told
          /\ \/ Stuck(client, server.accepted) /\ Stuck(client', server.accepted)
             \/ Live(client, server.accepted) /\ Live(client', server.accepted)

LEMMA Cancels ==
    ASSUME Inv, cancel PROVE CancelStep
<1>1. PICK atOnce \in BOOLEAN :
         LET c == Enqueue([client EXCEPT !.cancelled = IF client.waiting THEN "asked" ELSE "late"],
                          "Disconnect", atOnce)
         IN  client' = IF c.failed THEN c ELSE handleError(c)
  BY Zenon DEF cancel
<1>2. client.cancelled = "no" /\ (client.waiting \/ client.failed) /\ server' = server
  BY DEF cancel
<1> DEFINE how(h) == Enqueue([client EXCEPT !.cancelled = h], "Disconnect", atOnce)
<1>3. client' = IF how(IF client.waiting THEN "asked" ELSE "late").failed
                THEN how(IF client.waiting THEN "asked" ELSE "late")
                ELSE handleError(how(IF client.waiting THEN "asked" ELSE "late"))
  BY <1>1, Zenon
<1>4. CASE Idle(client) /\ ~server.hasContent /\ ~server.accepted
  <2>1. client.waiting /\ client.mode # "none"
    BY <1>2, <1>4 DEF Idle
  <2>2. LET d == how("asked")
            r == handleError(d)
        IN  /\ ~d.failed /\ Stuck(r, server.accepted) /\ r.mode = client.mode
            /\ r.waiting = client.waiting /\ r.cancelled = "asked" /\ r.told = <<"error">>
    BY <1>4, <2>1, CancelWaiting, ZenonT(40)
  <2> HIDE DEF how
  <2>3. client' = handleError(how("asked"))
    BY <1>3, <2>1, <2>2
  <2> QED
    BY <1>2, <1>4, <2>1, <2>2, <2>3 DEF CancelStep
<1>5. CASE Stuck(client, server.accepted)
  <2>1. ~client.waiting /\ client.failed
    BY <1>2, <1>5 DEF Stuck
  <2>2. LET d == how("late")
        IN  /\ d.failed /\ Stuck(d, server.accepted) /\ d.mode = client.mode
            /\ d.waiting = client.waiting /\ d.cancelled = "late" /\ d.told = client.told
    BY <1>2, <1>5, <2>1, CancelStuck
  <2> HIDE DEF how
  <2>3. client' = how("late")
    BY <1>3, <2>1, <2>2
  <2> QED
    BY <1>2, <1>5, <2>2, <2>3 DEF CancelStep
<1>6. CASE Live(client, server.accepted)
  <2>1. ~client.waiting /\ client.failed
    BY <1>2, <1>6 DEF Live, Core, Launched
  <2>2. LET d == how("late")
        IN  /\ d.failed /\ Live(d, server.accepted) /\ d.mode = client.mode
            /\ d.waiting = client.waiting /\ d.cancelled = "late" /\ d.told = client.told
    BY <1>6, <2>1, CancelLive
  <2> HIDE DEF how
  <2>3. client' = how("late")
    BY <1>3, <2>1, <2>2
  <2> QED
    BY <1>2, <1>6, <2>2, <2>3 DEF CancelStep
<1> QED
  BY <1>4, <1>5, <1>6 DEF Inv

\* The server takes what it has.
AcceptStep ==
    /\ client' = client /\ ~server.accepted /\ server'.accepted = TRUE /\ Launched(client)
    /\ \/ Stuck(client, server.accepted) /\ Stuck(client', server'.accepted)
       \/ Live(client, server.accepted) /\ Live(client', server'.accepted)
    /\ server' \in [hasContent : BOOLEAN, accepted : BOOLEAN, challenged : BOOLEAN]
    /\ server'.hasContent = server.hasContent

LEMMA Accepts ==
    ASSUME Inv, accept PROVE AcceptStep
<1>1. /\ server.hasContent /\ ~server.accepted /\ client' = client
      /\ server' = [server EXCEPT !.accepted = TRUE]
  BY DEF accept
<1>2. /\ server' \in [hasContent : BOOLEAN, accepted : BOOLEAN, challenged : BOOLEAN]
      /\ server'.accepted = TRUE /\ server'.hasContent = server.hasContent
  BY <1>1 DEF Inv
<1>3. Launched(client)
  BY <1>1 DEF Inv
<1>4. Stuck(client, server.accepted) => Stuck(client', server'.accepted)
  BY <1>1, <1>2 DEF Stuck
<1>5. Live(client, server.accepted) => Live(client', server'.accepted)
  <2>1. Verdicts(client, server.accepted) => Verdicts(client, TRUE)
    BY DEF Verdicts
  <2>2. Live(client, server.accepted) => Live(client, TRUE)
    BY <2>1 DEF Live, Core
  <2> QED
    BY <1>1, <1>2, <2>2
<1> QED
  BY <1>1, <1>2, <1>3, <1>4, <1>5 DEF Inv, AcceptStep

-----------------------------------------------------------------------------
(* The invariant                                                            *)

LEMMA InitInv == ASSUME Init PROVE Inv
<1>1. <<>> \in Seq(Commands) /\ <<>> \in Seq({"sent", "error"})
  OBVIOUS
<1>2. Idle(client)
  BY <1>1 DEF Init, Idle, Clients, Requests
<1> QED
  BY <1>2 DEF Init, Inv

\* What is said of a record of the client depends on nothing else but the account.
LEMMA Settled ==
    ASSUME account' = account
    PROVE  /\ Live(client', server'.accepted) => Live(client, server.accepted)'
           /\ Stuck(client', server'.accepted) => Stuck(client, server.accepted)'
           /\ Idle(client') => Idle(client)'
           /\ Launched(client') => Launched(client)'
<1>1. SecretsCovered(client') => SecretsCovered(client)'
  BY DEF SecretsCovered, Secret, TlsBefore, HeadType
<1>2. /\ Launched(client') => Launched(client)'
      /\ WellOrdered(client') => WellOrdered(client)'
      /\ Verdicts(client', server'.accepted) => Verdicts(client, server.accepted)'
  BY DEF Launched, WellOrdered, Verdicts, MailAhead
<1>3. Core(client', server'.accepted) => Core(client, server.accepted)'
  BY <1>1, <1>2 DEF Core, HeadType
<1>4. Live(client', server'.accepted) => Live(client, server.accepted)'
  BY <1>3 DEF Live, HeadType
<1>5. Stuck(client', server'.accepted) => Stuck(client, server.accepted)'
  BY DEF Stuck, HeadType, Launched
<1>6. Idle(client') => Idle(client)'
  BY DEF Idle
<1> QED
  BY <1>2, <1>4, <1>5, <1>6

\* Every step is one of these.
Steps == LibraryStep \/ SendStep \/ PasswordStep \/ CancelStep \/ AcceptStep

LEMMA NextSteps ==
    ASSUME Inv, Early421 = FALSE, Next
    PROVE  Steps /\ account' = account
<1>1. account' = account
  BY DEF Next, send, setPassword, cancel, onConnected, connectionFails, encrypted,
         handleSslErrors, connectionLost, disconnected, answer, accept
<1>2. CASE \E mode \in Mails : send(mode)
  BY <1>1, <1>2, Sends DEF Steps
<1>3. CASE setPassword
  BY <1>1, <1>3, Passwords DEF Steps
<1>4. CASE cancel
  BY <1>1, <1>4, Cancels DEF Steps
<1>5. CASE Library
  BY <1>1, <1>5, LibrarySteps DEF Steps
<1>6. CASE accept
  BY <1>1, <1>6, Accepts DEF Steps
<1> QED
  BY <1>2, <1>3, <1>4, <1>5, <1>6 DEF Next, Library, Mails

LEMMA NextInv ==
    ASSUME Inv, Early421 = FALSE, [Next]_vars
    PROVE  Inv'
<1> SUFFICES ASSUME Next PROVE Inv'
  <2>1. ASSUME UNCHANGED vars PROVE Inv'
    <3>1. account' = account /\ client' = client /\ server' = server
      BY <2>1 DEF vars
    <3> QED
      BY <3>1, Settled DEF Inv
  <2> QED
    BY <2>1
<1>1. Steps /\ account' = account
  BY NextSteps
<1>2. /\ \/ Idle(client') /\ ~server'.hasContent /\ ~server'.accepted
         \/ Stuck(client', server'.accepted)
         \/ Live(client', server'.accepted)
      /\ server'.hasContent => Launched(client')
      /\ server' \in [hasContent : BOOLEAN, accepted : BOOLEAN, challenged : BOOLEAN]
  <2>1. CASE LibraryStep
    BY <2>1 DEF LibraryStep
  <2>2. CASE SendStep
    BY <2>2 DEF SendStep, Inv
  <2>3. CASE PasswordStep
    <3>1. Stuck(client, server.accepted) /\ client.waiting => ~server.hasContent
      BY DEF Inv, Launched
    <3> QED
      BY <2>3, <3>1 DEF PasswordStep, Inv
  <2>4. CASE CancelStep
    BY <2>4 DEF CancelStep, Inv, Launched
  <2>5. CASE AcceptStep
    BY <2>5 DEF AcceptStep
  <2> QED
    BY <1>1, <2>1, <2>2, <2>3, <2>4, <2>5 DEF Steps
<1> QED
  BY <1>1, <1>2, Settled DEF Inv

LEMMA AlwaysInv == ASSUME Early421 = FALSE PROVE Spec => []Inv
<1>1. Init => Inv
  BY InitInv
<1>2. Inv /\ [Next]_vars => Inv'
  BY NextInv
<1> QED
  BY <1>1, <1>2, PTL DEF Spec

-----------------------------------------------------------------------------
(* What follows                                                             *)

\* The library looks at the head of its queue without asking whether there is one: if a
\* server does not hang up on a sender before the last recipient, there always is.
THEOREM AlwaysFindsCommand ==
    ASSUME Early421 = FALSE PROVE Spec => []LinesFindCommand
<1>1. Inv => LinesFindCommand
  BY DEF Inv, Idle, Stuck, Live, Core, LinesFindCommand
<1> QED
  BY <1>1, AlwaysInv, PTL

\* With STARTTLS in the settings no name, password or message is said before the connection
\* is encrypted, for the commands that say them come after STARTTLS in the queue, which only
\* moves on when the connection is encrypted.
THEOREM AlwaysEncryptsFirst ==
    ASSUME Early421 = FALSE PROVE Spec => []EncryptsBeforeMail
<1>1. Inv => EncryptsBeforeMail
  <2> SUFFICES ASSUME Inv, account.startTls,
                      client.awaits \in {"AUTH", "credentials", "MAIL", "RCPT", "DATA",
                                         "content", "BURL"}
               PROVE  client.encrypted
    BY DEF EncryptsBeforeMail
  <2>1. Live(client, server.accepted) /\ Core(client, server.accepted)
    BY DEF Inv, Idle, Stuck, Live
  <2>2. client.queue # <<>> /\ client.queue[1] \in Commands /\ 1 \in DOMAIN client.queue
    BY <2>1 DEF Core, WellOrdered, Clients
  <2>3. Secret(client.queue[1])
    <3>1. HeadType(client) \in Types
      BY <2>2 DEF HeadType, Commands
    <3> QED
      BY <2>1, <3>1 DEF Live, Awaited, Types, Mails, Secret, HeadType
  <2> QED
    BY <2>1, <2>2, <2>3 DEF Core, SecretsCovered, TlsBefore
<1> QED
  BY <1>1, AlwaysInv, PTL

-----------------------------------------------------------------------------
(* The agent which Submission sees                                          *)

PhaseOf(c) == IF c.mode = "none" THEN "idle"
              ELSE IF c.cancelled = "asked" THEN "cancelled"
              ELSE IF c.waiting THEN "asked" ELSE "sending"

VerdictOf(c) == IF c.told = <<>> THEN "nothing"
                ELSE IF \E i \in DOMAIN c.told : c.told[i] # c.told[1] THEN "both"
                ELSE c.told[1]

agent == [phase |-> Phase, delivered |-> server.accepted, told |-> Verdict]

LEMMA PhaseIs == Phase = PhaseOf(client) /\ Verdict = VerdictOf(client)
BY DEF Phase, PhaseOf, Verdict, VerdictOf

LEMMA IdleSeen ==
    ASSUME NEW c, Idle(c)
    PROVE  /\ PhaseOf(c) = (IF c.mode = "none" THEN "idle" ELSE "asked")
           /\ VerdictOf(c) = "nothing"
BY DEF Idle, PhaseOf, VerdictOf

LEMMA ToldErrors ==
    ASSUME NEW c \in Clients, c.told # <<>>, \A i \in DOMAIN c.told : c.told[i] = "error"
    PROVE  VerdictOf(c) = "error"
<1>1. c.told \in Seq({"sent", "error"})
  BY DEF Clients
<1>2. 1 \in DOMAIN c.told
  BY <1>1
<1> QED
  BY <1>2 DEF VerdictOf

LEMMA LiveSeen ==
    ASSUME NEW acc, NEW c, Live(c, acc)
    PROVE  /\ PhaseOf(c) = "sending"
           /\ VerdictOf(c) = (IF c.failed THEN "error" ELSE "nothing")
<1>1. PhaseOf(c) = "sending"
  BY DEF Live, Core, Launched, PhaseOf
<1>2. c.failed => VerdictOf(c) = "error"
  BY ToldErrors DEF Live, Core, Verdicts
<1>3. ~c.failed => VerdictOf(c) = "nothing"
  BY DEF Live, Core, Verdicts, VerdictOf
<1> QED
  BY <1>1, <1>2, <1>3

LEMMA StuckSeen ==
    ASSUME NEW acc \in BOOLEAN, NEW c, Stuck(c, acc)
    PROVE  /\ PhaseOf(c) = (IF c.cancelled = "asked" THEN "cancelled" ELSE "sending")
           /\ VerdictOf(c) = (IF c.failed THEN "error" ELSE "sent")
           /\ ~c.failed => Taken(acc)
<1>1. PhaseOf(c) = (IF c.cancelled = "asked" THEN "cancelled" ELSE "sending")
  BY DEF Stuck, PhaseOf
<1>2. c.failed => VerdictOf(c) = "error"
  BY ToldErrors DEF Stuck
<1>3. ASSUME ~c.failed PROVE VerdictOf(c) = "sent"
  <2>1. c.told = <<"sent">>
    BY <1>3 DEF Stuck
  <2> QED
    BY <2>1 DEF VerdictOf
<1>4. ~c.failed => Taken(acc)
  BY DEF Stuck, Taken
<1> QED
  BY <1>1, <1>2, <1>3, <1>4

\* What an agent may become, as a relation of the three things that are seen of it.
Becomes(p, d, v, q, e, w) ==
    \/ q = p /\ e = d /\ w = v
    \/ p = "idle" /\ q = "asked" /\ e = d /\ w = v
    \/ p \in {"idle", "asked"} /\ q = "sending" /\ e = d /\ w = v
    \/ p = "asked" /\ q = "cancelled" /\ e = d /\ w = "error"
    \/ p = "sending" /\ d = FALSE /\ v # "sent" /\ q = p /\ Taken(e) /\ w = v
    \/ p = "sending" /\ Taken(d) /\ v = "nothing" /\ q = p /\ e = d /\ w = "sent"
    \/ p = "sending" /\ v = "nothing" /\ q = p /\ e = d /\ w = "error"

LEMMA BecomesNext ==
    ASSUME Becomes(Phase, server.accepted, Verdict, Phase', server'.accepted, Verdict')
    PROVE  [Agent!Next]_agent
<1> DEFINE p == Phase
           d == server.accepted
           v == Verdict
           q == Phase'
           e == server'.accepted
           w == Verdict'
<1>1. agent = [phase |-> p, delivered |-> d, told |-> v]
  BY DEF agent
<1>2. agent' = [phase |-> q, delivered |-> e, told |-> w]
  BY DEF agent
<1> HIDE DEF p, d, v, q, e, w
<1>3. Becomes(p, d, v, q, e, w)
  BY DEF p, d, v, q, e, w
<1>4. CASE q = p /\ e = d /\ w = v
  BY <1>1, <1>2, <1>4
<1>5. agent.phase = p /\ agent.delivered = d /\ agent.told = v
  BY <1>1
<1>6. CASE p = "idle" /\ q = "asked" /\ e = d /\ w = v
  <2>1. agent' = [agent EXCEPT !.phase = "asked"]
    BY <1>1, <1>2, <1>6 DEF Taken
  <2>2. agent.phase = "idle"
    BY <1>5, <1>6 DEF Taken
  <2>3. Agent!Ask
    BY <2>1, <2>2 DEF Agent!Ask, agent
  <2> QED
    BY <2>3 DEF Agent!Next
<1>7. CASE p \in {"idle", "asked"} /\ q = "sending" /\ e = d /\ w = v
  <2>1. agent' = [agent EXCEPT !.phase = "sending"]
    BY <1>1, <1>2, <1>7 DEF Taken
  <2>2. agent.phase \in {"idle", "asked"}
    BY <1>5, <1>7 DEF Taken
  <2>3. Agent!Start
    BY <2>1, <2>2 DEF Agent!Start, agent
  <2> QED
    BY <2>3 DEF Agent!Next
<1>8. CASE p = "asked" /\ q = "cancelled" /\ e = d /\ w = "error"
  <2>1. agent' = [agent EXCEPT !.phase = "cancelled", !.told = "error"]
    <3>1. agent' = [phase |-> "cancelled", delivered |-> d, told |-> "error"]
      BY <1>2, <1>8, Zenon DEF Taken
    <3> DEFINE R == [phase : {p, "cancelled"}, delivered : {d}, told : {v, "error"}]
               g == [agent EXCEPT !.phase = "cancelled", !.told = "error"]
               h == [phase |-> "cancelled", delivered |-> d, told |-> "error"]
    <3>2. agent \in R /\ h \in R
      BY <1>1
    <3>3. g \in R /\ g.phase = "cancelled" /\ g.delivered = d /\ g.told = "error"
      BY <1>5, <3>2
    <3>4. h.phase = "cancelled" /\ h.delivered = d /\ h.told = "error"
      OBVIOUS
    <3>5. g = h
      <4> HIDE DEF g, h
      <4> QED
        BY <3>2, <3>3, <3>4
    <3> QED
      BY <3>1, <3>5, Zenon
  <2>2. agent.phase = "asked"
    BY <1>5, <1>8 DEF Taken
  <2>3. Agent!Cancel
    BY <2>1, <2>2 DEF Agent!Cancel, agent
  <2> QED
    BY <2>3 DEF Agent!Next
<1>9. CASE p = "sending" /\ d = FALSE /\ v # "sent" /\ q = p /\ Taken(e) /\ w = v
  <2>1. agent' = [agent EXCEPT !.delivered = TRUE]
    <3>1. agent' = [phase |-> p, delivered |-> TRUE, told |-> v]
      BY <1>2, <1>9, Zenon DEF Taken
    <3> DEFINE t == TRUE
               R == [phase : {p}, delivered : {d, t}, told : {v}]
               g == [agent EXCEPT !.delivered = t]
               h == [phase |-> p, delivered |-> t, told |-> v]
    <3> HIDE DEF t
    <3>2. agent \in R /\ h \in R
      BY <1>1
    <3>3. g \in R /\ g.phase = p /\ g.delivered = t /\ g.told = v
      BY <1>5, <3>2
    <3>4. h.phase = p /\ h.delivered = t /\ h.told = v
      OBVIOUS
    <3>5. g = h
      <4> HIDE DEF g, h
      <4> QED
        BY <3>2, <3>3, <3>4
    <3> QED
      BY <3>1, <3>5, Zenon DEF t
  <2>2. agent.phase = "sending" /\ agent.delivered = FALSE /\ agent.told # "sent"
    BY <1>5, <1>9 DEF Taken
  <2>3. Agent!Deliver
    BY <2>1, <2>2 DEF Agent!Deliver, agent
  <2> QED
    BY <2>3 DEF Agent!Next
<1>10. CASE p = "sending" /\ Taken(d) /\ v = "nothing" /\ q = p /\ e = d /\ w = "sent"
  <2>1. agent' = [agent EXCEPT !.told = "sent"]
    <3>1. agent' = [phase |-> p, delivered |-> d, told |-> "sent"]
      BY <1>2, <1>10, Zenon DEF Taken
    <3>2. [agent EXCEPT !.told = "sent"] = [phase |-> p, delivered |-> d, told |-> "sent"]
      BY <1>1
    <3> QED
      BY <3>1, <3>2, Zenon
  <2>2. agent.phase = "sending" /\ agent.delivered = TRUE /\ agent.told = "nothing"
    BY <1>5, <1>10 DEF Taken
  <2>3. Agent!Sent
    BY <2>1, <2>2 DEF Agent!Sent, agent
  <2> QED
    BY <2>3 DEF Agent!Next
<1>11. CASE p = "sending" /\ v = "nothing" /\ q = p /\ e = d /\ w = "error"
  <2>1. agent' = [agent EXCEPT !.told = "error"]
    BY <1>1, <1>2, <1>11 DEF Taken
  <2>2. agent.phase = "sending" /\ agent.told = "nothing"
    BY <1>5, <1>11 DEF Taken
  <2>3. Agent!Error
    BY <2>1, <2>2 DEF Agent!Error, agent
  <2> QED
    BY <2>3 DEF Agent!Next
<1> QED
  BY <1>3, <1>4, <1>6, <1>7, <1>8, <1>9, <1>10, <1>11 DEF Becomes

LEMMA StepsSeen ==
    ASSUME Inv, Steps
    PROVE  Becomes(PhaseOf(client), server.accepted, VerdictOf(client),
                   PhaseOf(client'), server'.accepted, VerdictOf(client'))
<1> DEFINE acc == server.accepted
<1>1. acc \in BOOLEAN
  BY DEF Inv
<1>2. CASE LibraryStep
  <2>1. /\ Live(client, acc)
        /\ Live(client', acc) \/ Stuck(client', acc)
        /\ Keeps(client, client') /\ server'.accepted = acc
    BY <1>2 DEF LibraryStep
  <2>2. PhaseOf(client') = PhaseOf(client)
    BY <2>1 DEF PhaseOf, Keeps
  <2>3. /\ PhaseOf(client) = "sending"
        /\ VerdictOf(client) = (IF client.failed THEN "error" ELSE "nothing")
        /\ client.failed => client'.failed
    <3>1. client.failed => client'.failed
      BY <2>1 DEF Keeps
    <3>2. PhaseOf(client) = "sending"
      BY <2>1, LiveSeen
    <3>3. VerdictOf(client) = (IF client.failed THEN "error" ELSE "nothing")
      BY <2>1, LiveSeen
    <3> QED
      BY <3>1, <3>2, <3>3
  <2>4. CASE Live(client', acc)
    <3>1. VerdictOf(client') = (IF client'.failed THEN "error" ELSE "nothing")
      BY <2>4, LiveSeen
    <3> QED
      BY <2>1, <2>2, <2>3, <3>1 DEF Becomes
  <2>5. CASE Stuck(client', acc)
    <3>1. /\ VerdictOf(client') = (IF client'.failed THEN "error" ELSE "sent")
          /\ ~client'.failed => Taken(acc)
      BY <1>1, <2>5, StuckSeen
    <3> QED
      BY <2>1, <2>2, <2>3, <3>1 DEF Becomes
  <2> QED
    BY <2>1, <2>4, <2>5
<1>3. CASE SendStep
  BY <1>3, IdleSeen, LiveSeen DEF SendStep, Becomes, Live, Core, Verdicts
<1>4. CASE PasswordStep
  <2>1. server'.accepted = server.accepted
    BY <1>4 DEF PasswordStep
  <2>2. CASE Idle(client) /\ client.mode # "none" /\ Live(client', acc) /\ client'.told = <<>>
    <3>1. PhaseOf(client) = "asked" /\ VerdictOf(client) = "nothing"
      BY <2>2, IdleSeen
    <3>2. PhaseOf(client') = "sending" /\ VerdictOf(client') = "nothing"
      BY <2>2, LiveSeen DEF VerdictOf
    <3> QED
      BY <2>1, <3>1, <3>2 DEF Becomes
  <2>3. CASE /\ Stuck(client, acc) /\ Stuck(client', acc)
             /\ client'.cancelled = client.cancelled /\ client'.failed = client.failed
    <3>1. PhaseOf(client') = PhaseOf(client) /\ VerdictOf(client') = VerdictOf(client)
      BY <1>1, <2>3, StuckSeen
    <3> QED
      BY <2>1, <3>1 DEF Becomes
  <2> QED
    BY <1>4, <2>2, <2>3 DEF PasswordStep
<1>5. CASE CancelStep
  <2>1. server'.accepted = server.accepted
    BY <1>5 DEF CancelStep
  <2>2. CASE /\ Idle(client) /\ client.mode # "none" /\ Stuck(client', acc)
             /\ client'.cancelled = "asked" /\ client'.told = <<"error">>
    <3>1. PhaseOf(client) = "asked"
      BY <2>2, IdleSeen
    <3>2. PhaseOf(client') = "cancelled"
      BY <1>1, <2>2, StuckSeen
    <3>3. VerdictOf(client') = "error"
      BY <2>2 DEF VerdictOf
    <3> QED
      BY <2>1, <3>1, <3>2, <3>3 DEF Becomes
  <2>3. CASE /\ client'.told = client.told /\ client'.mode = client.mode
             /\ client'.waiting = client.waiting
             /\ client.cancelled = "no" /\ client'.cancelled = "late"
    <3>1. PhaseOf(client') = PhaseOf(client) /\ VerdictOf(client') = VerdictOf(client)
      BY <2>3 DEF PhaseOf, VerdictOf
    <3> QED
      BY <2>1, <3>1 DEF Becomes
  <2> QED
    BY <1>5, <2>2, <2>3 DEF CancelStep
<1>6. CASE AcceptStep
  <2>1. acc = FALSE /\ server'.accepted = TRUE
    BY <1>1, <1>6 DEF AcceptStep
  <2>2. PhaseOf(client) = "sending"
    BY <1>6 DEF AcceptStep, Launched, PhaseOf
  <2>3. VerdictOf(client) # "sent"
    BY <1>1, <1>6, <2>1, LiveSeen, StuckSeen DEF AcceptStep, Taken
  <2> QED
    BY <1>6, <2>1, <2>2, <2>3 DEF AcceptStep, Becomes, Taken
<1> QED
  BY <1>2, <1>3, <1>4, <1>5, <1>6 DEF Steps

\* MSA::SMTP is, step by step, the agent which Submission expects: it takes its mail once,
\* says sent() only when the server has taken the message, never after error(), and sends
\* nothing after it was cancelled at the question for a password.
THEOREM ImplementsAgent ==
    ASSUME Early421 = FALSE PROVE Spec => Agent!Init /\ [][Agent!Next]_agent
<1>1. Init => Agent!Init
  BY DEF Init, Agent!Init, Agent!New, Phase, Verdict
<1>2. Inv /\ [Next]_vars => [Agent!Next]_agent
  <2>1. ASSUME UNCHANGED vars PROVE UNCHANGED agent
    BY <2>1 DEF vars, agent, Phase, Verdict
  <2>2. ASSUME Inv, Next PROVE [Agent!Next]_agent
    <3>1. Steps
      BY <2>2, NextSteps
    <3>2. Phase' = PhaseOf(client') /\ Verdict' = VerdictOf(client')
      BY DEF Phase, PhaseOf, Verdict, VerdictOf
    <3> QED
      BY <2>2, <3>1, <3>2, StepsSeen, PhaseIs, BecomesNext
  <2> QED
    BY <2>1, <2>2
<1> QED
  BY <1>1, <1>2, AlwaysInv, PTL DEF Spec

(***************************************************************************)
(* The attempts                                                            *)
(***************************************************************************)

States == {"INIT", "BUILDING_MESSAGE", "SAVING", "PREPARING_URLAUTH", "SUBMITTING",
           "UPDATING_FLAGS", "SENT", "FAILED"}

Subs == [state : States, attempt : Nat, save : BOOLEAN, useBurl : BOOLEAN, raw : Nat,
         appendUid : Nat, appendUidReceived : BOOLEAN,
         urlauth : Nat, genUrlAuthReceived : BOOLEAN]

Tasks == [kind : {"append", "genurlauth", "flags"}, text : Nat]

Payloads == [attempt : Nat, save : BOOLEAN, text : Nat, complained : BOOLEAN]

Windows == [enabled : BOOLEAN, closing : BOOLEAN, options : Settings]

TypeOK ==
    /\ world \in Worlds /\ sub \in Subs /\ tasks \in SUBSET Tasks
    /\ agents \in Seq(MsaStates) /\ payload \in Seq(Payloads) /\ Len(payload) = Len(agents)
    /\ saved \in SUBSET Nat /\ flagged \in BOOLEAN /\ window \in Windows

-----------------------------------------------------------------------------
\* The agents which have not told Submission how their attempt went.
Undecided == {i \in DOMAIN agents : agents[i].told = "nothing"}

Delivered == \E i \in DOMAIN agents : agents[i].delivered /\ payload[i].attempt = sub.attempt

\* One thing at a time is under way, a task or an agent, and nothing while the user can
\* press "Send".
OneAtATime ==
    /\ \A t, u \in tasks : t = u
    /\ \A i, j \in Undecided : i = j
    /\ tasks # {} => Undecided = {}
    /\ window.enabled => tasks = {} /\ Undecided = {}
    /\ \A i \in DOMAIN agents : agents[i].phase = "asked" => i \in Undecided

\* What is under way is of the last attempt; only a message which has left leads to a flag
\* and to the end of the window.
OfThisAttempt ==
    /\ \A i \in Undecided : payload[i].attempt = sub.attempt
    /\ \A t \in tasks : t.kind = "flags" => Delivered
    /\ window.closing => Delivered
    /\ flagged => window.closing

InFlight == OneAtATime /\ OfThisAttempt

-----------------------------------------------------------------------------
(* What a step makes of the agents                                          *)

\* One more agent, at the end.
Made(s, w) ==
    /\ useImapSubmit => s.appendUidReceived
    /\ sub' = [s EXCEPT !.state = "SUBMITTING"] /\ window' = w
    /\ \E a \in MsaStates, p \in Payloads :
         /\ a.told = "nothing" /\ ~a.delivered
         /\ p.attempt = s.attempt /\ p.save = s.save /\ p.text = Given(s)
         /\ agents' = Append(agents, a) /\ payload' = Append(payload, p)

NotMade(s, w) == gotError(s, w) /\ UNCHANGED <<agents, payload>>

LEMMA GivenType == ASSUME NEW s \in Subs PROVE Given(s) \in Nat
BY DEF Given, Subs

LEMMA InvokeCases ==
    ASSUME NEW s \in Subs, NEW w, slotInvokeMsaNow(s, w)
    PROVE  Made(s, w) \/ NotMade(s, w)
<1>1. CASE useImapSubmit => s.appendUidReceived
  <2>1. PICK phase \in {"sending", "asked"} :
           agents' = Append(agents, [phase |-> phase, delivered |-> FALSE, told |-> "nothing"])
    BY <1>1 DEF slotInvokeMsaNow
  <2> DEFINE a == [phase |-> phase, delivered |-> FALSE, told |-> "nothing"]
             p == [attempt |-> s.attempt, save |-> s.save, text |-> Given(s),
                   complained |-> FALSE]
  <2>2. a \in MsaStates
    BY DEF MsaStates
  <2>3. p \in Payloads
    BY GivenType DEF Payloads, Subs
  <2>4. payload' = Append(payload, p) /\ agents' = Append(agents, a)
    BY <1>1, <2>1 DEF slotInvokeMsaNow
  <2>5. \E x \in MsaStates, y \in Payloads :
          /\ x.told = "nothing" /\ ~x.delivered
          /\ y.attempt = s.attempt /\ y.save = s.save /\ y.text = Given(s)
          /\ agents' = Append(agents, x) /\ payload' = Append(payload, y)
    <3> HIDE DEF a, p
    <3>1. a.told = "nothing" /\ ~a.delivered
      BY DEF a
    <3>2. p.attempt = s.attempt /\ p.save = s.save /\ p.text = Given(s)
      BY DEF p
    <3> QED
      BY <2>2, <2>3, <2>4, <3>1, <3>2
  <2> QED
    BY <1>1, <2>5 DEF slotInvokeMsaNow, Made
<1>2. CASE ~(useImapSubmit => s.appendUidReceived)
  BY <1>2 DEF slotInvokeMsaNow, NotMade
<1> QED
  BY <1>1, <1>2

LEMMA MadeAgents ==
    ASSUME TypeOK, NEW s \in Subs, NEW w, Made(s, w)
    PROVE  /\ agents' \in Seq(MsaStates) /\ payload' \in Seq(Payloads)
           /\ Len(payload') = Len(agents')
           /\ DOMAIN agents' = DOMAIN agents \cup {Len(agents) + 1}
           /\ DOMAIN agents = DOMAIN payload
           /\ \A i \in DOMAIN agents : agents'[i] = agents[i] /\ payload'[i] = payload[i]
           /\ LET n == Len(agents) + 1
              IN  /\ agents'[n].told = "nothing" /\ ~agents'[n].delivered
                  /\ payload'[n].attempt = s.attempt /\ payload'[n].save = s.save
                  /\ payload'[n].text = Given(s)
<1>1. PICK a \in MsaStates, p \in Payloads :
         /\ a.told = "nothing" /\ ~a.delivered
         /\ p.attempt = s.attempt /\ p.save = s.save /\ p.text = Given(s)
         /\ agents' = Append(agents, a) /\ payload' = Append(payload, p)
  BY DEF Made
<1>2. agents \in Seq(MsaStates) /\ payload \in Seq(Payloads) /\ Len(payload) = Len(agents)
  BY DEF TypeOK
<1>3. agents' \in Seq(MsaStates) /\ payload' \in Seq(Payloads) /\ Len(payload') = Len(agents')
  BY <1>1, <1>2
<1>4. /\ DOMAIN agents' = DOMAIN agents \cup {Len(agents) + 1} /\ DOMAIN agents = DOMAIN payload
      /\ \A i \in DOMAIN agents : agents'[i] = agents[i] /\ payload'[i] = payload[i]
  BY <1>1, <1>2
<1>5. agents'[Len(agents) + 1] = a /\ payload'[Len(agents) + 1] = p
  BY <1>1, <1>2
<1> QED
  BY <1>1, <1>3, <1>4, <1>5

\* A step of one agent leaves the others alone.
LEMMA StepAgents ==
    ASSUME TypeOK, NEW i \in DOMAIN agents, Step(i)
    PROVE  /\ agents' \in Seq(MsaStates) /\ Len(agents') = Len(agents)
           /\ DOMAIN agents' = DOMAIN agents /\ DOMAIN agents = DOMAIN payload
           /\ \A j \in DOMAIN agents \ {i} : agents'[j] = agents[j]
<1>1. PICK m \in MsaStates : agents' = [agents EXCEPT ![i] = m]
  BY DEF Step
<1> QED
  BY <1>1 DEF TypeOK

\* The password, or its being refused, goes to all.
LEMMA PasswordAgents ==
    ASSUME TypeOK, NEW f, agents' = [i \in DOMAIN agents |-> f[i]],
           \A i \in DOMAIN agents : f[i] \in MsaStates
    PROVE  /\ agents' \in Seq(MsaStates) /\ Len(agents') = Len(agents)
           /\ DOMAIN agents' = DOMAIN agents
BY DEF TypeOK


-----------------------------------------------------------------------------
(* Types                                                                    *)

LEMMA InitType == SubmissionInit => TypeOK
<1> SUFFICES ASSUME SubmissionInit PROVE TypeOK
  OBVIOUS
<1>1. sub \in Subs
  BY DEF SubmissionInit, Subs, States
<1>2. window \in Windows
  BY DEF SubmissionInit, Windows
<1>3. agents \in Seq(MsaStates) /\ payload \in Seq(Payloads) /\ Len(payload) = Len(agents)
  BY DEF SubmissionInit
<1> QED
  BY <1>1, <1>2, <1>3 DEF SubmissionInit, TypeOK

\* What slotInvokeMsaNow() leaves has its types.
LEMMA InvokeType ==
    ASSUME TypeOK, NEW s \in Subs, NEW w \in Windows, slotInvokeMsaNow(s, w),
           tasks' \in SUBSET Tasks, saved' \in SUBSET Nat, UNCHANGED <<world, flagged>>
    PROVE  TypeOK'
<1>1. CASE Made(s, w)
  <2>1. sub' \in Subs /\ window' \in Windows
    BY <1>1 DEF Made, Subs, States
  <2> QED
    BY <1>1, <2>1, MadeAgents DEF TypeOK
<1>2. CASE NotMade(s, w)
  <2>1. sub' \in Subs /\ window' \in Windows
    BY <1>2 DEF NotMade, gotError, Subs, States, Windows
  <2> QED
    BY <1>2, <2>1 DEF NotMade, TypeOK
<1> QED
  BY <1>1, <1>2, InvokeCases

LEMMA EndTypes ==
    ASSUME TypeOK, gotError(sub, window) \/ succeed(sub, window)
    PROVE  sub' \in Subs /\ window' \in Windows
BY ZenonT(40) DEF TypeOK, gotError, succeed, Subs, States, Windows

\* What send() works with: the next attempt and the settings which the user has.
LEMMA Prepared ==
    ASSUME TypeOK, NEW o \in Settings
    PROVE  LET s == SetOptions([sub EXCEPT !.attempt = @ + 1, !.state = "BUILDING_MESSAGE"], o)
               t == [s EXCEPT !.raw = IF shouldBuildMessageLocally(s) THEN s.attempt ELSE 0]
           IN  /\ t \in Subs /\ s.attempt = sub.attempt + 1 /\ t.attempt = s.attempt
               /\ s.save = o.save /\ t.save = o.save
               /\ s.useBurl = (o.burl /\ world.urlauth) /\ t.useBurl = s.useBurl
               /\ t.raw = IF shouldBuildMessageLocally(s) THEN s.attempt ELSE 0
               /\ t.appendUidReceived = sub.appendUidReceived
               /\ t.genUrlAuthReceived = sub.genUrlAuthReceived
               /\ t.appendUid = sub.appendUid /\ t.urlauth = sub.urlauth
<1> DEFINE b == [sub EXCEPT !.attempt = @ + 1, !.state = "BUILDING_MESSAGE"]
           s == SetOptions(b, o)
           local == shouldBuildMessageLocally(s)
           t == [s EXCEPT !.raw = IF local THEN s.attempt ELSE 0]
<1>1. o \in Options /\ world.urlauth \in BOOLEAN
  BY SubmissionAssumption DEF SubmissionAssumption, TypeOK, Worlds
<1>2. /\ b \in Subs /\ b.attempt = sub.attempt + 1 /\ b.appendUid = sub.appendUid
      /\ b.appendUidReceived = sub.appendUidReceived /\ b.urlauth = sub.urlauth
      /\ b.genUrlAuthReceived = sub.genUrlAuthReceived
  <2>1. sub \in Subs
    BY DEF TypeOK
  <2>2. sub.attempt + 1 \in Nat
    BY <2>1 DEF Subs
  <2> DEFINE n == sub.attempt + 1
             a == [sub EXCEPT !.attempt = n]
  <2>3. /\ a \in Subs /\ a.attempt = n /\ a.appendUid = sub.appendUid
        /\ a.appendUidReceived = sub.appendUidReceived /\ a.urlauth = sub.urlauth
        /\ a.genUrlAuthReceived = sub.genUrlAuthReceived
    <3> HIDE DEF n
    <3> QED
      BY <2>1, <2>2 DEF Subs, n
  <2>4. b = [a EXCEPT !.state = "BUILDING_MESSAGE"]
    BY <2>1 DEF Subs
  <2> HIDE DEF a, n
  <2>5. /\ b \in Subs /\ b.attempt = a.attempt /\ b.appendUid = a.appendUid
        /\ b.appendUidReceived = a.appendUidReceived /\ b.urlauth = a.urlauth
        /\ b.genUrlAuthReceived = a.genUrlAuthReceived
    <3> HIDE DEF b
    <3> QED
      BY <2>3, <2>4 DEF Subs, States
  <2> QED
    BY <2>3, <2>5 DEF n
<1>3. /\ s \in Subs /\ s.attempt = b.attempt /\ s.appendUid = b.appendUid
      /\ s.appendUidReceived = b.appendUidReceived /\ s.urlauth = b.urlauth
      /\ s.genUrlAuthReceived = b.genUrlAuthReceived
      /\ s.save = o.save /\ s.useBurl = (o.burl /\ world.urlauth)
  <2> HIDE DEF b
  <2> QED
    BY <1>1, <1>2 DEF SetOptions, Subs, Options
<1>4. /\ t \in Subs /\ t.attempt = s.attempt /\ t.appendUid = s.appendUid
      /\ t.appendUidReceived = s.appendUidReceived /\ t.urlauth = s.urlauth
      /\ t.genUrlAuthReceived = s.genUrlAuthReceived
      /\ t.save = s.save /\ t.useBurl = s.useBurl
      /\ t.raw = IF local THEN s.attempt ELSE 0
  <2> HIDE DEF s, local
  <2> QED
    BY <1>3 DEF Subs
<1> HIDE DEF b
<1> QED
  BY <1>2, <1>3, <1>4 DEF b


\* send() of attempt t with the settings o, which leaves the window w: it saves first, or not.
Saves(t, w) ==
    /\ t.save /\ window' = w /\ UNCHANGED <<agents, payload>>
    /\ sub' \in Subs /\ sub'.attempt = t.attempt /\ sub'.save = t.save
    /\ sub'.useBurl = t.useBurl /\ sub'.raw = t.raw
    /\ ~sub'.appendUidReceived /\ ~sub'.genUrlAuthReceived
    /\ tasks' = tasks \cup {[kind |-> "append",
                             text |-> IF world.catenate THEN t.attempt ELSE t.raw]}

SendsAs(o, t, w) ==
    /\ window.enabled
    /\ SettingsChange \/ o = window.options
    /\ ~w.enabled /\ w.closing = window.closing /\ w.options = o
    /\ t.attempt = sub.attempt + 1 /\ t.save = o.save
    /\ t.useBurl = (o.burl /\ world.urlauth)
    /\ t.raw = IF shouldBuildMessageLocally(t) THEN t.attempt ELSE 0
    /\ t.appendUidReceived = sub.appendUidReceived
    /\ t.genUrlAuthReceived = sub.genUrlAuthReceived
    /\ Saves(t, w) \/ (~t.save /\ slotInvokeMsaNow(t, w) /\ UNCHANGED tasks)
    /\ UNCHANGED <<world, saved, flagged>>

LEMMA SendCases ==
    ASSUME TypeOK, Send
    PROVE  \E o \in Settings, t \in Subs, w \in Windows : SendsAs(o, t, w)
<1> DEFINE S(o) == SetOptions([sub EXCEPT !.attempt = @ + 1, !.state = "BUILDING_MESSAGE"], o)
           T(o) == [S(o) EXCEPT !.raw = IF shouldBuildMessageLocally(S(o)) THEN S(o).attempt
                                        ELSE 0]
           W(o) == [window EXCEPT !.enabled = FALSE, !.options = o]
<1>1. PICK o \in Settings : /\ SettingsChange \/ o = window.options
                            /\ sendMessage(S(o), W(o))
  BY DEF Send
<1> DEFINE t == T(o)
           w == W(o)
<1>2. w \in Windows /\ ~w.enabled /\ w.closing = window.closing /\ w.options = o
  BY DEF TypeOK, Windows
<1>3. /\ t \in Subs /\ t.attempt = sub.attempt + 1 /\ S(o).attempt = t.attempt
      /\ S(o).save = o.save /\ t.save = o.save
      /\ t.useBurl = (o.burl /\ world.urlauth) /\ S(o).useBurl = t.useBurl
      /\ t.raw = IF shouldBuildMessageLocally(S(o)) THEN S(o).attempt ELSE 0
      /\ t.appendUidReceived = sub.appendUidReceived
      /\ t.genUrlAuthReceived = sub.genUrlAuthReceived
  BY Prepared
<1>4. IF S(o).save
      THEN /\ sub' = [t EXCEPT !.appendUidReceived = FALSE, !.genUrlAuthReceived = FALSE,
                               !.state = "SAVING"]
           /\ tasks' = tasks \cup {[kind |-> "append",
                                    text |-> IF world.catenate THEN t.attempt ELSE t.raw]}
           /\ window' = w /\ UNCHANGED <<agents, payload>>
      ELSE slotInvokeMsaNow(t, w) /\ UNCHANGED tasks
  BY <1>1 DEF sendMessage
<1>5. window.enabled /\ UNCHANGED <<world, saved, flagged>>
  BY DEF Send
<1> HIDE DEF S, T, W, t, w
<1>6. shouldBuildMessageLocally(S(o)) = shouldBuildMessageLocally(t)
  BY <1>3 DEF shouldBuildMessageLocally
<1>7. CASE S(o).save
  <2>1. /\ sub' \in Subs /\ sub'.attempt = t.attempt /\ sub'.save = t.save
        /\ sub'.useBurl = t.useBurl /\ sub'.raw = t.raw
        /\ ~sub'.appendUidReceived /\ ~sub'.genUrlAuthReceived
    BY <1>3, <1>4, <1>7, ZenonT(40) DEF Subs, States
  <2>2. Saves(t, w)
    BY <1>3, <1>4, <1>7, <2>1 DEF Saves
  <2> QED
    BY <1>1, <1>2, <1>3, <1>5, <1>6, <2>2 DEF SendsAs
<1>8. CASE ~S(o).save
  BY <1>1, <1>2, <1>3, <1>4, <1>5, <1>6, <1>8 DEF SendsAs
<1> QED
  BY <1>7, <1>8

LEMMA SendType == ASSUME TypeOK, Send PROVE TypeOK'
<1>1. PICK o \in Settings, t \in Subs, w \in Windows : SendsAs(o, t, w)
  BY SendCases
<1>2. CASE Saves(t, w)
  <2>1. t.attempt \in Nat /\ t.raw \in Nat
    BY DEF Subs
  <2>2. tasks' \in SUBSET Tasks
    BY <1>2, <2>1 DEF Saves, TypeOK, Tasks
  <2> QED
    BY <1>1, <1>2, <2>2 DEF Saves, SendsAs, TypeOK
<1>3. CASE slotInvokeMsaNow(t, w) /\ UNCHANGED tasks
  <2>1. /\ tasks' \in SUBSET Tasks /\ saved' \in SUBSET Nat
        /\ UNCHANGED <<world, flagged>>
    BY <1>1, <1>3 DEF TypeOK, SendsAs
  <2> QED
    BY <1>3, <2>1, InvokeType
<1> QED
  BY <1>1, <1>2, <1>3 DEF SendsAs

\* What slotAppendSucceeded() hands on to slotInvokeMsaNow().
LEMMA AppendHandsOn ==
    ASSUME NEW s \in Subs
    PROVE  LET r == IF s.appendUid # 0 THEN [s EXCEPT !.appendUidReceived = TRUE]
                    ELSE [s EXCEPT !.useBurl = FALSE]
           IN  /\ r \in Subs /\ r.attempt = s.attempt /\ r.save = s.save /\ r.raw = s.raw
               /\ r.appendUid = s.appendUid /\ r.genUrlAuthReceived = s.genUrlAuthReceived
               /\ s.appendUid # 0 => r.appendUidReceived /\ r.useBurl = s.useBurl
BY DEF Subs

\* What APPENDUID leaves, when it comes.
Known(task) == IF world.uidplus THEN [sub EXCEPT !.appendUid = task.text] ELSE sub

LEMMA KnownType ==
    ASSUME TypeOK, NEW task \in Tasks
    PROVE  LET s == Known(task)
           IN  /\ s \in Subs /\ s.attempt = sub.attempt /\ s.save = sub.save
               /\ s.raw = sub.raw /\ s.useBurl = sub.useBurl
               /\ s.appendUid = IF world.uidplus THEN task.text ELSE sub.appendUid
               /\ s.appendUidReceived = sub.appendUidReceived
               /\ s.genUrlAuthReceived = sub.genUrlAuthReceived
<1>1. sub \in Subs /\ task.text \in Nat
  BY DEF TypeOK, Tasks
<1> QED
  BY <1>1 DEF Known, Subs

LEMMA AppendType == ASSUME TypeOK, AppendCompleted PROVE TypeOK'
<1>1. PICK task \in tasks :
         /\ task.kind = "append" /\ saved' = saved \cup {task.text}
         /\ slotAppendSucceeded(Known(task), task) /\ UNCHANGED <<world, flagged>>
  BY DEF AppendCompleted, Known
<1> DEFINE s == Known(task)
<1>2. task \in Tasks /\ task.text \in Nat /\ s \in Subs
  BY KnownType DEF TypeOK, Tasks
<1>3. saved' \in SUBSET Nat
  BY <1>1, <1>2 DEF TypeOK
<1> HIDE DEF s
<1>4. CASE s.appendUid # 0 /\ s.useBurl
  <2>1. /\ sub' = [s EXCEPT !.appendUidReceived = TRUE, !.state = "PREPARING_URLAUTH"]
        /\ tasks' = (tasks \ {task}) \cup {[kind |-> "genurlauth", text |-> s.appendUid]}
        /\ UNCHANGED <<agents, payload, window>>
    BY <1>1, <1>4 DEF slotAppendSucceeded, s
  <2>2. sub' \in Subs /\ s.appendUid \in Nat
    BY <1>2, <2>1 DEF Subs, States
  <2>3. tasks' \in SUBSET Tasks
    BY <2>1, <2>2 DEF TypeOK, Tasks
  <2> QED
    BY <1>1, <1>3, <2>1, <2>2, <2>3 DEF TypeOK
<1>5. CASE ~(s.appendUid # 0 /\ s.useBurl)
  <2> DEFINE r == IF s.appendUid # 0 THEN [s EXCEPT !.appendUidReceived = TRUE]
                  ELSE [s EXCEPT !.useBurl = FALSE]
  <2>1. slotInvokeMsaNow(r, window) /\ tasks' = tasks \ {task}
    BY <1>1, <1>5 DEF slotAppendSucceeded, s
  <2>2. r \in Subs /\ window \in Windows /\ tasks' \in SUBSET Tasks
    BY <1>2, <2>1, AppendHandsOn DEF TypeOK
  <2> HIDE DEF r
  <2> QED
    BY <1>1, <1>3, <2>1, <2>2, InvokeType
<1> QED
  BY <1>4, <1>5

\* What the URL leaves.
Url(task) == [sub EXCEPT !.urlauth = task.text, !.genUrlAuthReceived = TRUE]

LEMMA UrlType ==
    ASSUME TypeOK, NEW task \in Tasks
    PROVE  LET s == Url(task)
           IN  /\ s \in Subs /\ s.attempt = sub.attempt /\ s.save = sub.save
               /\ s.useBurl = sub.useBurl /\ s.urlauth = task.text /\ s.genUrlAuthReceived
               /\ s.appendUid = sub.appendUid
               /\ s.appendUidReceived = sub.appendUidReceived
<1>1. sub \in Subs /\ task.text \in Nat
  BY DEF TypeOK, Tasks
<1> QED
  BY <1>1 DEF Url, Subs

LEMMA UrlAuthType == ASSUME TypeOK, slotGenUrlAuthReceived PROVE TypeOK'
<1>1. PICK task \in tasks :
         /\ slotInvokeMsaNow(Url(task), window) /\ tasks' = tasks \ {task}
         /\ UNCHANGED <<world, saved, flagged>>
  BY DEF slotGenUrlAuthReceived, Url
<1>2. Url(task) \in Subs /\ window \in Windows
  BY UrlType DEF TypeOK
<1>3. tasks' \in SUBSET Tasks /\ saved' \in SUBSET Nat
  BY <1>1 DEF TypeOK
<1> QED
  BY <1>1, <1>2, <1>3, InvokeType


\* The password and its being refused go to those agents which have asked.
LEMMA PasswordType ==
    ASSUME TypeOK, givePassword \/ cancelPassword
    PROVE  /\ TypeOK'
           /\ DOMAIN agents' = DOMAIN agents
           /\ \A i \in DOMAIN agents \ Asked : agents'[i] = agents[i]
           /\ \A i \in Asked : /\ agents'[i].delivered = agents[i].delivered
                               /\ agents'[i].phase # "asked"
                               /\ givePassword => agents'[i].told = agents[i].told
                               /\ cancelPassword => agents'[i].told = "error"
<1>1. agents \in Seq(MsaStates) /\ Asked \in SUBSET DOMAIN agents
  BY DEF TypeOK, Asked
<1>2. \A i \in DOMAIN agents : agents[i] \in MsaStates
  BY <1>1
<1>3. CASE givePassword
  <2> DEFINE f == [i \in DOMAIN agents |->
                     IF i \in Asked THEN [agents[i] EXCEPT !.phase = "sending"] ELSE agents[i]]
  <2>1. \A i \in DOMAIN agents : [agents[i] EXCEPT !.phase = "sending"] \in MsaStates
    BY <1>2 DEF MsaStates
  <2>2. \A i \in DOMAIN agents : f[i] \in MsaStates
    BY <1>2, <2>1
  <2>3. agents' = [i \in DOMAIN agents |-> f[i]]
    BY <1>3 DEF givePassword
  <2>4. /\ agents' \in Seq(MsaStates) /\ Len(agents') = Len(agents)
        /\ DOMAIN agents' = DOMAIN agents
    <3> HIDE DEF f
    <3> QED
      BY <2>2, <2>3, PasswordAgents
  <2>5. \A i \in Asked : /\ agents'[i].delivered = agents[i].delivered
                         /\ agents'[i].phase # "asked" /\ agents'[i].told = agents[i].told
    BY <1>1, <1>2, <2>3 DEF MsaStates
  <2>6. \A i \in DOMAIN agents \ Asked : agents'[i] = agents[i]
    BY <2>3
  <2>7. TypeOK'
    BY <1>3, <2>4 DEF givePassword, TypeOK
  <2>8. cancelPassword => \A i \in Asked : agents'[i].told = "error"
    BY <1>1, <1>2 DEF cancelPassword, MsaStates
  <2> QED
    BY <2>4, <2>5, <2>6, <2>7, <2>8
<1>4. CASE cancelPassword
  <2> DEFINE f == [i \in DOMAIN agents |->
                     IF i \in Asked
                     THEN [agents[i] EXCEPT !.phase = "cancelled", !.told = "error"]
                     ELSE agents[i]]
  <2>1. \A i \in DOMAIN agents :
          [agents[i] EXCEPT !.phase = "cancelled", !.told = "error"] \in MsaStates
    BY <1>2 DEF MsaStates
  <2>2. \A i \in DOMAIN agents : f[i] \in MsaStates
    BY <1>2, <2>1
  <2>3. agents' = [i \in DOMAIN agents |-> f[i]]
    BY <1>4 DEF cancelPassword
  <2>4. /\ agents' \in Seq(MsaStates) /\ Len(agents') = Len(agents)
        /\ DOMAIN agents' = DOMAIN agents
    <3> HIDE DEF f
    <3> QED
      BY <2>2, <2>3, PasswordAgents
  <2>5. \A i \in Asked : /\ agents'[i].delivered = agents[i].delivered
                         /\ agents'[i].phase # "asked" /\ agents'[i].told = "error"
    BY <1>1, <1>2, <2>3 DEF MsaStates
  <2>6. \A i \in DOMAIN agents \ Asked : agents'[i] = agents[i]
    BY <2>3
  <2>7. TypeOK'
    BY <1>4, <2>4, EndTypes DEF cancelPassword, TypeOK
  <2>8. givePassword => \A i \in Asked : agents'[i].told = agents[i].told
    BY <1>1, <1>2 DEF givePassword, MsaStates
  <2> QED
    BY <2>4, <2>5, <2>6, <2>7, <2>8
<1> QED
  BY <1>3, <1>4

\* An agent and what it was made for have their types.
LEMMA Members ==
    ASSUME TypeOK
    PROVE  /\ DOMAIN agents = DOMAIN payload
           /\ \A i \in DOMAIN agents : agents[i] \in MsaStates /\ payload[i] \in Payloads
<1>1. agents \in Seq(MsaStates) /\ payload \in Seq(Payloads) /\ Len(payload) = Len(agents)
  BY DEF TypeOK
<1>2. DOMAIN agents = DOMAIN payload
  BY <1>1
<1> QED
  BY <1>1, <1>2

LEMMA AgentType ==
    ASSUME TypeOK, NEW i \in DOMAIN agents,
           AgentDelivers(i) \/ AgentSent(i) \/ AgentError(i) \/ AgentComplains(i)
    PROVE  TypeOK'
<1>1. CASE AgentDelivers(i)
  BY <1>1, StepAgents DEF AgentDelivers, TypeOK
<1>2. CASE AgentSent(i)
  <2>1. agents' \in Seq(MsaStates) /\ Len(agents') = Len(agents) /\ DOMAIN agents = DOMAIN payload
    BY <1>2, StepAgents DEF AgentSent
  <2>2. payload[i].text \in Nat
    BY Members DEF Payloads
  <2>3. CASE world.original
    <3>0. sub' = [sub EXCEPT !.state = "UPDATING_FLAGS"]
      BY <1>2, <2>3 DEF AgentSent
    <3>1. sub' \in Subs
      BY <3>0 DEF TypeOK, Subs, States
    <3>2. tasks' \in SUBSET Tasks
      BY <1>2, <2>2, <2>3 DEF AgentSent, TypeOK, Tasks
    <3> QED
      BY <1>2, <2>1, <2>3, <3>1, <3>2 DEF AgentSent, TypeOK
  <2>4. CASE ~world.original
    BY <1>2, <2>1, <2>4, EndTypes DEF AgentSent, TypeOK
  <2> QED
    BY <2>3, <2>4
<1>3. CASE AgentError(i)
  BY <1>3, StepAgents, EndTypes DEF AgentError, TypeOK
<1>4. CASE AgentComplains(i)
  <2>1. payload' \in Seq(Payloads) /\ Len(payload') = Len(payload)
    <3>2. [payload[i] EXCEPT !.complained = TRUE] \in Payloads
      BY Members DEF Payloads
    <3>3. payload' = [payload EXCEPT ![i] = [payload[i] EXCEPT !.complained = TRUE]]
      <4>1. payload' = [payload EXCEPT ![i].complained = TRUE]
        BY <1>4 DEF AgentComplains
      <4> QED
        BY <4>1, Zenon
    <3> QED
      BY <3>2, <3>3 DEF TypeOK
  <2> QED
    BY <1>4, <2>1, EndTypes DEF AgentComplains, TypeOK
<1> QED
  BY <1>1, <1>2, <1>3, <1>4

LEMMA NextType == TypeOK /\ [SubmissionNext]_submissionVars => TypeOK'
<1> SUFFICES ASSUME TypeOK, [SubmissionNext]_submissionVars PROVE TypeOK'
  OBVIOUS
<1>1. CASE TaskFailed
  <2>1. tasks' \in SUBSET Tasks
    BY <1>1 DEF TaskFailed, TypeOK
  <2> QED
    BY <1>1, <2>1, EndTypes DEF TaskFailed, TypeOK
<1>2. CASE FlagsUpdated
  <2>1. tasks' \in SUBSET Tasks
    BY <1>2 DEF FlagsUpdated, TypeOK
  <2> QED
    BY <1>2, <2>1, EndTypes DEF FlagsUpdated, TypeOK
<1>3. CASE UNCHANGED submissionVars
  BY <1>3 DEF submissionVars, TypeOK
<1> QED
  BY <1>1, <1>2, <1>3, SendType, PasswordType, AppendType, UrlAuthType, AgentType DEF SubmissionNext

-----------------------------------------------------------------------------
(* One attempt at a time                                                    *)

\* Nothing of an attempt is under way, and the window stays.
LEMMA NothingInFlight ==
    ASSUME TypeOK, InFlight, tasks' = {}, Undecided' = {},
           \A i \in DOMAIN agents' : agents'[i].phase # "asked",
           ~window'.closing, ~flagged'
    PROVE  InFlight'
BY DEF InFlight, OneAtATime, OfThisAttempt

\* When all of an attempt is over, an agent may be made for it.
LEMMA InvokeInFlight ==
    ASSUME TypeOK, InFlight, NEW s \in Subs, NEW w \in Windows, slotInvokeMsaNow(s, w),
           Undecided = {}, tasks' = {}, ~w.enabled, ~w.closing, ~flagged'
    PROVE  InFlight'
<1>1. \A i \in DOMAIN agents : agents[i].phase # "asked" /\ agents[i].told # "nothing"
  BY DEF InFlight, OneAtATime, Undecided
<1>2. CASE Made(s, w)
  <2> DEFINE n == Len(agents) + 1
  <2>1. /\ DOMAIN agents' = DOMAIN agents \cup {n}
        /\ \A i \in DOMAIN agents : agents'[i] = agents[i]
        /\ agents'[n].told = "nothing" /\ payload'[n].attempt = s.attempt
    BY <1>2, MadeAgents
  <2>2. Undecided' = {n}
    BY <1>1, <2>1 DEF Undecided
  <2>3. sub'.attempt = s.attempt /\ window' = w
    BY <1>2 DEF Made, Subs
  <2>4. OneAtATime'
    BY <1>1, <2>1, <2>2, <2>3 DEF OneAtATime
  <2>5. OfThisAttempt'
    BY <2>1, <2>2, <2>3 DEF OfThisAttempt
  <2> QED
    BY <2>4, <2>5 DEF InFlight
<1>3. CASE NotMade(s, w)
  <2>1. Undecided' = {} /\ ~window'.closing
    BY <1>3 DEF NotMade, gotError, Undecided, Windows
  <2>2. \A i \in DOMAIN agents' : agents'[i].phase # "asked"
    BY <1>1, <1>3 DEF NotMade
  <2> QED
    BY <2>1, <2>2, NothingInFlight
<1> QED
  BY <1>2, <1>3, InvokeCases


\* Of the one task, nothing is left when it ends.
LEMMA LastTask ==
    ASSUME InFlight, NEW task \in tasks
    PROVE  tasks \ {task} = {} /\ Undecided = {} /\ ~window.enabled
BY DEF InFlight, OneAtATime

LEMMA SendInFlight ==
    ASSUME TypeOK, InFlight, ~window.closing, Send PROVE InFlight'
<1>1. PICK o \in Settings, t \in Subs, w \in Windows : SendsAs(o, t, w)
  BY SendCases
<1>2. tasks = {} /\ Undecided = {} /\ ~flagged
  <2>1. window.enabled
    BY <1>1 DEF SendsAs
  <2> QED
    BY <2>1 DEF InFlight, OneAtATime, OfThisAttempt
<1>3. CASE Saves(t, w)
  <2>1. /\ UNCHANGED <<agents, payload, flagged>> /\ window' = w
        /\ tasks' = {[kind |-> "append", text |-> IF world.catenate THEN t.attempt ELSE t.raw]}
    BY <1>1, <1>2, <1>3 DEF Saves, SendsAs
  <2>2. Undecided' = {}
    BY <1>2, <2>1 DEF Undecided
  <2>3. \A i \in DOMAIN agents : agents[i].phase # "asked"
    BY <1>2 DEF InFlight, OneAtATime
  <2>4. OneAtATime'
    BY <1>1, <2>1, <2>2, <2>3 DEF OneAtATime, SendsAs
  <2>5. OfThisAttempt'
    BY <1>1, <1>2, <2>1, <2>2 DEF OfThisAttempt, SendsAs
  <2> QED
    BY <2>4, <2>5 DEF InFlight
<1>4. CASE slotInvokeMsaNow(t, w) /\ UNCHANGED tasks
  <2>1. ~w.enabled /\ ~w.closing /\ ~flagged' /\ tasks' = {}
    BY <1>1, <1>2, <1>4 DEF SendsAs
  <2> QED
    BY <1>2, <1>4, <2>1, InvokeInFlight
<1> QED
  BY <1>1, <1>3, <1>4 DEF SendsAs

LEMMA PasswordInFlight ==
    ASSUME TypeOK, InFlight, ~window.closing, givePassword \/ cancelPassword
    PROVE  InFlight'
<1>1. /\ DOMAIN agents' = DOMAIN agents
      /\ \A i \in DOMAIN agents \ Asked : agents'[i] = agents[i]
      /\ \A i \in Asked : /\ agents'[i].delivered = agents[i].delivered
                          /\ agents'[i].phase # "asked"
                          /\ givePassword => agents'[i].told = agents[i].told
                          /\ cancelPassword => agents'[i].told = "error"
  BY PasswordType
<1>2. Asked \in SUBSET Undecided /\ \E i \in Asked : TRUE
  BY DEF Asked, InFlight, OneAtATime, givePassword, cancelPassword
<1>3. tasks = {} /\ ~window.enabled /\ ~flagged
  BY <1>2 DEF InFlight, OneAtATime, OfThisAttempt
<1>4. \A i \in DOMAIN agents' : agents'[i].phase # "asked"
  BY <1>1 DEF Asked
<1>5. CASE givePassword
  <2>1. UNCHANGED <<sub, tasks, payload, flagged, window>>
    BY <1>5 DEF givePassword
  <2>2. Undecided' = Undecided
    BY <1>1, <1>2, <1>5 DEF Undecided
  <2> QED
    BY <1>1, <1>3, <1>4, <2>1, <2>2 DEF InFlight, OneAtATime, OfThisAttempt
<1>6. CASE cancelPassword
  <2>1. Undecided' = {}
    BY <1>1, <1>2, <1>6 DEF Undecided, InFlight, OneAtATime
  <2>2. tasks' = {} /\ ~window'.closing /\ ~flagged'
    BY <1>3, <1>6 DEF cancelPassword, gotError, TypeOK, Windows
  <2> QED
    BY <1>4, <2>1, <2>2, NothingInFlight
<1> QED
  BY <1>5, <1>6

LEMMA TaskInFlight ==
    ASSUME TypeOK, InFlight, ~window.closing,
           AppendCompleted \/ TaskFailed \/ slotGenUrlAuthReceived \/ FlagsUpdated
    PROVE  InFlight'
<1>1. PICK task \in tasks : \/ AppendCompleted \/ slotGenUrlAuthReceived
                            \/ (TaskFailed \/ FlagsUpdated) /\ tasks' = tasks \ {task}
  BY DEF AppendCompleted, TaskFailed, slotGenUrlAuthReceived, FlagsUpdated
<1>2. Undecided = {} /\ ~window.enabled /\ ~flagged
  BY LastTask DEF InFlight, OfThisAttempt
<1>3. \A i \in DOMAIN agents : agents[i].phase # "asked"
  BY <1>2 DEF InFlight, OneAtATime
<1>4. window \in Windows /\ tasks \in SUBSET Tasks
  BY DEF TypeOK
<1>5. CASE AppendCompleted
  <2>1. PICK done \in tasks :
           slotAppendSucceeded(Known(done), done) /\ UNCHANGED <<world, flagged>>
    BY <1>5 DEF AppendCompleted, Known
  <2> DEFINE s == Known(done)
  <2>2. s \in Subs /\ tasks \ {done} = {}
    BY <1>4, KnownType, LastTask
  <2> HIDE DEF s
  <2>3. CASE s.appendUid # 0 /\ s.useBurl
    <3>1. /\ tasks' = {[kind |-> "genurlauth", text |-> s.appendUid]}
          /\ UNCHANGED <<agents, payload, window, flagged>>
      BY <2>1, <2>2, <2>3 DEF slotAppendSucceeded, s
    <3>2. Undecided' = {}
      BY <1>2, <3>1 DEF Undecided
    <3> QED
      BY <1>2, <1>3, <3>1, <3>2 DEF InFlight, OneAtATime, OfThisAttempt
  <2>4. CASE ~(s.appendUid # 0 /\ s.useBurl)
    <3> DEFINE r == IF s.appendUid # 0 THEN [s EXCEPT !.appendUidReceived = TRUE]
                    ELSE [s EXCEPT !.useBurl = FALSE]
    <3>1. slotInvokeMsaNow(r, window) /\ tasks' = {} /\ ~flagged'
      BY <1>2, <2>1, <2>2, <2>4 DEF slotAppendSucceeded, s
    <3>2. r \in Subs
      BY <2>2, AppendHandsOn
    <3> HIDE DEF r
    <3> QED
      BY <1>2, <1>4, <3>1, <3>2, InvokeInFlight
  <2> QED
    BY <2>3, <2>4
<1>6. CASE slotGenUrlAuthReceived
  <2>1. PICK done \in tasks : /\ slotInvokeMsaNow(Url(done), window) /\ tasks' = tasks \ {done}
                              /\ UNCHANGED flagged
    BY <1>6 DEF slotGenUrlAuthReceived, Url
  <2>2. Url(done) \in Subs /\ tasks' = {}
    BY <1>4, <2>1, UrlType, LastTask
  <2> QED
    BY <1>2, <1>4, <2>1, <2>2, InvokeInFlight
<1>7. CASE TaskFailed
  <2>1. PICK done \in tasks : /\ gotError(sub, window) /\ tasks' = tasks \ {done}
                              /\ UNCHANGED <<agents, payload, flagged>>
    BY <1>7 DEF TaskFailed
  <2>2. tasks' = {} /\ Undecided' = {} /\ ~window'.closing /\ ~flagged'
    BY <1>2, <1>4, <2>1, LastTask DEF gotError, Undecided, Windows
  <2> QED
    BY <1>3, <2>1, <2>2, NothingInFlight
<1>8. CASE FlagsUpdated
  <2>1. PICK done \in tasks : /\ done.kind = "flags" /\ succeed(sub, window)
                              /\ tasks' = tasks \ {done} /\ UNCHANGED <<agents, payload>>
    BY <1>8 DEF FlagsUpdated
  <2>2. sub'.attempt = sub.attempt /\ window'.closing /\ ~window'.enabled
    BY <1>2, <1>4, <2>1 DEF succeed, TypeOK, Subs, Windows
  <2>3. Delivered'
    BY <2>1, <2>2 DEF InFlight, OfThisAttempt, Delivered
  <2>4. tasks' = {} /\ Undecided' = {}
    BY <1>2, <2>1, LastTask DEF Undecided
  <2> QED
    BY <1>3, <2>1, <2>2, <2>3, <2>4 DEF InFlight, OneAtATime, OfThisAttempt
<1> QED
  BY <1>5, <1>6, <1>7, <1>8

LEMMA AgentInFlight ==
    ASSUME LateErrors = FALSE, TypeOK, InFlight, ~window.closing, NEW i \in DOMAIN agents,
           AgentDelivers(i) \/ AgentSent(i) \/ AgentError(i) \/ AgentComplains(i)
    PROVE  InFlight'
<1>1. agents[i] \in MsaStates /\ window \in Windows /\ sub \in Subs /\ ~flagged
  BY Members DEF TypeOK, InFlight, OfThisAttempt
<1>2. ASSUME Step(i), agents'[i].told # "nothing", agents[i].told = "nothing",
             agents'[i].phase # "asked"
      PROVE  /\ tasks = {} /\ Undecided' = {} /\ DOMAIN agents' = DOMAIN agents
             /\ \A j \in DOMAIN agents' : agents'[j].phase # "asked"
  <2>1. i \in Undecided
    BY <1>2 DEF Undecided
  <2>2. tasks = {} /\ \A j \in DOMAIN agents \ {i} : j \notin Undecided /\ agents[j].phase # "asked"
    BY <2>1 DEF InFlight, OneAtATime
  <2> QED
    BY <1>2, <2>2, StepAgents DEF Undecided
<1>3. CASE AgentDelivers(i)
  <2>1. /\ agents'[i] = [agents[i] EXCEPT !.delivered = TRUE]
        /\ UNCHANGED <<sub, tasks, payload, flagged, window>> /\ Step(i)
    BY <1>3 DEF AgentDelivers, M!Deliver
  <2>2. /\ agents'[i].told = agents[i].told /\ agents'[i].phase = agents[i].phase
        /\ agents'[i].delivered
    BY <1>1, <2>1 DEF MsaStates
  <2>3. DOMAIN agents' = DOMAIN agents
        /\ \A j \in DOMAIN agents : /\ agents'[j].told = agents[j].told
                                    /\ agents'[j].phase = agents[j].phase
                                    /\ agents[j].delivered => agents'[j].delivered
    BY <2>1, <2>2, StepAgents
  <2>4. Undecided' = Undecided /\ (Delivered => Delivered')
    BY <2>1, <2>3 DEF Undecided, Delivered
  <2> QED
    BY <2>1, <2>3, <2>4 DEF InFlight, OneAtATime, OfThisAttempt
<1>4. CASE AgentSent(i)
  <2>1. /\ agents[i].told = "nothing" /\ agents[i].delivered /\ agents[i].phase = "sending"
        /\ agents'[i] = [agents[i] EXCEPT !.told = "sent"] /\ Step(i)
        /\ UNCHANGED <<payload, flagged>>
    BY <1>4 DEF AgentSent, M!Sent
  <2>2. agents'[i].told # "nothing" /\ agents'[i].phase # "asked" /\ agents'[i].delivered
    BY <1>1, <2>1 DEF MsaStates
  <2>3. /\ tasks = {} /\ Undecided' = {} /\ DOMAIN agents' = DOMAIN agents
        /\ \A j \in DOMAIN agents' : agents'[j].phase # "asked"
    BY <1>2, <2>1, <2>2
  <2>4. i \in Undecided /\ ~window.enabled /\ payload[i].attempt = sub.attempt
    BY <2>1 DEF Undecided, InFlight, OneAtATime, OfThisAttempt
  <2>5. sub'.attempt = sub.attempt /\ ~window'.enabled
    BY <1>1, <1>4, <2>4 DEF AgentSent, succeed, Subs, Windows
  <2>6. Delivered'
    BY <2>1, <2>2, <2>3, <2>4, <2>5 DEF Delivered
  <2>7. \A t, u \in tasks' : t = u
    BY <1>4, <2>3 DEF AgentSent
  <2> QED
    BY <1>1, <2>1, <2>3, <2>5, <2>6, <2>7 DEF InFlight, OneAtATime, OfThisAttempt
<1>5. CASE AgentError(i)
  <2>1. /\ agents[i].told = "nothing" /\ agents[i].phase = "sending"
        /\ agents'[i] = [agents[i] EXCEPT !.told = "error"] /\ Step(i)
        /\ gotError(sub, window) /\ UNCHANGED <<tasks, flagged>>
    BY <1>5 DEF AgentError, M!Error
  <2>2. agents'[i].told # "nothing" /\ agents'[i].phase # "asked"
    BY <1>1, <2>1 DEF MsaStates
  <2>3. ~window'.closing
    BY <1>1, <2>1 DEF gotError, Windows
  <2> QED
    BY <1>1, <1>2, <2>1, <2>2, <2>3, NothingInFlight
<1>6. CASE AgentComplains(i)
  <2>1. window.enabled /\ gotError(sub, window) /\ UNCHANGED <<tasks, agents, flagged>>
    BY <1>6 DEF AgentComplains
  <2>2. tasks' = {} /\ Undecided' = {} /\ ~window'.closing
    BY <1>1, <2>1 DEF gotError, Windows, InFlight, OneAtATime, Undecided
  <2>3. \A j \in DOMAIN agents' : agents'[j].phase # "asked"
    BY <2>1, <2>2 DEF InFlight, OneAtATime, Undecided
  <2> QED
    BY <1>1, <2>1, <2>2, <2>3, NothingInFlight
<1> QED
  BY <1>3, <1>4, <1>5, <1>6

LEMMA NextInFlight ==
    ASSUME LateErrors = FALSE, TypeOK, InFlight, [SubmissionNext]_submissionVars PROVE InFlight'
<1>1. CASE UNCHANGED submissionVars
  BY <1>1 DEF submissionVars, InFlight, OneAtATime, OfThisAttempt, Undecided, Delivered
<1>2. CASE SubmissionNext
  BY <1>2, SendInFlight, PasswordInFlight, TaskInFlight, AgentInFlight DEF SubmissionNext
<1> QED
  BY <1>1, <1>2

LEMMA InitInFlight == SubmissionInit => InFlight
<1> SUFFICES ASSUME SubmissionInit PROVE InFlight
  OBVIOUS
<1>1. tasks = {} /\ DOMAIN agents = {} /\ ~window.closing /\ ~flagged
  <2>1. agents = <<>> /\ window.closing = FALSE
    BY DEF SubmissionInit
  <2>2. DOMAIN agents = {}
    BY <2>1
  <2> QED
    BY <2>1, <2>2 DEF SubmissionInit
<1>2. Undecided = {}
  BY <1>1 DEF Undecided
<1> QED
  BY <1>1, <1>2 DEF InFlight, OneAtATime, OfThisAttempt

LEMMA AlwaysInFlight ==
    ASSUME LateErrors = FALSE PROVE SubmissionSpec => [](TypeOK /\ InFlight)
<1>1. TypeOK /\ InFlight /\ [SubmissionNext]_submissionVars => InFlight'
  BY NextInFlight
<1> QED
  BY <1>1, InitType, NextType, InitInFlight, PTL DEF SubmissionSpec

-----------------------------------------------------------------------------
\* Unless an agent of an earlier attempt complains again in the middle of the next one,
\* the user can press "Send" only when all of the last attempt is over, whatever failed in
\* it: no task and no agent is left which could still send the message a second time.
THEOREM AlwaysOneAttempt ==
    ASSUME LateErrors = FALSE PROVE SubmissionSpec => []OneAttemptAtATime
<1>1. InFlight => OneAttemptAtATime
  BY DEF InFlight, OneAtATime, OneAttemptAtATime, Undecided
<1> QED
  BY <1>1, AlwaysInFlight, PTL

\* Under the same assumption the window is told of a success, and the original gets its
\* flag, only when the text of the last attempt has left.
THEOREM SuccessAlwaysDelivered ==
    ASSUME LateErrors = FALSE PROVE SubmissionSpec => []SuccessIsDelivered
<1>1. InFlight => SuccessIsDelivered
  BY DEF InFlight, OfThisAttempt, SuccessIsDelivered, Delivered
<1> QED
  BY <1>1, AlwaysInFlight, PTL


-----------------------------------------------------------------------------
(* What is sent                                                             *)

\* What is remembered of the way through IMAP is of those who save.
SavesFirst == sub.appendUidReceived \/ sub.genUrlAuthReceived => window.options.save

\* What the tasks deal with is the text of the last attempt.
TaskTexts ==
    \A t \in tasks :
        /\ t.kind \in {"append", "genurlauth"} => t.text = sub.attempt /\ window.options.save
        /\ t.kind = "append" =>
              /\ sub.attempt # 0 /\ ~sub.genUrlAuthReceived
              /\ sub.useBurl \/ useImapSubmit \/ sub.raw = sub.attempt
        /\ t.kind = "genurlauth" =>
              /\ sub.appendUid = sub.attempt /\ sub.appendUidReceived /\ sub.useBurl
              /\ sub.attempt \in saved

AgentTexts ==
    \A i \in DOMAIN agents : /\ payload[i].text = payload[i].attempt
                             /\ payload[i].save => payload[i].attempt \in saved

Texts == SavesFirst /\ TaskTexts /\ AgentTexts

\* An agent is given the text of the attempt for which it is made.
LEMMA InvokeTexts ==
    ASSUME TypeOK, Texts, NEW s \in Subs, NEW w \in Windows, slotInvokeMsaNow(s, w),
           (useImapSubmit => s.appendUidReceived) => Given(s) = s.attempt,
           s.save => s.attempt \in saved', saved \in SUBSET saved', tasks' = {},
           s.appendUidReceived \/ s.genUrlAuthReceived => w.options.save
    PROVE  Texts'
<1>1. CASE Made(s, w)
  <2> DEFINE n == Len(agents) + 1
  <2>1. /\ DOMAIN agents' = DOMAIN agents \cup {n}
        /\ \A i \in DOMAIN agents : payload'[i] = payload[i]
        /\ payload'[n].attempt = s.attempt /\ payload'[n].save = s.save
        /\ payload'[n].text = Given(s)
    BY <1>1, MadeAgents
  <2>2. Given(s) = s.attempt
    BY <1>1 DEF Made
  <2>3. AgentTexts'
    BY <2>1, <2>2 DEF AgentTexts, Texts
  <2>4. SavesFirst'
    BY <1>1 DEF Made, SavesFirst, Subs
  <2> QED
    BY <2>3, <2>4 DEF Texts, TaskTexts
<1>2. CASE NotMade(s, w)
  <2>1. UNCHANGED <<agents, payload>>
    BY <1>2 DEF NotMade
  <2>2. AgentTexts'
    BY <2>1 DEF AgentTexts, Texts
  <2>3. /\ sub'.appendUidReceived = s.appendUidReceived
        /\ sub'.genUrlAuthReceived = s.genUrlAuthReceived /\ window'.options = w.options
    BY <1>2 DEF NotMade, gotError, Subs, Windows
  <2>4. SavesFirst'
    BY <2>3 DEF SavesFirst
  <2> QED
    BY <2>2, <2>4 DEF Texts, TaskTexts
<1> QED
  BY <1>1, <1>2, InvokeCases

LEMMA SendTexts ==
    ASSUME SettingsChange = FALSE, \A o \in Settings : o.burl => o.save,
           TypeOK, InFlight, Texts, Send
    PROVE  Texts'
<1>1. PICK o \in Settings, t \in Subs, w \in Windows : SendsAs(o, t, w)
  BY SendCases
<1>2. /\ window.enabled /\ o = window.options /\ w.options = o /\ t.save = o.save
      /\ t.attempt = sub.attempt + 1 /\ t.useBurl = (o.burl /\ world.urlauth)
      /\ t.raw = IF shouldBuildMessageLocally(t) THEN t.attempt ELSE 0
      /\ t.appendUidReceived = sub.appendUidReceived
      /\ t.genUrlAuthReceived = sub.genUrlAuthReceived
      /\ UNCHANGED <<world, saved>>
  BY <1>1 DEF SendsAs
<1>3. tasks = {} /\ t.attempt # 0
  BY <1>2 DEF InFlight, OneAtATime, TypeOK, Subs
<1>4. CASE Saves(t, w)
  <2>1. /\ sub'.attempt = t.attempt /\ sub'.useBurl = t.useBurl /\ sub'.raw = t.raw
        /\ ~sub'.appendUidReceived /\ ~sub'.genUrlAuthReceived
        /\ t.save /\ window' = w /\ UNCHANGED <<agents, payload>>
    BY <1>4 DEF Saves
  <2> DEFINE text == IF world.catenate THEN t.attempt ELSE t.raw
  <2>2. tasks' = {[kind |-> "append", text |-> text]}
    BY <1>3, <1>4 DEF Saves
  <2>3. text = t.attempt
    BY <1>2 DEF shouldBuildMessageLocally
  <2>4. t.useBurl \/ useImapSubmit \/ t.raw = t.attempt
    BY <1>2 DEF shouldBuildMessageLocally
  <2>5. useImapSubmit' = useImapSubmit
    BY <1>2 DEF useImapSubmit
  <2> HIDE DEF text
  <2>6. TaskTexts'
    <3>1. \A u \in tasks' : u.kind = "append" /\ u.text = t.attempt
      BY <2>2, <2>3
    <3>2. window'.options.save /\ sub'.attempt # 0 /\ ~sub'.genUrlAuthReceived
      BY <1>2, <1>3, <2>1
    <3>3. sub'.useBurl \/ useImapSubmit' \/ sub'.raw = sub'.attempt
      BY <2>1, <2>4, <2>5
    <3> QED
      BY <2>1, <3>1, <3>2, <3>3 DEF TaskTexts
  <2>7. AgentTexts' /\ SavesFirst'
    BY <1>2, <2>1 DEF Texts, AgentTexts, SavesFirst
  <2> QED
    BY <2>6, <2>7 DEF Texts
<1>5. CASE ~t.save /\ slotInvokeMsaNow(t, w) /\ UNCHANGED tasks
  <2>1. ~t.appendUidReceived /\ ~t.genUrlAuthReceived /\ ~t.useBurl
    BY <1>2, <1>5 DEF Texts, SavesFirst
  <2>2. (useImapSubmit => t.appendUidReceived) => Given(t) = t.attempt
    BY <1>2, <2>1 DEF Given, shouldBuildMessageLocally
  <2> QED
    BY <1>2, <1>3, <1>5, <2>1, <2>2, InvokeTexts
<1> QED
  BY <1>1, <1>4, <1>5 DEF SendsAs

LEMMA AppendTexts ==
    ASSUME UidPlus = {TRUE}, TypeOK, InFlight, Texts, AppendCompleted PROVE Texts'
<1>1. PICK task \in tasks :
         /\ task.kind = "append" /\ saved' = saved \cup {task.text}
         /\ slotAppendSucceeded(Known(task), task) /\ UNCHANGED <<world, flagged>>
  BY DEF AppendCompleted, Known
<1>2. task \in Tasks /\ world.uidplus /\ window \in Windows
  BY DEF TypeOK, Worlds
<1>3. /\ task.text = sub.attempt /\ window.options.save
      /\ sub.attempt # 0 /\ ~sub.genUrlAuthReceived
      /\ sub.useBurl \/ useImapSubmit \/ sub.raw = sub.attempt
  BY <1>1 DEF Texts, TaskTexts
<1> DEFINE s == Known(task)
<1>4. /\ s \in Subs /\ s.attempt = sub.attempt /\ s.save = sub.save /\ s.raw = sub.raw
      /\ s.useBurl = sub.useBurl /\ s.appendUid = task.text
      /\ s.appendUidReceived = sub.appendUidReceived
      /\ s.genUrlAuthReceived = sub.genUrlAuthReceived
  BY <1>2, KnownType
<1>5. tasks \ {task} = {}
  BY LastTask
<1> HIDE DEF s
<1>6. CASE s.useBurl
  <2>1. /\ sub' = [s EXCEPT !.appendUidReceived = TRUE, !.state = "PREPARING_URLAUTH"]
        /\ tasks' = {[kind |-> "genurlauth", text |-> s.appendUid]}
        /\ UNCHANGED <<agents, payload, window>>
    BY <1>1, <1>3, <1>4, <1>5, <1>6 DEF slotAppendSucceeded, s
  <2>2. /\ sub'.attempt = s.attempt /\ sub'.appendUid = s.appendUid
        /\ sub'.appendUidReceived /\ sub'.useBurl
    BY <1>4, <1>6, <2>1 DEF Subs
  <2>3. TaskTexts'
    BY <1>1, <1>3, <1>4, <2>1, <2>2 DEF TaskTexts
  <2>4. AgentTexts' /\ SavesFirst'
    BY <1>1, <1>3, <2>1 DEF Texts, AgentTexts, SavesFirst
  <2> QED
    BY <2>3, <2>4 DEF Texts
<1>7. CASE ~s.useBurl
  <2> DEFINE r == IF s.appendUid # 0 THEN [s EXCEPT !.appendUidReceived = TRUE]
                  ELSE [s EXCEPT !.useBurl = FALSE]
  <2>1. slotInvokeMsaNow(r, window) /\ tasks' = {}
    BY <1>1, <1>5, <1>7 DEF slotAppendSucceeded, s
  <2>2. /\ r \in Subs /\ r.attempt = s.attempt /\ r.save = s.save /\ r.raw = s.raw
        /\ r.appendUid = s.appendUid /\ r.genUrlAuthReceived = s.genUrlAuthReceived
        /\ r.appendUidReceived /\ ~r.useBurl
    BY <1>3, <1>4, <1>7, AppendHandsOn
  <2> HIDE DEF r
  <2>3. Given(r) = r.attempt
    BY <1>3, <1>4, <1>7, <2>2 DEF Given
  <2>4. r.attempt \in saved' /\ saved \in SUBSET saved'
    BY <1>1, <1>3, <1>4, <2>2
  <2> QED
    BY <1>2, <1>3, <2>1, <2>2, <2>3, <2>4, InvokeTexts
<1> QED
  BY <1>6, <1>7

LEMMA UrlAuthTexts ==
    ASSUME TypeOK, InFlight, Texts, slotGenUrlAuthReceived PROVE Texts'
<1>1. PICK task \in tasks :
         /\ task.kind = "genurlauth" /\ slotInvokeMsaNow(Url(task), window)
         /\ tasks' = tasks \ {task} /\ UNCHANGED <<world, saved, flagged>>
  BY DEF slotGenUrlAuthReceived, Url
<1>2. task \in Tasks /\ window \in Windows
  BY DEF TypeOK
<1>3. /\ task.text = sub.attempt /\ window.options.save
      /\ sub.appendUid = sub.attempt /\ sub.appendUidReceived /\ sub.useBurl
      /\ sub.attempt \in saved
  BY <1>1 DEF Texts, TaskTexts
<1> DEFINE s == Url(task)
<1>4. /\ s \in Subs /\ s.attempt = sub.attempt
      /\ s.useBurl = sub.useBurl /\ s.urlauth = task.text /\ s.genUrlAuthReceived
      /\ s.appendUid = sub.appendUid /\ s.appendUidReceived = sub.appendUidReceived
  BY <1>2, UrlType
<1>5. tasks' = {}
  BY <1>1, LastTask
<1>6. slotInvokeMsaNow(s, window)
  BY <1>1
<1> HIDE DEF s
<1>7. Given(s) = s.attempt
  BY <1>3, <1>4 DEF Given
<1> QED
  BY <1>1, <1>2, <1>3, <1>4, <1>5, <1>6, <1>7, InvokeTexts

\* The other steps give nothing to anybody.
LEMMA OtherTexts ==
    ASSUME TypeOK, Texts, saved' = saved, world' = world, window'.options = window.options,
           \A f \in {"attempt", "appendUidReceived", "genUrlAuthReceived", "useBurl", "raw",
                     "appendUid"} : sub'[f] = sub[f],
           \A t \in tasks' : t \in tasks \/ t.kind = "flags",
           DOMAIN agents' = DOMAIN agents,
           \A i \in DOMAIN agents : /\ payload'[i].text = payload[i].text
                                    /\ payload'[i].attempt = payload[i].attempt
                                    /\ payload'[i].save = payload[i].save
    PROVE  Texts'
<1>1. useImapSubmit' = useImapSubmit
  BY DEF useImapSubmit
<1>2. /\ sub'.attempt = sub.attempt /\ sub'.appendUidReceived = sub.appendUidReceived
      /\ sub'.genUrlAuthReceived = sub.genUrlAuthReceived /\ sub'.useBurl = sub.useBurl
      /\ sub'.raw = sub.raw /\ sub'.appendUid = sub.appendUid
  OBVIOUS
<1>3. TaskTexts'
  BY <1>1, <1>2 DEF Texts, TaskTexts
<1>4. AgentTexts' /\ SavesFirst'
  BY <1>2 DEF Texts, AgentTexts, SavesFirst
<1> QED
  BY <1>3, <1>4 DEF Texts


LEMMA NextTexts ==
    ASSUME SettingsChange = FALSE, UidPlus = {TRUE}, \A o \in Settings : o.burl => o.save,
           TypeOK, InFlight, Texts, [SubmissionNext]_submissionVars
    PROVE  Texts'
<1>1. sub \in Subs /\ window \in Windows
  BY DEF TypeOK
<1>2. ASSUME gotError(sub, window) \/ succeed(sub, window)
      PROVE  /\ window'.options = window.options
             /\ \A f \in {"attempt", "appendUidReceived", "genUrlAuthReceived", "useBurl", "raw",
                          "appendUid"} : sub'[f] = sub[f]
  BY <1>1, <1>2 DEF gotError, succeed, Subs, Windows
<1>3. CASE Send
  BY <1>3, SendTexts
<1>4. CASE givePassword \/ cancelPassword
  <2>1. DOMAIN agents' = DOMAIN agents
    BY <1>4, PasswordType
  <2> QED
    BY <1>2, <1>4, <2>1, OtherTexts DEF givePassword, cancelPassword
<1>5. CASE AppendCompleted
  BY <1>5, AppendTexts
<1>6. CASE slotGenUrlAuthReceived
  BY <1>6, UrlAuthTexts
<1>7. CASE TaskFailed
  BY <1>2, <1>7, OtherTexts DEF TaskFailed
<1>8. CASE FlagsUpdated
  <2>1. PICK task \in tasks : /\ succeed(sub, window) /\ tasks' = tasks \ {task}
                              /\ UNCHANGED <<world, agents, payload, saved>>
    BY <1>8 DEF FlagsUpdated
  <2> QED
    BY <1>2, <2>1, OtherTexts
<1>9. ASSUME NEW i \in DOMAIN agents,
             AgentDelivers(i) \/ AgentSent(i) \/ AgentError(i) \/ AgentComplains(i)
      PROVE  Texts'
  <2>1. CASE AgentDelivers(i)
    BY <2>1, StepAgents, OtherTexts DEF AgentDelivers
  <2>2. CASE AgentSent(i)
    <3>1. DOMAIN agents' = DOMAIN agents /\ UNCHANGED <<world, payload, saved>>
      BY <2>2, StepAgents DEF AgentSent
    <3>2. CASE world.original
      <4>1. /\ sub' = [sub EXCEPT !.state = "UPDATING_FLAGS"] /\ window' = window
            /\ tasks' = tasks \cup {[kind |-> "flags", text |-> payload[i].text]}
        BY <2>2, <3>2 DEF AgentSent
      <4>2. \A f \in {"attempt", "appendUidReceived", "genUrlAuthReceived", "useBurl", "raw",
                      "appendUid"} : sub'[f] = sub[f]
        BY <1>1, <4>1 DEF Subs
      <4> QED
        BY <3>1, <4>1, <4>2, OtherTexts
    <3>3. CASE ~world.original
      <4>1. succeed(sub, window) /\ tasks' = tasks
        BY <2>2, <3>3 DEF AgentSent
      <4> QED
        BY <1>2, <3>1, <4>1, OtherTexts
    <3> QED
      BY <3>2, <3>3
  <2>3. CASE AgentError(i)
    BY <1>2, <2>3, StepAgents, OtherTexts DEF AgentError
  <2>4. CASE AgentComplains(i)
    <3>1. /\ gotError(sub, window) /\ payload' = [payload EXCEPT ![i].complained = TRUE]
          /\ UNCHANGED <<world, tasks, agents, saved>>
      BY <2>4 DEF AgentComplains
    <3>2. \A j \in DOMAIN agents : /\ payload'[j].text = payload[j].text
                                   /\ payload'[j].attempt = payload[j].attempt
                                   /\ payload'[j].save = payload[j].save
      BY <3>1, Members DEF Payloads
    <3> QED
      BY <1>2, <3>1, <3>2, OtherTexts
  <2> QED
    BY <1>9, <2>1, <2>2, <2>3, <2>4
<1>10. CASE UNCHANGED submissionVars
  BY <1>10, OtherTexts DEF submissionVars
<1> QED
  BY <1>3, <1>4, <1>5, <1>6, <1>7, <1>8, <1>9, <1>10 DEF SubmissionNext

LEMMA InitTexts == SubmissionInit => Texts
<1> SUFFICES ASSUME SubmissionInit PROVE Texts
  OBVIOUS
<1>1. agents = <<>> /\ tasks = {}
  BY DEF SubmissionInit
<1>2. ~sub.appendUidReceived /\ ~sub.genUrlAuthReceived
  BY DEF SubmissionInit
<1> QED
  BY <1>1, <1>2 DEF Texts, SavesFirst, TaskTexts, AgentTexts

\* With settings that stay, of which only those who save may ask for BURL, and a server that
\* tells the UID of what it has saved, what leaves is what the user wrote for this attempt,
\* on each of the three ways, and it is in the folder of sent mail when it should be there.
THEOREM AlwaysWhatWasWritten ==
    ASSUME LateErrors = FALSE, SettingsChange = FALSE, UidPlus = {TRUE},
           \A o \in Settings : o.burl => o.save
    PROVE  SubmissionSpec => []SendsWhatWasWritten
<1>1. TypeOK /\ InFlight /\ Texts /\ [SubmissionNext]_submissionVars => Texts'
  BY NextTexts
<1>2. Texts => SendsWhatWasWritten
  BY DEF Texts, AgentTexts, SendsWhatWasWritten
<1> QED
  BY <1>1, <1>2, InitTexts, AlwaysInFlight, PTL DEF SubmissionSpec

===================================================================================
