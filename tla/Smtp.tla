----------------------------------- MODULE Smtp -----------------------------------
(***************************************************************************)
(* MSA::SMTP (src/MSA/SMTP.cpp) and the client library beneath it          *)
(* (src/qwwsmtpclient/qwwsmtpclient.cpp): a queue of commands whose head   *)
(* is in progress, moved on by the lines that the server says and by what  *)
(* happens to the socket.  The methods are functions of the record of the  *)
(* client; done() and socketError() of the library run the slots of SMTP   *)
(* at once.  A server answers one line at a time, for the client waits for *)
(* each answer before it says anything else.                               *)
(***************************************************************************)
EXTENDS Naturals, Sequences

CONSTANTS
    Recipients,  \* how many recipients there are
    Early421     \* the server may answer 421 before it has seen the last recipient

ASSUME SmtpAssumption == Recipients \in Nat \ {0} /\ Early421 \in BOOLEAN

VARIABLES
    account,  \* the settings: encryptedConnect, startTls, auth
    client,   \* SMTP and QwwSmtpClient
    server    \* what the server has to answer, and whether it took the message

vars == <<account, client, server>>

Accounts == {a \in [encryptedConnect : BOOLEAN, startTls : BOOLEAN, auth : BOOLEAN] :
                ~(a.encryptedConnect /\ a.startTls)}

AuthModes == {"PLAIN", "LOGIN"}

Cmd(type) == [type |-> type, stage |-> 0, rcpts |-> Recipients, mode |-> "none"]

-----------------------------------------------------------------------------
(* What SMTP tells Submission                                               *)
Tell(c, verdict) == [c EXCEPT !.told = Append(@, verdict)]

\* Mutant: the library says done() for what has already failed.
DoneTwice(c, ok) == IF ok THEN Tell(c, "sent") ELSE Tell([c EXCEPT !.failed = TRUE], "error")

handleDone(c, ok) ==
    IF c.failed THEN c
    ELSE IF ok THEN Tell(c, "sent") ELSE Tell([c EXCEPT !.failed = TRUE], "error")

handleError(c) == Tell([c EXCEPT !.failed = TRUE], "error")

-----------------------------------------------------------------------------
(* QwwSmtpClientPrivate                                                     *)
Connected(c) == c.socket \in {"open", "closing"}

\* Writes to a socket which is not connected are lost.
Say(c, request) == IF Connected(c) THEN [c EXCEPT !.awaits = request] ELSE c

onDisconnected(c) ==
    LET d == [c EXCEPT !.inProgress = FALSE]
    IN IF c.queue = <<>> \/ Head(c.queue).type = "Disconnect" THEN handleDone(d, TRUE)
       ELSE handleDone([d EXCEPT !.queue = <<>>], FALSE)

\* Mutant: the queue is emptied as soon as the connection is in trouble.
OnErrorDropsQueue(c) == handleError([c EXCEPT !.queue = <<>>, !.inProgress = FALSE])

\* The socket emits error(), and disconnected() when it had been connected.
onError(c) ==
    LET d == onDisconnected(handleError([c EXCEPT !.socket = "closed", !.awaits = "nothing"]))
    IN IF Connected(c) THEN onDisconnected(d) ELSE d

\* Whether disconnected() comes before disconnectFromHost() returns depends on
\* what the socket has left to write: "atOnce" says so.
sendQuit(c, atOnce) ==
    IF ~Connected(c) THEN c
    ELSE IF atOnce THEN onDisconnected([c EXCEPT !.socket = "closed", !.awaits = "nothing"])
    ELSE [c EXCEPT !.socket = "closing", !.awaits = "QUIT"]

\* AuthAny stays as it is when the server offers nothing that is known.
ChosenMode(c) == IF "PLAIN" \in c.authModes THEN "PLAIN"
                 ELSE IF "LOGIN" \in c.authModes THEN "LOGIN" ELSE "Any"

StartHead(c, atOnce) ==
    LET type == Head(c.queue).type
    IN CASE type = "Connect" -> [c EXCEPT !.socket = "connecting"]
         [] type = "Disconnect" -> sendQuit(c, atOnce)
         [] type = "StartTLS" -> Say(c, "STARTTLS")
         [] type = "Authenticate" ->
                IF ChosenMode(c) = "Any" THEN handleDone(c, FALSE)
                ELSE Say([c EXCEPT !.queue[1].mode = ChosenMode(c)], "AUTH")
         [] type \in {"Mail", "MailBurl"} -> Say(c, "MAIL")

processNextCommand(c, atOnce) ==
    LET d == IF c.inProgress /\ c.queue # <<>> THEN [c EXCEPT !.queue = Tail(@)] ELSE c
    IN IF d.queue = <<>> THEN handleDone([d EXCEPT !.inProgress = FALSE], FALSE)
       ELSE [StartHead(d, atOnce) EXCEPT !.inProgress = TRUE]

Enqueue(c, type, atOnce) ==
    LET d == [c EXCEPT !.queue = Append(@, Cmd(type))]
    IN IF d.inProgress THEN d ELSE processNextCommand(d, atOnce)

Stage(c, stage, request) == Say([c EXCEPT !.queue[1].stage = stage], request)

sendRcpt(c) ==
    LET left == Head(c.queue).rcpts - 1
        d == [c EXCEPT !.queue[1].rcpts = left]
    IN Say(IF left = 0 THEN [d EXCEPT !.queue[1].stage = 1] ELSE d, "RCPT")

-----------------------------------------------------------------------------
(* _q_readFromSocket() for the last line of an answer, by the head of the   *)
(* queue; the lines before it bring only options.                           *)
readConnect(c, status, offered, atOnce) ==
    LET stage == Head(c.queue).stage
    IN CASE stage = 0 /\ status = 220 -> Stage(c, 1, "EHLO")
         [] stage = 1 /\ status = 250 ->
                processNextCommand([c EXCEPT !.authModes = @ \cup offered], atOnce)
         [] stage = 2 /\ status = 250 -> processNextCommand(c, atOnce)
         [] stage = 1 /\ status \in {421, 502} -> Stage(c, 2, "HELO")
         [] OTHER -> c

readStartTLS(c, status, offered, atOnce) ==
    LET stage == Head(c.queue).stage
    IN CASE stage = 0 /\ status = 220 -> Say(c, "handshake")
         [] stage = 1 /\ status = 250 ->
                processNextCommand([c EXCEPT !.authModes = @ \cup offered], atOnce)
         [] OTHER -> handleDone(c, FALSE)

\* The stage stays at 1 while LOGIN sends the password.
readAuthenticate(c, status, atOnce) ==
    LET stage == Head(c.queue).stage
        plain == Head(c.queue).mode = "PLAIN"
    IN CASE stage = 0 /\ status = 334 -> Stage(c, 1, "credentials")
         [] stage = 1 /\ status = 334 /\ ~plain -> Say(c, "credentials")
         [] stage = 1 /\ status = 334 /\ plain -> processNextCommand(c, atOnce)
         [] status = 235 -> processNextCommand(c, atOnce)
         [] OTHER -> handleDone(c, FALSE)

\* After 421 to MAIL FROM, or to any recipient but the last, both the first branch
\* and the last one are taken.
readMail(c, status, atOnce) ==
    LET stage == Head(c.queue).stage
        burl == Head(c.queue).type = "MailBurl"
        d == IF stage = 0 /\ status = 421 THEN processNextCommand(c, atOnce) ELSE c
    IN CASE stage = 0 /\ status = 250 -> sendRcpt(d)
         [] stage = 1 /\ status = 250 -> Stage(d, 2, IF burl THEN "BURL" ELSE "DATA")
         [] stage = 2 /\ status = 354 /\ ~burl -> Stage(d, 3, "content")
         [] status = 250 /\ stage = (IF burl THEN 2 ELSE 3) -> processNextCommand(d, atOnce)
         [] OTHER -> processNextCommand(handleDone(d, FALSE), atOnce)

\* head() of an empty queue is whatever the build makes of it.
readFromSocket(c, status, offered, atOnce) ==
    LET d == [c EXCEPT !.awaits = "nothing"]
    IN IF c.queue = <<>> THEN [d EXCEPT !.lineWithoutCommand = TRUE]
       ELSE CASE Head(c.queue).type = "Connect" -> readConnect(d, status, offered, atOnce)
              [] Head(c.queue).type = "StartTLS" -> readStartTLS(d, status, offered, atOnce)
              [] Head(c.queue).type = "Authenticate" -> readAuthenticate(d, status, atOnce)
              [] Head(c.queue).type \in {"Mail", "MailBurl"} -> readMail(d, status, atOnce)
              [] Head(c.queue).type = "Disconnect" -> d

-----------------------------------------------------------------------------
(* MSA::SMTP                                                                *)
\* Mutant: whoever wants to authenticate does so before STARTTLS.
AuthenticateFirst(c) ==
    LET d == Enqueue([c EXCEPT !.waiting = FALSE], "Connect", FALSE)
    IN [d EXCEPT !.queue = @ \o (IF account.auth THEN <<Cmd("Authenticate")>> ELSE <<>>)
                             \o (IF account.startTls THEN <<Cmd("StartTLS")>> ELSE <<>>)
                             \o <<Cmd(c.mode), Cmd("Disconnect")>>]

\* The Connect which is put in the queue first starts the queue, or waits with the
\* others when the queue is stuck: the rest is only appended.
sendContinueGotPassword(c) ==
    LET optional(wanted, type) == IF wanted THEN <<Cmd(type)>> ELSE <<>>
        d == Enqueue([c EXCEPT !.waiting = FALSE], "Connect", FALSE)
    IN [d EXCEPT !.queue = @ \o optional(account.startTls, "StartTLS")
                             \o optional(account.auth, "Authenticate")
                             \o <<Cmd(c.mode), Cmd("Disconnect")>>]

Init ==
    /\ account \in Accounts
    /\ client = [queue |-> <<>>, inProgress |-> FALSE, socket |-> "closed",
                 encrypted |-> FALSE, authModes |-> {}, awaits |-> "nothing",
                 lineWithoutCommand |-> FALSE, mode |-> "none", waiting |-> FALSE,
                 failed |-> FALSE, cancelled |-> "no", told |-> <<>>]
    /\ server = [hasContent |-> FALSE, accepted |-> FALSE, challenged |-> FALSE]

\* sendMail() and sendBurl(); without a password one is asked for.
send(mode) ==
    /\ client.mode = "none"
    /\ LET c == [client EXCEPT !.mode = mode, !.waiting = TRUE]
       IN client' = IF account.auth THEN c ELSE sendContinueGotPassword(c)
    /\ UNCHANGED <<account, server>>

\* A cancelled SMTP still waits: the password of the next attempt comes to it, too.
setPassword ==
    /\ client.waiting
    /\ client' = sendContinueGotPassword(client)
    /\ UNCHANGED <<account, server>>

\* The user refuses to give a password; Submission cancels all the agents that
\* it has made, those of earlier attempts with the one that asks.
cancel ==
    /\ client.cancelled = "no" /\ (client.waiting \/ client.failed)
    /\ \E atOnce \in BOOLEAN :
         LET c == Enqueue([client EXCEPT !.cancelled = IF client.waiting THEN "asked" ELSE "late"],
                          "Disconnect", atOnce)
         IN client' = IF c.failed THEN c ELSE handleError(c)
    /\ UNCHANGED <<account, server>>

-----------------------------------------------------------------------------
(* The socket                                                               *)
onConnected ==
    /\ client.socket = "connecting"
    /\ client' = [client EXCEPT !.socket = "open", !.awaits = "banner", !.authModes = {},
                                !.encrypted = account.encryptedConnect]
    /\ UNCHANGED <<account, server>>

connectionFails ==
    /\ client.socket = "connecting"
    /\ client' = onError(client)
    /\ UNCHANGED <<account, server>>

\* startTls() has connected encrypted() with _q_encrypted().
encrypted ==
    /\ client.awaits = "handshake"
    /\ client' = Stage([client EXCEPT !.encrypted = TRUE], 1, "EHLO")
    /\ UNCHANGED <<account, server>>

\* The errors are not ignored by anybody, so that the socket gives up.
handleSslErrors ==
    /\ \/ client.awaits = "handshake"
       \/ (client.socket = "connecting" /\ account.encryptedConnect)
    /\ client' = onError(Tell(client, "error"))
    /\ UNCHANGED <<account, server>>

\* The server, or the network, ends the connection.
connectionLost ==
    /\ Connected(client)
    /\ client' = onError(client)
    /\ UNCHANGED <<account, server>>

disconnected ==
    /\ client.socket = "closing"
    /\ client' = onDisconnected([client EXCEPT !.socket = "closed", !.awaits = "nothing"])
    /\ UNCHANGED <<account, server>>

-----------------------------------------------------------------------------
(* The server.  502 stands for itself, 501 and 554, 500 for all that the    *)
(* client does not know; 421 announces that the server is about to close    *)
(* the connection and may come at any time.                                 *)
Answers ==
    CASE client.awaits = "banner" -> {220, 421, 500}
      [] client.awaits \in {"EHLO", "HELO"} -> {250, 421, 500, 502}
      [] client.awaits = "STARTTLS" -> {220, 421, 500}
      [] client.awaits = "AUTH" -> {334, 421, 500}
      [] client.awaits = "credentials" -> {235, 421, 500}
                                            \cup (IF server.challenged THEN {} ELSE {334})
      [] client.awaits \in {"MAIL", "RCPT"} ->
            {250, 500} \cup (IF Early421 \/ Head(client.queue).stage = 1 THEN {421} ELSE {})
      [] client.awaits = "DATA" -> {354, 421, 500}
      [] client.awaits \in {"content", "BURL"} -> IF server.accepted THEN {250} ELSE {421, 500}
      [] client.awaits = "QUIT" -> {221}
      [] client.awaits = "nothing" -> {421}
      [] OTHER -> {}

answer ==
    /\ Connected(client)
    /\ \E status \in Answers, offered \in SUBSET AuthModes, atOnce \in BOOLEAN :
         /\ offered = {} \/ (client.awaits = "EHLO" /\ status = 250)
         /\ client' = readFromSocket(client, status, offered, atOnce)
         /\ server' = [server EXCEPT
                          !.challenged = @ \/ (client.awaits = "credentials" /\ status = 334),
                          !.hasContent = client'.awaits \in {"content", "BURL"}]
    /\ UNCHANGED account

\* The message has arrived and is taken; the client may have lost the connection.
accept ==
    /\ server.hasContent /\ ~server.accepted
    /\ server' = [server EXCEPT !.accepted = TRUE]
    /\ UNCHANGED <<account, client>>

Next ==
    \/ \E mode \in {"Mail", "MailBurl"} : send(mode)
    \/ setPassword \/ cancel
    \/ onConnected \/ connectionFails \/ encrypted \/ handleSslErrors
    \/ connectionLost \/ disconnected
    \/ answer \/ accept

(* Sockets end what they began; a server answers, takes a message or        *)
(* refuses it, and does not keep a connection whose client says nothing.    *)
answers == client.awaits # "nothing" /\ answer
closesIdle == client.awaits = "nothing" /\ connectionLost

Fairness ==
    /\ WF_vars(onConnected \/ connectionFails) /\ WF_vars(disconnected)
    /\ WF_vars(encrypted \/ handleSslErrors) /\ WF_vars(answers) /\ WF_vars(closesIdle)

Spec == Init /\ [][Next]_vars /\ Fairness

-----------------------------------------------------------------------------
\* Of a history of verdicts which contradict each other the agent has promised
\* nothing: "both" is no value of Msa.
Phase == CASE client.mode = "none" -> "idle"
           [] client.mode # "none" /\ client.cancelled = "asked" -> "cancelled"
           [] client.mode # "none" /\ client.cancelled # "asked" ->
                IF client.waiting THEN "asked" ELSE "sending"

Verdict == IF client.told = <<>> THEN "nothing"
           ELSE IF \E i \in DOMAIN client.told : client.told[i] # client.told[1] THEN "both"
           ELSE client.told[1]

Agent == INSTANCE Msa WITH
    msa <- [phase |-> Phase, delivered |-> server.accepted, told |-> Verdict]

\* SMTP is an agent as Submission expects it: it says sent() only when the server has
\* taken the message, never both sent() and error(), never sends after it was
\* cancelled at the question for a password, and every attempt ends with a verdict
\* whatever the server answers and wherever the connection breaks.
ImplementsMsa == Agent!Spec

\* A line of the server always finds the command which it answers, or QUIT, at the
\* head of the queue, for the library looks at the head without asking.
LinesFindCommand == ~client.lineWithoutCommand

\* With STARTTLS in the settings nothing but EHLO, HELO and STARTTLS is said before the
\* connection is encrypted, in whichever order the queue was filled and emptied.
EncryptsBeforeMail ==
    (account.startTls /\ client.awaits \in {"AUTH", "credentials", "MAIL", "RCPT", "DATA",
                                            "content", "BURL"})
        => client.encrypted
===================================================================================
