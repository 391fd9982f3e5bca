-------------------------------- MODULE Connection --------------------------------
(***************************************************************************)
(* How connections to the IMAP server are opened and lost: the Model, its  *)
(* OpenConnectionTask (src/Imap/Tasks/OpenConnectionTask.cpp), the part of *)
(* the Parser which is frozen while encryption is set up, the dialogs for  *)
(* the password and for the certificate, and the NetworkWatcher which goes *)
(* online again.  Only one connection is not in LOGOUT at a time, but the  *)
(* earlier ones may linger.  The methods are functions of the record of    *)
(* the client; a reply of the server and all that is done about it is one  *)
(* step, what is posted to the event loop is a step of its own.            *)
(***************************************************************************)
EXTENDS Naturals, SequencesExt

CONSTANTS
    MaxConnections,  \* how many connections are opened
    MaxRefusals,     \* how often LOGIN is refused
    MaxChoices,      \* how often the user goes offline or online
    MaxOutages       \* how often the system goes offline

ASSUME ConnectionAssumption ==
    /\ MaxConnections \in Nat \ {0}
    /\ {MaxRefusals, MaxChoices, MaxOutages} \subseteq Nat

VARIABLES
    account,  \* the settings: "plain", "startTls", "ssl"
    m,        \* the Model with its connections, the dialogs and the NetworkWatcher
    left      \* how often the environment may still do what the constants bound

vars == <<account, m, left>>

(* A connection: its ParserState and OpenConnectionTask, the commands that  *)
(* were given to its Parser and not answered, and how far the server is     *)
(* (epoch).  task is "none" when it is not among the activeTasks.           *)
New == [state |-> "NONE", task |-> "active", socket |-> "connecting",
        frozen |-> IF account = "ssl" THEN "encryption" ELSE "no",
        cmds |-> <<>>, logoutCmd |-> FALSE, greeted |-> FALSE,
        epoch |-> IF account = "ssl" THEN "handshake" ELSE "none",
        sslChain |-> FALSE, fresh |-> FALSE,
        caps |-> [epoch |-> "unknown", loginDisabled |-> FALSE, startTls |-> FALSE,
                  compress |-> FALSE, imap4 |-> TRUE]]

\* What the server may say about itself: LOGINDISABLED and STARTTLS go with the
\* encryption, COMPRESS=DEFLATE with the login.
CapsOf(epoch) ==
    {c \in [epoch : {epoch}, loginDisabled : BOOLEAN, startTls : BOOLEAN,
            compress : BOOLEAN, imap4 : BOOLEAN] :
        /\ c.startTls => epoch = "none"
        /\ c.compress <=> (epoch = "auth" /\ c.imap4)
        /\ c.loginDisabled => epoch # "auth"
        /\ ~c.imap4 => ~c.loginDisabled /\ ~c.startTls /\ epoch # "auth"}

Init ==
    /\ account \in {"plain", "startTls", "ssl"}
    /\ m = [conns |-> <<>>, password |-> "NOT_REQUESTED", prompts |-> 0,
            sslKnown |-> FALSE, sslDialogs |-> 0, policy |-> "offline",
            desired |-> "offline", online |-> TRUE, errors |-> 0, timer |-> FALSE,
            asserted |-> FALSE]
    /\ left = [refusals |-> MaxRefusals, choices |-> MaxChoices, outages |-> MaxOutages]

Opened == DOMAIN m.conns

-----------------------------------------------------------------------------
(* The Model                                                                *)
Put(x, i, c) == [x EXCEPT !.conns[i] = c]
Command(c, name) == [c EXCEPT !.cmds = Append(@, name)]
Die(c) == [c EXCEPT !.task = IF @ = "none" THEN "none" ELSE "dead"]

LogOut(c) ==
    IF c.state \in {"LOGOUT", "gone"} THEN c
    ELSE [Command(Die(c), "LOGOUT") EXCEPT !.state = "LOGOUT", !.logoutCmd = TRUE]

setNetworkPolicy(x, policy) ==
    IF policy = "offline"
    THEN [x EXCEPT !.policy = policy,
                   !.conns = [i \in DOMAIN x.conns |-> LogOut(x.conns[i])]]
    ELSE [x EXCEPT !.policy = policy]

\* The parser goes with its tasks and its socket, and is erased.
killParser(x, i) ==
    Put(x, i, [New EXCEPT !.state = "gone", !.task = "none", !.socket = "closed"])

changeConnectionState(x, i, state) ==
    LET y == [x EXCEPT !.conns[i].state = state]
    IN IF state = "AUTHENTICATED" THEN [y EXCEPT !.timer = FALSE] ELSE y

\* A server which is no IMAP4 server is left at once, its task stays.
updateCapabilities(x, i, caps) ==
    LET c == [x.conns[i] EXCEPT !.caps = caps, !.fresh = TRUE]
    IN IF caps.imap4 THEN Put(x, i, c)
       ELSE setNetworkPolicy(
                Put(x, i, [Command(c, "LOGOUT") EXCEPT !.state = "LOGOUT", !.logoutCmd = TRUE]),
                "offline")

\* An exception: killParser() and broadcastParseError()
Throw(x, i) == setNetworkPolicy(killParser(x, i), "offline")

-----------------------------------------------------------------------------
(* OpenConnectionTask                                                       *)
abortConnection(x, i) == setNetworkPolicy([x EXCEPT !.conns[i].task = "dead"], "offline")

\* onComplete(): the task is among the activeTasks no longer.
Complete(x, i) == [changeConnectionState(x, i, "AUTHENTICATED") EXCEPT !.conns[i].task = "none"]

Ask(x, i, state, command) ==
    LET y == changeConnectionState(x, i, state) IN Put(y, i, Command(y.conns[i], command))

\* Mutant: the capabilities are taken for fresh while LOGIN is on its way.
LoginKeepingCaps(x, i) == Put(x, i, Command(x.conns[i], "LOGIN"))

Login(c) == [Command(c, "LOGIN") EXCEPT !.fresh = FALSE]
login(x, i) == Put(x, i, Login(x.conns[i]))

\* Mutant: every connection asks on its own.
AskEveryTime(x, i) ==
    IF x.password = "AVAILABLE" THEN login(x, i)
    ELSE [x EXCEPT !.password = "ASKED_WAITING", !.prompts = @ + 1]

askForAuth(x, i) ==
    CASE x.password = "NOT_REQUESTED" ->
            [x EXCEPT !.password = "ASKED_WAITING", !.prompts = @ + 1]
      [] x.password = "ASKED_WAITING" -> x
      [] x.password = "AVAILABLE" -> login(x, i)

\* Mutant: only LOGINDISABLED leads to STARTTLS, not the settings.
StartTlsWhenForced(x, i) ==
    IF x.conns[i].caps.loginDisabled THEN Ask(x, i, "STARTTLS_ISSUED", "STARTTLS")
    ELSE askForAuth(changeConnectionState(x, i, "LOGIN"), i)

startTlsOrLoginNow(x, i) ==
    LET caps == x.conns[i].caps
    IN CASE (account = "startTls" \/ caps.loginDisabled) /\ ~caps.startTls -> abortConnection(x, i)
         [] (account = "startTls" \/ caps.loginDisabled) /\ caps.startTls ->
                Ask(x, i, "STARTTLS_ISSUED", "STARTTLS")
         [] OTHER -> askForAuth(changeConnectionState(x, i, "LOGIN"), i)

CompressOrComplete(x, i) ==
    IF x.conns[i].caps.compress THEN Ask(x, i, "COMPRESS_DEFLATE", "COMPRESS") ELSE Complete(x, i)

Connecting == {"NONE", "SSL_HANDSHAKE", "SSL_VERIFYING", "CONNECTED_PRETLS_PRECAPS"}

HandleGreeting(x, i, kind) ==
    LET c == x.conns[i]
    IN CASE kind = "PREAUTH" /\ account = "startTls" -> abortConnection(x, i)
         [] kind = "PREAUTH" /\ account # "startTls" ->
                IF c.fresh THEN CompressOrComplete(x, i)
                ELSE Ask(x, i, "POSTAUTH_PRECAPS", "CAPABILITY")
         [] kind = "OK" -> IF c.fresh THEN startTlsOrLoginNow(x, i)
                           ELSE Ask(x, i, "CONNECTED_PRETLS", "CAPABILITY")
         [] kind = "BYE" -> abortConnection(x, i)
         [] kind = "BAD" -> abortConnection(changeConnectionState(x, i, "LOGOUT"), i)
         [] kind = "NO" -> Throw(x, i)

\* checkCapabilitiesResult() and what follows it
HandleCapabilityResult(x, i, kind) ==
    LET c == x.conns[i]
    IN IF ~c.fresh \/ kind # "OK" THEN abortConnection(x, i)
       ELSE CASE c.state = "CONNECTED_PRETLS" -> startTlsOrLoginNow(x, i)
              [] c.state = "ESTABLISHED_PRECAPS" ->
                    IF c.caps.loginDisabled THEN abortConnection(x, i)
                    ELSE askForAuth(changeConnectionState(x, i, "LOGIN"), i)
              [] c.state = "POSTAUTH_PRECAPS" -> Complete(x, i)

HandleLoginResult(x, i, kind) ==
    IF kind # "OK" THEN askForAuth([x EXCEPT !.password = "NOT_REQUESTED"], i)
    ELSE IF x.conns[i].fresh THEN CompressOrComplete(x, i)
    ELSE Ask(x, i, "POSTAUTH_PRECAPS", "CAPABILITY")

\* handleStateHelper() for a tagged response
HandleTagged(x, i, kind) ==
    LET state == x.conns[i].state
    IN CASE state \in {"CONNECTED_PRETLS", "ESTABLISHED_PRECAPS", "POSTAUTH_PRECAPS"} ->
                HandleCapabilityResult(x, i, kind)
         [] state = "STARTTLS_ISSUED" ->
                IF kind = "OK" THEN changeConnectionState(x, i, "STARTTLS_HANDSHAKE")
                ELSE abortConnection(x, i)
         [] state = "LOGIN" -> HandleLoginResult(x, i, kind)
         [] state = "COMPRESS_DEFLATE" -> Complete(x, i)
         [] state = "LOGOUT" -> Throw(x, i)

\* responseReceived() routes a response to the task, if it is still there; a dead one
\* takes it without a look, and leaves.  Else the Model ignores what it did not expect.
Routed(x, i, handled) ==
    CASE x.conns[i].task = "dead" -> [x EXCEPT !.conns[i].task = "none"]
      [] x.conns[i].task = "none" -> x
      [] x.conns[i].task = "active" ->
            IF handled.conns[i].task = "dead" THEN [handled EXCEPT !.conns[i].task = "none"]
            ELSE handled

HasCaps(x, i, code) == IF code = {} THEN x ELSE updateCapabilities(x, i, CHOOSE c \in code : TRUE)

-----------------------------------------------------------------------------
(* The server.  An answer may bring the capabilities along, as a code or by *)
(* the untagged response before it, which somebody else may come between.   *)
Talks(i) ==
    /\ m.conns[i].socket = "open" /\ m.conns[i].frozen = "no"

SetEpoch(i, epoch) == Put(m, i, [m.conns[i] EXCEPT !.epoch = epoch])

Codes(epoch) == {{}} \cup {{c} : c \in CapsOf(epoch)}

Greeting(i) ==
    /\ Talks(i) /\ ~m.conns[i].greeted
    /\ \E kind \in {"OK", "PREAUTH", "BYE", "BAD", "NO"} :
         LET epoch == IF kind = "PREAUTH" THEN "auth" ELSE m.conns[i].epoch
             x == Put(m, i, [m.conns[i] EXCEPT !.epoch = epoch, !.greeted = TRUE])
         IN \E code \in (IF kind \in {"OK", "PREAUTH"} THEN Codes(epoch) ELSE {{}}) :
              LET y == HasCaps(x, i, code)
              IN m' = Routed(y, i, CASE y.conns[i].state \in Connecting -> HandleGreeting(y, i, kind)
                                     [] y.conns[i].state = "LOGOUT" /\ kind # "PREAUTH" -> y
                                     [] y.conns[i].state = "LOGOUT" /\ kind = "PREAUTH" -> Throw(y, i))
    /\ UNCHANGED <<account, left>>

Asked(i, name) == Talks(i) /\ m.conns[i].greeted /\ m.conns[i].cmds # <<>> /\ Head(m.conns[i].cmds) = name

\* The server answers CAPABILITY, or LOGIN when it has accepted it: the untagged response.
Capability(i) ==
    /\ Asked(i, "CAPABILITY") \/ Asked(i, "LOGIN")
    /\ ~m.conns[i].fresh
    /\ LET epoch == IF Asked(i, "LOGIN") THEN "auth" ELSE m.conns[i].epoch
           x == Put(m, i, [m.conns[i] EXCEPT !.epoch = epoch, !.task = IF @ = "dead" THEN "none" ELSE @])
       IN \E caps \in CapsOf(epoch) : m' = updateCapabilities(x, i, caps)
    /\ UNCHANGED <<account, left>>

\* Tagged OK or NO
Answer(i, kind, x) ==
    LET y == [x EXCEPT !.conns[i].cmds = Tail(@)] IN m' = Routed(y, i, HandleTagged(y, i, kind))

AnswerCapability(i) ==
    /\ Asked(i, "CAPABILITY")
    /\ \E kind \in {"OK", "NO"} : Answer(i, kind, m)
    /\ UNCHANGED <<account, left>>

AcceptLogin(i) ==
    /\ Asked(i, "LOGIN")
    /\ \E code \in Codes("auth") : Answer(i, "OK", HasCaps(SetEpoch(i, "auth"), i, code))
    /\ UNCHANGED <<account, left>>

RefuseLogin(i) ==
    /\ Asked(i, "LOGIN") /\ m.conns[i].epoch # "auth" /\ left.refusals > 0
    /\ Answer(i, "NO", m)
    /\ left' = [left EXCEPT !.refusals = @ - 1] /\ UNCHANGED account

\* finishStartTls() begins the handshake even when the server has refused.
AnswerStartTls(i) ==
    /\ Asked(i, "STARTTLS")
    /\ \E kind \in {"OK", "NO"} :
         Answer(i, kind, Put(m, i, [m.conns[i] EXCEPT !.epoch = IF kind = "OK" THEN "handshake" ELSE @,
                                                      !.frozen = "encryption"]))
    /\ UNCHANGED <<account, left>>

AnswerCompress(i) ==
    /\ Asked(i, "COMPRESS")
    /\ Answer(i, "OK", m)
    /\ UNCHANGED <<account, left>>

\* BYE, which a dead task takes, and OK, or BYE at any time.
AnswerLogout(i) ==
    /\ Asked(i, "LOGOUT")
    /\ m' = killParser(m, i)
    /\ UNCHANGED <<account, left>>

Bye(i) ==
    /\ Talks(i) /\ m.conns[i].greeted
    /\ LET x == IF m.conns[i].logoutCmd THEN m
                ELSE setNetworkPolicy(changeConnectionState(m, i, "LOGOUT"), "offline")
       IN m' = IF m.conns[i].task = "dead" THEN [m EXCEPT !.conns[i].task = "none"]
               ELSE killParser(x, i)
    /\ UNCHANGED <<account, left>>

-----------------------------------------------------------------------------
(* The socket and its Parser                                                *)
onConnected(i) ==
    /\ m.conns[i].socket = "connecting"
    /\ LET x == [m EXCEPT !.conns[i].socket = "open"]
       IN m' = IF m.conns[i].state = "LOGOUT" THEN x
               ELSE changeConnectionState(x, i, IF account = "ssl" THEN "SSL_HANDSHAKE"
                                                ELSE "CONNECTED_PRETLS_PRECAPS")
    /\ UNCHANGED <<account, left>>

Disconnected(i) ==
    /\ m.conns[i].socket # "closed"
    /\ LET c == m.conns[i]
       IN m' = IF c.logoutCmd \/ c.state = "LOGOUT" THEN killParser(m, i)
               ELSE setNetworkPolicy([killParser(m, i) EXCEPT !.errors = @ + 1], "offline")
    /\ UNCHANGED <<account, left>>

\* What the decision of the user does to a connection; unfreezeAfterEncryption() follows
\* whatever the state is.
Verifying(c) == c.state \in {"SSL_VERIFYING", "STARTTLS_VERIFYING"}

Decided(c, ok) ==
    LET d == [c EXCEPT !.frozen = "no"]
    IN CASE ok /\ c.state = "SSL_VERIFYING" -> [d EXCEPT !.state = "CONNECTED_PRETLS_PRECAPS"]
         [] ok /\ c.state = "STARTTLS_VERIFYING" ->
                [Command(d, "CAPABILITY") EXCEPT !.state = "ESTABLISHED_PRECAPS", !.fresh = FALSE]
         [] OTHER -> d

\* The connections of the set asked are told one after the other.  At most one of them is
\* being verified: a refusal aborts it, and with it all.
sslConnectionPolicyDecided(x, asked, ok) ==
    LET y == [x EXCEPT !.conns = [i \in DOMAIN x.conns |-> IF i \in asked THEN Decided(x.conns[i], ok)
                                                           ELSE x.conns[i]],
                       !.asserted = @ \/ \E i \in asked : ~Verifying(x.conns[i])]
    IN IF ~ok /\ \E i \in asked : Verifying(x.conns[i]) THEN setNetworkPolicy(y, "offline") ELSE y

Encrypted(i) ==
    /\ m.conns[i].socket = "open" /\ m.conns[i].epoch = "handshake"
    /\ LET c == m.conns[i]
           x == Put(m, i, [c EXCEPT !.epoch = "tls", !.frozen = "policy"])
           y == [changeConnectionState(x, i, IF c.state = "SSL_HANDSHAKE" THEN "SSL_VERIFYING"
                                             ELSE "STARTTLS_VERIFYING")
                    EXCEPT !.conns[i].sslChain = TRUE]
       IN m' = CASE c.task = "none" -> killParser(x, i)
                 [] c.task = "dead" -> [x EXCEPT !.conns[i].task = "none"]
                 [] c.task = "active" /\ m.sslKnown -> sslConnectionPolicyDecided(y, {i}, TRUE)
                 [] c.task = "active" /\ ~m.sslKnown -> [y EXCEPT !.sslDialogs = @ + 1]
    /\ UNCHANGED <<account, left>>

-----------------------------------------------------------------------------
(* The user, and what is posted to the event loop                           *)
OpenConnection ==
    /\ m.policy # "offline" /\ Len(m.conns) < MaxConnections
    /\ \A i \in Opened : m.conns[i].state \in {"LOGOUT", "gone"}
    /\ m' = [m EXCEPT !.conns = Append(@, New)]
    /\ UNCHANGED <<account, left>>

\* The OpenConnectionTasks which are still among the activeTasks are told, one after the
\* other: authCredentialsNowAvailable() and sslConnectionPolicyDecided().
WaitsForPassword(c) == c.state = "LOGIN" /\ c.cmds = <<>>

Waiting == {i \in Opened : m.conns[i].task # "none" /\ WaitsForPassword(m.conns[i])}

\* setImapPassword()
GotPassword ==
    /\ m.prompts > 0
    /\ m' = [m EXCEPT !.prompts = @ - 1, !.password = "AVAILABLE",
                      !.conns = [i \in Opened |-> IF i \in Waiting THEN Login(m.conns[i]) ELSE m.conns[i]]]
    /\ UNCHANGED <<account, left>>

\* The first which waits aborts its connection, and with it all: then nobody waits.
AbortWaiting(x) ==
    IF Waiting = {} THEN x ELSE abortConnection(x, CHOOSE i \in Waiting : \A j \in Waiting : i <= j)

\* Mutant: the refusal is not remembered, the question seems to be still open.
RejectedButWaiting ==
    /\ m.prompts > 0
    /\ m' = AbortWaiting([m EXCEPT !.prompts = @ - 1])
    /\ UNCHANGED <<account, left>>

\* unsetImapPassword()
RejectedPassword ==
    /\ m.prompts > 0
    /\ m' = AbortWaiting([m EXCEPT !.prompts = @ - 1, !.password = "NOT_REQUESTED"])
    /\ UNCHANGED <<account, left>>

\* setSslPolicy(): all which have seen the same certificates; only acceptance lasts.
setSslPolicy ==
    /\ m.sslDialogs > 0
    /\ \E ok \in BOOLEAN :
         m' = sslConnectionPolicyDecided([m EXCEPT !.sslDialogs = @ - 1, !.sslKnown = @ \/ ok],
                  {i \in Opened : m.conns[i].task # "none" /\ m.conns[i].sslChain}, ok)
    /\ UNCHANGED <<account, left>>

\* SystemNetworkWatcher: going online waits for the system.
setDesiredNetworkPolicy(x, policy) ==
    LET y == [x EXCEPT !.desired = policy]
    IN IF x.policy = "offline" /\ policy # "offline" /\ ~x.online THEN y
       ELSE setNetworkPolicy(y, policy)

\* setNetworkOnline() and setNetworkOffline() of NetworkWatcher
setNetwork(policy) ==
    /\ left.choices > 0 /\ left' = [left EXCEPT !.choices = @ - 1]
    /\ m' = setDesiredNetworkPolicy([m EXCEPT !.timer = FALSE], policy)
    /\ UNCHANGED account

SystemOffline ==
    /\ m.online /\ left.outages > 0 /\ left' = [left EXCEPT !.outages = @ - 1]
    /\ m' = setNetworkPolicy([m EXCEPT !.online = FALSE], "offline")
    /\ UNCHANGED account

SystemOnline ==
    /\ ~m.online
    /\ m' = setDesiredNetworkPolicy([m EXCEPT !.online = TRUE], m.desired)
    /\ UNCHANGED <<account, left>>

\* Mutant: the first failure is the last attempt.
ForgetReconnect ==
    /\ m.errors > 0
    /\ m' = [m EXCEPT !.errors = @ - 1]
    /\ UNCHANGED <<account, left>>

attemptReconnect ==
    /\ m.errors > 0
    /\ m' = [m EXCEPT !.errors = @ - 1, !.timer = TRUE]
    /\ UNCHANGED <<account, left>>

tryReconnect ==
    /\ m.timer
    /\ m' = setNetworkPolicy([m EXCEPT !.timer = FALSE], m.desired)
    /\ UNCHANGED <<account, left>>

Server(i) ==
    \/ Greeting(i) \/ Capability(i) \/ AnswerCapability(i) \/ AcceptLogin(i) \/ RefuseLogin(i)
    \/ AnswerStartTls(i) \/ AnswerCompress(i) \/ AnswerLogout(i)

Next ==
    \/ OpenConnection \/ GotPassword \/ RejectedPassword \/ setSslPolicy
    \/ \E policy \in {"online", "offline"} : setNetwork(policy)
    \/ SystemOffline \/ SystemOnline \/ attemptReconnect \/ tryReconnect
    \/ \E i \in Opened : Server(i) \/ Bye(i) \/ onConnected(i) \/ Disconnected(i) \/ Encrypted(i)

(* A server which the client talks to says something at last, a socket      *)
(* connects or fails, a handshake ends, the dialogs are answered, timers    *)
(* and what was posted run, and an outage of the system ends.               *)
Fairness ==
    /\ \A i \in 1..MaxConnections :
        /\ WF_vars(i \in Opened /\ (Greeting(i) \/ AnswerCapability(i) \/ AcceptLogin(i)
                                     \/ AnswerStartTls(i) \/ AnswerCompress(i) \/ AnswerLogout(i)))
        /\ WF_vars(i \in Opened /\ (onConnected(i) \/ Encrypted(i)))
    /\ WF_vars(GotPassword \/ RejectedPassword) /\ WF_vars(setSslPolicy)
    /\ WF_vars(SystemOnline) /\ WF_vars(attemptReconnect) /\ WF_vars(tryReconnect)

Spec == Init /\ [][Next]_vars /\ Fairness

-----------------------------------------------------------------------------
\* A connection in use has the capabilities which the server has announced after the
\* login, not those of before it or of before the encryption.
CapabilitiesAreCurrent ==
    \A i \in Opened : m.conns[i].state = "AUTHENTICATED" => m.conns[i].caps.epoch = "auth"

\* Nobody waits for a password that is not being asked for, and the user is never asked
\* twice at a time, however many connections come and go meanwhile.
OnePrompt ==
    /\ m.prompts = (IF m.password = "ASKED_WAITING" THEN 1 ELSE 0)
    /\ \A i \in Opened : WaitsForPassword(m.conns[i]) => m.prompts = 1

\* LOGIN is said only to a server which allows it, encrypted if the settings say so, and
\* not before the user has accepted the certificate.
LoginWhenAllowed ==
    \A i \in Opened :
        LET c == m.conns[i]
        IN Contains(c.cmds, "LOGIN") =>
                /\ ~c.caps.loginDisabled \/ c.epoch = "auth"
                /\ account # "plain" => c.epoch \in {"tls", "auth"}
                /\ c.epoch = "tls" => m.sslKnown

\* Every attempt to connect succeeds or is given up: no order of greetings, refusals,
\* dialogs and failures leaves it waiting for what nobody will do.
AttemptsEnd ==
    \A i \in 1..MaxConnections :
        (i \in Opened) ~> (i \in Opened /\ m.conns[i].state \in {"AUTHENTICATED", "LOGOUT", "gone"})

\* After a failure of the network the client goes online again by itself, unless the
\* user does not want it to.
NetworkComesBack ==
    (m.errors > 0 /\ m.desired = "online") ~> (m.policy = "online" \/ m.desired = "offline")

\* A decision about a certificate finds the task which waits for it:
\* OpenConnectionTask.cpp has Q_ASSERT(false) for every other state.
DecisionIsAwaited == ~m.asserted
===================================================================================
