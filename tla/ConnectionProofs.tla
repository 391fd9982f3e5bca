----------------------------- MODULE ConnectionProofs -----------------------------
(***************************************************************************)
(* What Connection promises of passwords, logins and capabilities, for any *)
(* number of connections, refusals, choices of the user and outages.       *)
(***************************************************************************)
EXTENDS Connection, SequenceTheorems, TLAPS

Early == {"NONE", "SSL_HANDSHAKE", "SSL_VERIFYING", "CONNECTED_PRETLS_PRECAPS"}

InUseStates == Early \cup {"CONNECTED_PRETLS", "STARTTLS_ISSUED", "STARTTLS_HANDSHAKE",
                           "STARTTLS_VERIFYING", "ESTABLISHED_PRECAPS", "LOGIN",
                           "POSTAUTH_PRECAPS", "COMPRESS_DEFLATE", "AUTHENTICATED"}

Epochs == {"none", "handshake", "tls", "auth"}

Names == {"CAPABILITY", "LOGIN", "STARTTLS", "COMPRESS", "LOGOUT"}

Capabilities == [epoch : Epochs \cup {"unknown"}, loginDisabled : BOOLEAN, startTls : BOOLEAN,
                 compress : BOOLEAN, imap4 : BOOLEAN]

Connections ==
    [state : InUseStates \cup {"LOGOUT", "gone"}, task : {"active", "dead", "none"},
     socket : {"connecting", "open", "closed"}, frozen : {"no", "encryption", "policy"},
     cmds : Seq(Names), logoutCmd : BOOLEAN, greeted : BOOLEAN, epoch : Epochs,
     sslChain : BOOLEAN, fresh : BOOLEAN, caps : Capabilities]

Models ==
    [conns : Seq(Connections), password : {"NOT_REQUESTED", "ASKED_WAITING", "AVAILABLE"},
     prompts : Nat, sslKnown : BOOLEAN, sslDialogs : Nat, policy : {"online", "offline"},
     desired : {"online", "offline"}, online : BOOLEAN, errors : Nat, timer : BOOLEAN,
     asserted : BOOLEAN]

Out(c) == c.state \in {"LOGOUT", "gone"}

-----------------------------------------------------------------------------
(* The invariant                                                            *)

\* LOGIN may be said on the connection: known is whether the certificates are accepted.
Allowed(a, known, c) ==
    /\ ~c.caps.loginDisabled \/ c.epoch = "auth"
    /\ a # "plain" => c.epoch \in {"tls", "auth"}
    /\ c.epoch = "tls" => known
    /\ c.epoch # "handshake"

\* What holds of every connection, in whatever order things happen to it: what is not yet
\* answered is one command and then LOGOUT, and what the server offers goes with its state.
Sane(a, known, c) ==
    /\ \A k \in DOMAIN c.cmds : k > 1 => c.cmds[k] = "LOGOUT"
    /\ c.caps.epoch # "unknown" => c.caps \in CapsOf(c.caps.epoch)
    /\ c.caps.epoch = "unknown" => ~c.caps.loginDisabled
    /\ c.cmds # <<>> /\ c.cmds[1] = "LOGIN" => c.greeted /\ Allowed(a, known, c)
    /\ c.state = "LOGOUT" /\ c.task = "active" =>
            c.epoch # "handshake" /\ (c.cmds # <<>> => c.cmds[1] # "STARTTLS")
    /\ c.state = "gone" => c.task = "none" /\ c.socket = "closed"

\* The command which the task waits for
Given(state) ==
    CASE state \in {"CONNECTED_PRETLS", "ESTABLISHED_PRECAPS", "POSTAUTH_PRECAPS"} -> {<<"CAPABILITY">>}
      [] state = "STARTTLS_ISSUED" -> {<<"STARTTLS">>}
      [] state = "LOGIN" -> {<<>>, <<"LOGIN">>}
      [] state = "COMPRESS_DEFLATE" -> {<<"COMPRESS">>}
      [] OTHER -> {<<>>}

\* How far the server is when the client is in a state
EpochsOf(a, state) ==
    CASE state \in {"NONE", "SSL_HANDSHAKE"} -> {IF a = "ssl" THEN "handshake" ELSE "none"}
      [] state \in {"CONNECTED_PRETLS_PRECAPS", "CONNECTED_PRETLS"} -> {IF a = "ssl" THEN "tls" ELSE "none"}
      [] state = "STARTTLS_ISSUED" -> {"none"}
      [] state = "STARTTLS_HANDSHAKE" -> {"handshake"}
      [] state \in {"SSL_VERIFYING", "STARTTLS_VERIFYING", "ESTABLISHED_PRECAPS"} -> {"tls"}
      [] state = "LOGIN" -> {"none", "tls", "auth"}
      [] OTHER -> {"auth"}

\* A connection which is not in LOGOUT: where its task, its commands, its capabilities and
\* the password stand.
InUse(a, known, password, c) ==
    /\ c.task = (IF c.state = "AUTHENTICATED" THEN "none" ELSE "active")
    /\ c.cmds \in Given(c.state)
    /\ c.greeted <=> c.state \notin Early
    /\ c.state \in Early => ~c.fresh
    /\ c.socket = "connecting" <=> c.state = "NONE"
    /\ c.epoch \in EpochsOf(a, c.state)
    /\ c.state \in {"SSL_HANDSHAKE", "SSL_VERIFYING"} => a = "ssl" /\ c.frozen # "no"
    /\ c.state \in {"NONE", "SSL_HANDSHAKE"} => ~c.sslChain /\ (a = "ssl" => c.frozen # "no")
    /\ c.epoch = "tls" => known \/ Verifying(c)
    /\ c.fresh /\ c.state \notin {"STARTTLS_HANDSHAKE", "STARTTLS_VERIFYING"} => c.caps.epoch = c.epoch
    /\ c.state \in {"COMPRESS_DEFLATE", "AUTHENTICATED"} => c.caps.epoch = "auth"
    /\ c.state = "LOGIN" => /\ Allowed(a, known, c)
                            /\ password = (IF c.cmds = <<>> THEN "ASKED_WAITING" ELSE "AVAILABLE")
                            /\ c.cmds # <<>> /\ c.fresh => c.epoch = "auth"

Asking(x) == x.prompts = (IF x.password = "ASKED_WAITING" THEN 1 ELSE 0)

\* What also holds in the middle of a step
Loose(a, x) ==
    /\ x \in Models
    /\ Asking(x)
    /\ \A i \in DOMAIN x.conns : Sane(a, x.sslKnown, x.conns[i])

OthersOut(x, i) == \A j \in DOMAIN x.conns : j # i => Out(x.conns[j])

\* Only one connection is in use at a time.
Sound(a, x) ==
    /\ Loose(a, x)
    /\ \A i \in DOMAIN x.conns :
         ~Out(x.conns[i]) => InUse(a, x.sslKnown, x.password, x.conns[i]) /\ OthersOut(x, i)

ConnectionInv == account \in {"plain", "startTls", "ssl"} /\ Sound(account, m)

-----------------------------------------------------------------------------
(* One connection                                                           *)

LEMMA Commands ==
    ASSUME NEW s \in Seq(Names), NEW name \in Names
    PROVE  /\ Append(s, name) \in Seq(Names) /\ Append(s, name) # <<>>
           /\ s = <<>> => Append(s, name) = <<name>>
           /\ s # <<>> => Append(s, name)[1] = s[1]
           /\ (\A k \in DOMAIN s : k > 1 => s[k] = "LOGOUT") /\ (s = <<>> \/ name = "LOGOUT") =>
                    \A k \in DOMAIN Append(s, name) : k > 1 => Append(s, name)[k] = "LOGOUT"
<1>1. /\ Append(s, name) \in Seq(Names) /\ Len(Append(s, name)) = Len(s) + 1
      /\ \A k \in 1..Len(s) : Append(s, name)[k] = s[k]
      /\ Append(s, name)[Len(s) + 1] = name
  OBVIOUS
<1>2. /\ DOMAIN s = 1..Len(s) /\ DOMAIN Append(s, name) = 1..Len(s) + 1 /\ Len(s) \in Nat
      /\ s # <<>> => Len(s) > 0
  BY <1>1, EmptySeq, LenProperties
<1>3. Append(s, name) # <<>>
  BY <1>1, <1>2, EmptySeq
<1>4. s = <<>> => Append(s, name) = <<name>>
  OBVIOUS
<1>5. s = <<>> => Len(s) = 0
  OBVIOUS
<1> QED
  BY <1>1, <1>2, <1>3, <1>4, <1>5

LEMMA Answered ==
    ASSUME NEW s \in Seq(Names), s # <<>>, \A k \in DOMAIN s : k > 1 => s[k] = "LOGOUT"
    PROVE  /\ Head(s) = s[1] /\ s[1] \in Names /\ Tail(s) \in Seq(Names)
           /\ \A k \in DOMAIN Tail(s) : Tail(s)[k] = "LOGOUT"
           /\ Len(s) = 1 => Tail(s) = <<>>
           /\ Tail(s) # <<>> => 1 \in DOMAIN Tail(s)
<1>1. /\ Tail(s) \in Seq(Names) /\ Len(Tail(s)) = Len(s) - 1
      /\ \A k \in 1..Len(Tail(s)) : Tail(s)[k] = s[k + 1]
  BY HeadTailProperties
<1>2. /\ DOMAIN s = 1..Len(s) /\ DOMAIN Tail(s) = 1..Len(Tail(s)) /\ Len(s) \in Nat \ {0}
      /\ Tail(s) # <<>> => Len(Tail(s)) \in Nat \ {0}
  BY <1>1, EmptySeq, LenProperties
<1>3. \A k \in DOMAIN Tail(s) : Tail(s)[k] = "LOGOUT"
  BY <1>1, <1>2
<1>4. Len(s) = 1 => Tail(s) = <<>>
  BY <1>1, <1>2
<1>5. s[1] \in Names
  BY <1>2
<1> QED
  BY <1>1, <1>2, <1>3, <1>4, <1>5

LEMMA Logout ==
    ASSUME NEW known, NEW c \in Connections, Sane(account, known, c)
    PROVE  LogOut(c) \in Connections /\ Sane(account, known, LogOut(c)) /\ Out(LogOut(c))
<1>1. CASE Out(c)
  BY <1>1 DEF LogOut, Out
<1>2. CASE ~Out(c)
  <2> DEFINE d == LogOut(c)
  <2>1. d = [c EXCEPT !.task = IF @ = "none" THEN "none" ELSE "dead",
                      !.cmds = Append(@, "LOGOUT"), !.state = "LOGOUT", !.logoutCmd = TRUE]
    BY <1>2 DEF LogOut, Out, Command, Die, Connections
  <2>2. c.cmds \in Seq(Names) /\ "LOGOUT" \in Names
    BY DEF Connections, Names
  <2>3. d \in Connections
    <3>1. Append(c.cmds, "LOGOUT") \in Seq(Names)
      BY <2>2, Commands
    <3> QED
      BY <2>1, <3>1 DEF Connections
  <2>4. /\ d.cmds = Append(c.cmds, "LOGOUT") /\ d.caps = c.caps /\ d.epoch = c.epoch
        /\ d.greeted = c.greeted /\ d.state = "LOGOUT" /\ d.task # "active"
    BY <2>1 DEF Connections
  <2>5. c.cmds = <<>> => d.cmds[1] = "LOGOUT"
    BY <2>2, <2>4, Commands
  <2> HIDE DEF d
  <2>6. Sane(account, known, d)
    BY <2>2, <2>4, <2>5, Commands DEF Sane, Allowed
  <2> QED
    BY <2>3, <2>4, <2>6 DEF Out, d
<1> QED
  BY <1>1, <1>2

\* What is left of a connection which is killed
Gone == [New EXCEPT !.state = "gone", !.task = "none", !.socket = "closed"]

LEMMA NewConnections ==
    ASSUME account \in {"plain", "startTls", "ssl"}, NEW known, NEW password
    PROVE  /\ New \in Connections /\ Sane(account, known, New)
           /\ ~Out(New) /\ InUse(account, known, password, New)
           /\ Gone \in Connections /\ Sane(account, known, Gone) /\ Out(Gone)
<1>1. <<>> \in Seq(Names) /\ DOMAIN <<>> = {}
  BY EmptySeq
<1>2. New \in Connections
  BY <1>1 DEF New, Connections, InUseStates, Early, Epochs, Capabilities
<1>3. Sane(account, known, New)
  BY <1>1 DEF New, Sane
<1>4. ~Out(New) /\ InUse(account, known, password, New)
  BY DEF New, Out, InUse, Given, EpochsOf, Early
<1>5. Gone \in Connections
  BY <1>2 DEF Gone, Connections
<1>6. Out(Gone) /\ Gone.cmds = <<>> /\ Gone.caps = New.caps
  BY <1>2 DEF Gone, Connections, Out, New
<1>7. Sane(account, known, Gone)
  BY <1>1, <1>3, <1>6, <1>2 DEF Gone, Sane, Connections
<1> QED
  BY <1>2, <1>3, <1>4, <1>5, <1>6, <1>7

-----------------------------------------------------------------------------
(* The connections of the Model                                             *)

\* y differs from x in the connection i, which is c, and in what is of no matter here.
Becomes(x, y, i, c) ==
    /\ y \in Models /\ y.conns = [x.conns EXCEPT ![i] = c]
    /\ y.password = x.password /\ y.prompts = x.prompts /\ y.sslKnown = x.sslKnown

LEMMA Members ==
    ASSUME NEW x \in Models, NEW i \in DOMAIN x.conns
    PROVE  x.conns[i] \in Connections
BY ElementOfSeq, LenProperties DEF Models

LEMMA OneBecomes ==
    ASSUME NEW x \in Models, NEW i \in DOMAIN x.conns, NEW c \in Connections
    PROVE  Becomes(x, [x EXCEPT !.conns[i] = c], i, c)
<1>1. x.conns \in Seq(Connections) /\ DOMAIN x.conns = 1..Len(x.conns)
  BY LenProperties DEF Models
<1>2. [x.conns EXCEPT ![i] = c] \in Seq(Connections)
  BY <1>1, ExceptSeq
<1>3. [x EXCEPT !.conns[i] = c] = [x EXCEPT !.conns = [x.conns EXCEPT ![i] = c]]
  BY DEF Models
<1> QED
  BY <1>2, <1>3 DEF Becomes, Models

LEMMA LooseBecomes ==
    ASSUME NEW x, Loose(account, x), NEW i \in DOMAIN x.conns, NEW y,
           NEW c \in Connections, Sane(account, x.sslKnown, c), Becomes(x, y, i, c)
    PROVE  Loose(account, y) /\ DOMAIN y.conns = DOMAIN x.conns /\ y.conns[i] = c
           /\ (OthersOut(x, i) => OthersOut(y, i))
BY DEF Loose, Becomes, Asking, OthersOut

\* A connection which is in use, or no longer, when the others are not
LEMMA SoundBecomes ==
    ASSUME NEW x, Loose(account, x), NEW i \in DOMAIN x.conns, NEW y, NEW c \in Connections,
           Sane(account, x.sslKnown, c), Becomes(x, y, i, c),
           Out(c) \/ InUse(account, x.sslKnown, x.password, c), OthersOut(x, i)
    PROVE  Sound(account, y)
<1>1. Loose(account, y) /\ DOMAIN y.conns = DOMAIN x.conns /\ y.conns[i] = c /\ OthersOut(y, i)
  BY LooseBecomes
<1>2. y.sslKnown = x.sslKnown /\ y.password = x.password
  BY DEF Becomes
<1> QED
  BY <1>1, <1>2 DEF Sound, OthersOut

LEMMA OutBecomes ==
    ASSUME NEW x, Sound(account, x), NEW i \in DOMAIN x.conns, NEW y, NEW c \in Connections,
           Sane(account, x.sslKnown, c), Becomes(x, y, i, c), Out(c)
    PROVE  Sound(account, y)
<1>1. Loose(account, y) /\ DOMAIN y.conns = DOMAIN x.conns /\ y.conns[i] = c
  BY LooseBecomes DEF Sound
<1>2. y.sslKnown = x.sslKnown /\ y.password = x.password
  BY DEF Becomes
<1>3. \A j \in DOMAIN x.conns : j # i => y.conns[j] = x.conns[j]
  BY DEF Becomes
<1> QED
  BY <1>1, <1>2, <1>3 DEF Sound, OthersOut

LEMMA Offline ==
    ASSUME NEW x, Loose(account, x)
    PROVE  LET y == setNetworkPolicy(x, "offline")
           IN /\ Sound(account, y) /\ DOMAIN y.conns = DOMAIN x.conns
              /\ \A i \in DOMAIN y.conns : Out(y.conns[i]) /\ y.conns[i] = LogOut(x.conns[i])
<1> DEFINE y == setNetworkPolicy(x, "offline")
<1>1. y = [x EXCEPT !.policy = "offline", !.conns = [i \in DOMAIN x.conns |-> LogOut(x.conns[i])]]
  BY DEF setNetworkPolicy
<1>2. \A i \in DOMAIN x.conns :
        LogOut(x.conns[i]) \in Connections /\ Sane(account, x.sslKnown, LogOut(x.conns[i]))
        /\ Out(LogOut(x.conns[i]))
  BY Logout, Members DEF Loose
<1>3. Len(x.conns) \in Nat /\ DOMAIN x.conns = 1..Len(x.conns)
  BY LenProperties DEF Models, Loose
<1>4. [i \in DOMAIN x.conns |-> LogOut(x.conns[i])] \in Seq(Connections)
  BY <1>2, <1>3
<1>5. y \in Models
  BY <1>1, <1>4 DEF Models, Loose
<1>6. /\ y.conns = [i \in DOMAIN x.conns |-> LogOut(x.conns[i])]
      /\ y.prompts = x.prompts /\ y.password = x.password /\ y.sslKnown = x.sslKnown
  BY <1>1 DEF Models, Loose
<1> HIDE DEF y
<1>7. Loose(account, y)
  BY <1>2, <1>5, <1>6 DEF Loose, Asking
<1> QED
  BY <1>2, <1>6, <1>7 DEF Sound, y

\* What the invariant does not look at may change.
LEMMA SoundOtherwise ==
    ASSUME NEW x, Sound(account, x), NEW y \in Models, y.conns = x.conns,
           y.password = x.password, y.prompts = x.prompts, y.sslKnown = x.sslKnown
    PROVE  Sound(account, y)
BY DEF Sound, Loose, Asking, OthersOut

\* Certificates become known, and are not forgotten.
LEMMA KnownLater ==
    ASSUME NEW x, Sound(account, x), NEW y \in Models, y.conns = x.conns,
           y.password = x.password, y.prompts = x.prompts, x.sslKnown => y.sslKnown
    PROVE  Sound(account, y)
<1>1. /\ x \in Models /\ Asking(y)
      /\ \A i \in DOMAIN x.conns :
           /\ Sane(account, y.sslKnown, x.conns[i])
           /\ ~Out(x.conns[i]) => InUse(account, y.sslKnown, x.password, x.conns[i])
  BY DEF Sound, Loose, Asking, Sane, InUse, Allowed
<1> QED
  BY <1>1 DEF Sound, Loose, OthersOut

-----------------------------------------------------------------------------
(* The Model                                                                *)

\* The task of the connection i may go on: nothing it asked for is open.
Ready(x, i) ==
    /\ Loose(account, x) /\ i \in DOMAIN x.conns /\ OthersOut(x, i)
    /\ x.conns[i].task = "active" /\ x.conns[i].cmds = <<>> /\ x.conns[i].greeted
    /\ x.conns[i].socket # "connecting"
    /\ x.conns[i].epoch = "tls" => x.sslKnown

States == InUseStates \cup {"LOGOUT", "gone"}

LEMMA Changes ==
    ASSUME NEW x \in Models, NEW i \in DOMAIN x.conns, NEW state \in States
    PROVE  Becomes(x, changeConnectionState(x, i, state), i, [x.conns[i] EXCEPT !.state = state])
<1> DEFINE c == [x.conns[i] EXCEPT !.state = state]
           y == [x EXCEPT !.conns[i].state = state]
<1>1. c \in Connections
  BY Members DEF Connections, States
<1>2. y = [x EXCEPT !.conns[i] = c]
  BY DEF Models
<1>3. Becomes(x, y, i, c)
  BY <1>1, <1>2, OneBecomes
<1> HIDE DEF c, y
<1>4. Becomes(x, [y EXCEPT !.timer = FALSE], i, c)
  BY <1>3 DEF Becomes, Models
<1> QED
  BY <1>3, <1>4 DEF changeConnectionState, c, y

LEMMA Asks ==
    ASSUME NEW x \in Models, NEW i \in DOMAIN x.conns, NEW state \in States, NEW command \in Names
    PROVE  Becomes(x, Ask(x, i, state, command), i,
                   [x.conns[i] EXCEPT !.state = state, !.cmds = Append(@, command)])
<1> DEFINE y == changeConnectionState(x, i, state)
           c == [x.conns[i] EXCEPT !.state = state]
           d == [x.conns[i] EXCEPT !.state = state, !.cmds = Append(@, command)]
<1>1. Becomes(x, y, i, c)
  BY Changes
<1>2. /\ x.conns[i] \in Connections /\ x.conns[i].cmds \in Seq(Names)
      /\ Append(x.conns[i].cmds, command) \in Seq(Names)
  BY Members, Commands DEF Connections
<1>3. d \in Connections
  BY <1>2 DEF Connections, States
<1>4. Command(c, command) = d
  BY <1>2 DEF Command, Connections
<1> HIDE DEF c, d, y
<1>5. y \in Models /\ DOMAIN y.conns = DOMAIN x.conns /\ y.conns[i] = c
  BY <1>1 DEF Becomes
<1>6. Becomes(y, [y EXCEPT !.conns[i] = d], i, d)
  BY <1>3, <1>5, OneBecomes
<1>7. [y.conns EXCEPT ![i] = d] = [x.conns EXCEPT ![i] = d]
  BY <1>1 DEF Becomes
<1>8. Becomes(x, [y EXCEPT !.conns[i] = d], i, d)
  BY <1>1, <1>6, <1>7 DEF Becomes
<1>9. Ask(x, i, state, command) = [y EXCEPT !.conns[i] = d]
  BY <1>4, <1>5 DEF Ask, Put, y
<1> QED
  BY <1>8, <1>9 DEF d

LEMMA Kills ==
    ASSUME account \in {"plain", "startTls", "ssl"}, NEW x \in Models, NEW i \in DOMAIN x.conns
    PROVE  Becomes(x, killParser(x, i), i, Gone)
BY OneBecomes, NewConnections DEF killParser, Put, Gone

LEMMA KillSound ==
    ASSUME account \in {"plain", "startTls", "ssl"}, NEW x, Sound(account, x), NEW i \in DOMAIN x.conns
    PROVE  Sound(account, killParser(x, i)) /\ DOMAIN killParser(x, i).conns = DOMAIN x.conns
<1>1. x \in Models
  BY DEF Sound, Loose
<1>2. Becomes(x, killParser(x, i), i, Gone)
  BY <1>1, Kills
<1>3. Gone \in Connections /\ Sane(account, x.sslKnown, Gone) /\ Out(Gone)
  BY NewConnections
<1>4. Sound(account, killParser(x, i))
  BY <1>2, <1>3, OutBecomes
<1>5. DOMAIN killParser(x, i).conns = DOMAIN x.conns
  BY <1>2 DEF Becomes
<1> QED
  BY <1>4, <1>5

LEMMA ThrowSound ==
    ASSUME account \in {"plain", "startTls", "ssl"}, NEW x, Loose(account, x), NEW i \in DOMAIN x.conns
    PROVE  Sound(account, Throw(x, i)) /\ Out(Throw(x, i).conns[i])
           /\ DOMAIN Throw(x, i).conns = DOMAIN x.conns
<1>1. x \in Models
  BY DEF Loose
<1>2. Loose(account, killParser(x, i)) /\ DOMAIN killParser(x, i).conns = DOMAIN x.conns
  BY <1>1, Kills, NewConnections, LooseBecomes
<1> QED
  BY <1>2, Offline DEF Throw

LEMMA AbortSound ==
    ASSUME NEW x, Loose(account, x), NEW i \in DOMAIN x.conns, x.conns[i].state # "gone"
    PROVE  Sound(account, abortConnection(x, i)) /\ Out(abortConnection(x, i).conns[i])
           /\ DOMAIN abortConnection(x, i).conns = DOMAIN x.conns
<1> DEFINE c == [x.conns[i] EXCEPT !.task = "dead"]
           y == [x EXCEPT !.conns[i].task = "dead"]
<1>1. x \in Models /\ x.conns[i] \in Connections
  BY Members DEF Loose
<1>2. c \in Connections /\ Sane(account, x.sslKnown, c)
  BY <1>1 DEF Connections, Loose, Sane, Allowed
<1>3. y = [x EXCEPT !.conns[i] = c]
  BY <1>1 DEF Models
<1>4. Becomes(x, y, i, c)
  BY <1>1, <1>2, <1>3, OneBecomes
<1> HIDE DEF c, y
<1>5. Loose(account, y) /\ DOMAIN y.conns = DOMAIN x.conns
  BY <1>2, <1>4, LooseBecomes
<1> QED
  BY <1>5, Offline DEF abortConnection, y

-----------------------------------------------------------------------------
(* OpenConnectionTask                                                       *)

LEMMA AskSound ==
    ASSUME NEW x, NEW i, Ready(x, i), NEW command \in Names,
           NEW state \in {"CONNECTED_PRETLS", "STARTTLS_ISSUED", "POSTAUTH_PRECAPS", "COMPRESS_DEFLATE"},
           command # "LOGIN", Given(state) = {<<command>>}, x.conns[i].epoch \in EpochsOf(account, state),
           x.conns[i].fresh => x.conns[i].caps.epoch = x.conns[i].epoch,
           state = "COMPRESS_DEFLATE" => x.conns[i].caps.epoch = "auth"
    PROVE  Sound(account, Ask(x, i, state, command))
<1> DEFINE c == x.conns[i]
           d == [x.conns[i] EXCEPT !.state = state, !.cmds = Append(@, command)]
<1>1. x \in Models /\ i \in DOMAIN x.conns /\ c \in Connections /\ c.cmds \in Seq(Names)
  BY Members DEF Ready, Loose, Connections
<1>2. Becomes(x, Ask(x, i, state, command), i, d)
  BY <1>1, Asks DEF States, InUseStates
<1>3. Append(c.cmds, command) = <<command>> /\ Append(c.cmds, command) \in Seq(Names)
  BY <1>1, Commands DEF Ready
<1>4. /\ d \in Connections /\ d.cmds = <<command>> /\ d.state = state /\ d.task = "active" /\ d.greeted
      /\ d.socket # "connecting" /\ d.epoch = c.epoch /\ d.caps = c.caps /\ d.fresh = c.fresh
  BY <1>1, <1>3 DEF Connections, Ready, InUseStates
<1> HIDE DEF d
<1>5. DOMAIN d.cmds = {1} /\ d.cmds[1] = command
  BY <1>4
<1>6. Sane(account, x.sslKnown, d)
  BY <1>1, <1>4, <1>5 DEF Ready, Loose, Sane
<1>7. InUse(account, x.sslKnown, x.password, d)
  BY <1>4 DEF InUse, Ready, Early
<1> QED
  BY <1>1, <1>2, <1>4, <1>6, <1>7, SoundBecomes DEF Ready, d

LEMMA CompleteSound ==
    ASSUME NEW x, NEW i, Ready(x, i), x.conns[i].epoch = "auth", x.conns[i].caps.epoch = "auth"
    PROVE  Sound(account, Complete(x, i)) /\ Sound(account, CompressOrComplete(x, i))
<1> DEFINE c == x.conns[i]
           y == changeConnectionState(x, i, "AUTHENTICATED")
           e == [c EXCEPT !.state = "AUTHENTICATED"]
           d == [c EXCEPT !.state = "AUTHENTICATED", !.task = "none"]
<1>1. x \in Models /\ i \in DOMAIN x.conns /\ c \in Connections
  BY Members DEF Ready, Loose
<1>2. Becomes(x, y, i, e)
  BY <1>1, Changes DEF States, InUseStates
<1>3. d \in Connections /\ [e EXCEPT !.task = "none"] = d
  BY <1>1 DEF Connections, InUseStates
<1>4. Sane(account, x.sslKnown, d)
  BY <1>1, <1>3 DEF Ready, Loose, Sane, Connections
<1>5. InUse(account, x.sslKnown, x.password, d)
  BY <1>1 DEF InUse, Ready, Early, Connections, Given, EpochsOf
<1>6. y \in Models /\ DOMAIN y.conns = DOMAIN x.conns /\ y.conns[i] = e
  BY <1>1, <1>2 DEF Becomes
<1> HIDE DEF c, d, e, y
<1>7. Complete(x, i) = [y EXCEPT !.conns[i] = d]
  BY <1>3, <1>6 DEF Complete, Models, y
<1>8. Becomes(y, Complete(x, i), i, d)
  BY <1>3, <1>6, <1>7, <1>1, OneBecomes
<1>9. [y.conns EXCEPT ![i] = d] = [x.conns EXCEPT ![i] = d]
  BY <1>2 DEF Becomes
<1>10. Becomes(x, Complete(x, i), i, d)
  BY <1>2, <1>8, <1>9 DEF Becomes
<1>11. Sound(account, Complete(x, i))
  BY <1>1, <1>3, <1>4, <1>5, <1>10, SoundBecomes DEF Ready
<1>12. Sound(account, Ask(x, i, "COMPRESS_DEFLATE", "COMPRESS"))
  BY AskSound DEF Names, Given, EpochsOf
<1> QED
  BY <1>11, <1>12 DEF CompressOrComplete

LEMMA AskForAuthSound ==
    ASSUME NEW x, NEW i, Ready(x, i), x.conns[i].state = "LOGIN", Allowed(account, x.sslKnown, x.conns[i]),
           x.conns[i].fresh => x.conns[i].caps.epoch = x.conns[i].epoch
    PROVE  Sound(account, askForAuth(x, i))
<1> DEFINE c == x.conns[i]
<1>1. /\ x \in Models /\ i \in DOMAIN x.conns /\ c \in Connections /\ c.cmds \in Seq(Names)
      /\ Sane(account, x.sslKnown, c)
  BY Members DEF Ready, Loose, Connections
<1>2. /\ c.task = "active" /\ c.cmds = <<>> /\ c.greeted /\ c.socket # "connecting"
      /\ c.state = "LOGIN" /\ Allowed(account, x.sslKnown, c)
  BY DEF Ready
<1>3. c.epoch \in {"none", "tls", "auth"} /\ (c.epoch = "tls" => x.sslKnown)
  BY <1>1, <1>2 DEF Allowed, Connections, Epochs
<1>4. InUse(account, x.sslKnown, "ASKED_WAITING", c)
  BY <1>1, <1>2, <1>3 DEF InUse, Given, EpochsOf, Early
<1>5. \A y : y \in Models /\ Asking(y) /\ y.password = "ASKED_WAITING" /\ y.conns = x.conns
              /\ y.sslKnown = x.sslKnown => Sound(account, y)
  BY <1>4 DEF Sound, Loose, Ready, OthersOut
<1>6. CASE x.password = "NOT_REQUESTED"
  <2> DEFINE y == [x EXCEPT !.password = "ASKED_WAITING", !.prompts = @ + 1]
  <2>1. x.prompts = 0
    BY <1>6 DEF Ready, Loose, Asking
  <2>2. askForAuth(x, i) = y
    BY <1>6 DEF askForAuth
  <2>3. /\ y \in Models /\ y.password = "ASKED_WAITING" /\ y.conns = x.conns /\ y.sslKnown = x.sslKnown
        /\ y.prompts = 1
    <3>1. x.prompts + 1 = 1 /\ 1 \in Nat
      BY <2>1
    <3>2. y = [x EXCEPT !.password = "ASKED_WAITING", !.prompts = 1]
      BY <3>1, Zenon
    <3> HIDE DEF y
    <3> QED
      BY <1>1, <3>2 DEF Models
  <2> HIDE DEF y
  <2>4. Asking(y)
    BY <2>3 DEF Asking
  <2>5. Sound(account, y)
    BY <1>5, <2>3, <2>4
  <2> QED
    BY <2>2, <2>5
<1>7. CASE x.password = "ASKED_WAITING"
  BY <1>1, <1>5, <1>7 DEF askForAuth, Ready, Loose
<1>8. CASE x.password = "AVAILABLE"
  <2> DEFINE d == [c EXCEPT !.cmds = Append(@, "LOGIN"), !.fresh = FALSE]
  <2>1. Append(c.cmds, "LOGIN") = <<"LOGIN">> /\ Append(c.cmds, "LOGIN") \in Seq(Names)
    BY <1>1, <1>2, Commands DEF Names
  <2>2. /\ d \in Connections /\ d.cmds = <<"LOGIN">> /\ ~d.fresh
        /\ d.task = "active" /\ d.state = "LOGIN" /\ d.greeted /\ d.socket # "connecting"
        /\ d.epoch = c.epoch /\ d.caps = c.caps
    BY <1>1, <1>2, <2>1 DEF Connections
  <2>3. Login(c) = d
    BY <1>1 DEF Login, Command, Connections
  <2> HIDE DEF d
  <2>4. Becomes(x, login(x, i), i, d)
    BY <1>1, <2>2, <2>3, OneBecomes DEF login, Put
  <2>5. Allowed(account, x.sslKnown, d)
    BY <1>2, <2>2 DEF Allowed
  <2>6. DOMAIN <<"LOGIN">> = {1} /\ <<"LOGIN">> # <<>>
    OBVIOUS
  <2>7. Sane(account, x.sslKnown, d)
    BY <1>1, <2>2, <2>5, <2>6 DEF Sane
  <2>8. InUse(account, x.sslKnown, x.password, d)
    BY <1>3, <1>8, <2>2, <2>5, <2>6 DEF InUse, Given, EpochsOf, Early
  <2>9. Sound(account, login(x, i))
    BY <1>1, <2>2, <2>4, <2>7, <2>8, SoundBecomes DEF Ready
  <2> QED
    BY <1>8, <2>9 DEF askForAuth
<1> QED
  BY <1>1, <1>6, <1>7, <1>8 DEF Models

LEMMA Abort ==
    ASSUME NEW x, NEW i, Ready(x, i), x.conns[i].state # "gone"
    PROVE  Sound(account, abortConnection(x, i))
BY AbortSound DEF Ready

\* Login begins, when nothing is in its way.
LEMMA LoginBegins ==
    ASSUME NEW x, NEW i, Ready(x, i), Allowed(account, x.sslKnown, x.conns[i]),
           x.conns[i].fresh => x.conns[i].caps.epoch = x.conns[i].epoch
    PROVE  Sound(account, askForAuth(changeConnectionState(x, i, "LOGIN"), i))
<1> DEFINE c == x.conns[i]
           d == [c EXCEPT !.state = "LOGIN"]
           y == changeConnectionState(x, i, "LOGIN")
<1>1. x \in Models /\ i \in DOMAIN x.conns /\ c \in Connections /\ Sane(account, x.sslKnown, c)
  BY Members DEF Ready, Loose
<1>2. Becomes(x, y, i, d)
  BY <1>1, Changes DEF States, InUseStates
<1>3. /\ d \in Connections /\ d.state = "LOGIN" /\ d.task = c.task /\ d.cmds = c.cmds
      /\ d.greeted = c.greeted /\ d.socket = c.socket /\ d.epoch = c.epoch /\ d.caps = c.caps
      /\ d.fresh = c.fresh
  BY <1>1 DEF Connections, InUseStates
<1> HIDE DEF d, y
<1>4. Sane(account, x.sslKnown, d)
  BY <1>1, <1>3 DEF Sane, Allowed
<1>5. Loose(account, y) /\ DOMAIN y.conns = DOMAIN x.conns /\ y.conns[i] = d /\ OthersOut(y, i)
  BY <1>1, <1>2, <1>3, <1>4, LooseBecomes DEF Ready
<1>6. y.sslKnown = x.sslKnown
  BY <1>2 DEF Becomes
<1>7. Ready(y, i) /\ Allowed(account, y.sslKnown, y.conns[i])
  BY <1>1, <1>3, <1>5, <1>6 DEF Ready, Allowed
<1> QED
  BY <1>3, <1>5, <1>7, AskForAuthSound DEF y

\* The fresh capabilities are those of the server as it is.
Current(x, i) == x.conns[i].fresh => x.conns[i].caps.epoch = x.conns[i].epoch

LEMMA StartTlsSound ==
    ASSUME NEW x, NEW i, Ready(x, i), account \in {"plain", "startTls", "ssl"},
           x.conns[i].state # "gone", x.conns[i].fresh, Current(x, i),
           x.conns[i].epoch = (IF account = "ssl" THEN "tls" ELSE "none")
    PROVE  Sound(account, startTlsOrLoginNow(x, i))
<1> DEFINE c == x.conns[i]
<1>1. x \in Models /\ i \in DOMAIN x.conns /\ c \in Connections /\ Sane(account, x.sslKnown, c)
  BY Members DEF Ready, Loose
<1>2. Sound(account, abortConnection(x, i))
  BY Abort
<1>3. ASSUME c.caps.startTls PROVE Sound(account, Ask(x, i, "STARTTLS_ISSUED", "STARTTLS"))
  <2>1. c.caps \in CapsOf(c.epoch)
    BY <1>1 DEF Sane, Current
  <2>2. c.epoch = "none"
    BY <1>3, <2>1 DEF CapsOf
  <2> QED
    BY <2>2, AskSound DEF Names, Given, EpochsOf, Current
<1>4. ASSUME account # "startTls", ~c.caps.loginDisabled
      PROVE  Sound(account, askForAuth(changeConnectionState(x, i, "LOGIN"), i))
  <2>1. Allowed(account, x.sslKnown, c)
    BY <1>4 DEF Allowed, Ready
  <2> QED
    BY <2>1, LoginBegins DEF Current
<1> QED
  BY <1>2, <1>3, <1>4 DEF startTlsOrLoginNow

LEMMA CapabilityResultSound ==
    ASSUME NEW x, NEW i, Ready(x, i), account \in {"plain", "startTls", "ssl"}, Current(x, i), NEW kind,
           x.conns[i].state \in {"CONNECTED_PRETLS", "ESTABLISHED_PRECAPS", "POSTAUTH_PRECAPS"},
           x.conns[i].epoch \in EpochsOf(account, x.conns[i].state)
    PROVE  Sound(account, HandleCapabilityResult(x, i, kind))
<1> DEFINE c == x.conns[i]
<1>1. Sound(account, abortConnection(x, i))
  BY Abort
<1>2. CASE c.fresh /\ kind = "OK" /\ c.state = "CONNECTED_PRETLS"
  BY <1>2, StartTlsSound DEF HandleCapabilityResult, EpochsOf
<1>3. CASE c.fresh /\ kind = "OK" /\ c.state = "ESTABLISHED_PRECAPS"
  <2>1. c.epoch = "tls"
    BY <1>3 DEF EpochsOf
  <2>2. ~c.caps.loginDisabled => Allowed(account, x.sslKnown, c)
    BY <2>1 DEF Allowed, Ready
  <2>3. ~c.caps.loginDisabled => Sound(account, askForAuth(changeConnectionState(x, i, "LOGIN"), i))
    BY <2>2, LoginBegins DEF Current
  <2> QED
    BY <1>1, <1>3, <2>3 DEF HandleCapabilityResult
<1>4. CASE c.fresh /\ kind = "OK" /\ c.state = "POSTAUTH_PRECAPS"
  <2>1. c.epoch = "auth" /\ c.caps.epoch = "auth"
    BY <1>4 DEF EpochsOf, Current
  <2> QED
    BY <1>4, <2>1, CompleteSound DEF HandleCapabilityResult
<1>5. CASE ~c.fresh \/ kind # "OK"
  BY <1>1, <1>5 DEF HandleCapabilityResult
<1> QED
  BY <1>2, <1>3, <1>4, <1>5

LEMMA LoginResultSound ==
    ASSUME NEW x, NEW i, Ready(x, i), Current(x, i), NEW kind, x.conns[i].state = "LOGIN",
           x.password = "AVAILABLE", Allowed(account, x.sslKnown, x.conns[i]),
           kind = "OK" => x.conns[i].epoch = "auth"
    PROVE  Sound(account, HandleLoginResult(x, i, kind))
<1> DEFINE c == x.conns[i]
<1>1. CASE kind # "OK"
  <2> DEFINE y == [x EXCEPT !.password = "NOT_REQUESTED"]
  <2>1. x \in Models
    BY DEF Ready, Loose
  <2>2. /\ y \in Models /\ y.conns = x.conns /\ y.sslKnown = x.sslKnown /\ y.password = "NOT_REQUESTED"
        /\ y.prompts = x.prompts
    BY <2>1 DEF Models
  <2>3. HandleLoginResult(x, i, kind) = askForAuth(y, i)
    BY <1>1 DEF HandleLoginResult
  <2> HIDE DEF y
  <2>4. Asking(y)
    BY <2>2 DEF Asking, Ready, Loose
  <2>5. Ready(y, i)
    BY <2>2, <2>4 DEF Ready, Loose, OthersOut
  <2> QED
    BY <2>2, <2>3, <2>5, AskForAuthSound DEF Current
<1>2. CASE kind = "OK" /\ c.fresh
  BY <1>2, CompleteSound DEF HandleLoginResult, Current
<1>3. CASE kind = "OK" /\ ~c.fresh
  BY <1>3, AskSound DEF HandleLoginResult, Names, Given, EpochsOf
<1> QED
  BY <1>1, <1>2, <1>3

LEMMA GreetingSound ==
    ASSUME NEW x, NEW i, Ready(x, i), account \in {"plain", "startTls", "ssl"}, Current(x, i), NEW kind,
           x.conns[i].state = "CONNECTED_PRETLS_PRECAPS", kind \in {"OK", "PREAUTH", "BYE", "BAD", "NO"},
           x.conns[i].epoch = (IF kind = "PREAUTH" THEN "auth" ELSE IF account = "ssl" THEN "tls" ELSE "none")
    PROVE  Sound(account, HandleGreeting(x, i, kind))
<1> DEFINE c == x.conns[i]
<1>1. x \in Models /\ i \in DOMAIN x.conns /\ c \in Connections /\ Sane(account, x.sslKnown, c)
  BY Members DEF Ready, Loose
<1>2. Sound(account, abortConnection(x, i)) /\ Sound(account, Throw(x, i))
  BY Abort, ThrowSound DEF Ready
<1>3. CASE kind = "PREAUTH"
  <2>1. c.fresh => Sound(account, CompressOrComplete(x, i))
    BY <1>3, CompleteSound DEF Current
  <2>2. ~c.fresh => Sound(account, Ask(x, i, "POSTAUTH_PRECAPS", "CAPABILITY"))
    BY <1>3, AskSound DEF Names, Given, EpochsOf
  <2> QED
    BY <1>2, <1>3, <2>1, <2>2 DEF HandleGreeting
<1>4. CASE kind = "OK"
  <2>1. c.fresh => Sound(account, startTlsOrLoginNow(x, i))
    BY <1>4, StartTlsSound
  <2>2. ~c.fresh => Sound(account, Ask(x, i, "CONNECTED_PRETLS", "CAPABILITY"))
    BY <1>4, AskSound DEF Names, Given, EpochsOf
  <2> QED
    BY <1>4, <2>1, <2>2 DEF HandleGreeting
<1>5. CASE kind = "BAD"
  <2> DEFINE y == changeConnectionState(x, i, "LOGOUT")
             d == [c EXCEPT !.state = "LOGOUT"]
  <2>1. Becomes(x, y, i, d)
    BY <1>1, Changes DEF States
  <2>2. /\ d \in Connections /\ d.state = "LOGOUT" /\ d.cmds = <<>> /\ d.epoch = c.epoch /\ d.caps = c.caps
        /\ c.epoch # "handshake"
    BY <1>1, <1>5 DEF Connections, Ready
  <2> HIDE DEF d, y
  <2>3. Sane(account, x.sslKnown, d)
    BY <1>1, <2>2 DEF Sane, Ready
  <2>4. Loose(account, y) /\ DOMAIN y.conns = DOMAIN x.conns /\ y.conns[i] = d
    BY <1>1, <2>1, <2>2, <2>3, LooseBecomes DEF Ready
  <2> QED
    BY <1>1, <1>5, <2>2, <2>4, AbortSound DEF HandleGreeting, y
<1>6. CASE kind \in {"BYE", "NO"}
  BY <1>2, <1>6 DEF HandleGreeting
<1> QED
  BY <1>3, <1>4, <1>5, <1>6

\* A dead task leaves, a connection which is out stays out.
LEMMA RoutedSound ==
    ASSUME NEW x, Loose(account, x), NEW i \in DOMAIN x.conns, NEW handled,
           x.conns[i].task # "active" => Sound(account, x),
           x.conns[i].task = "dead" => Out(x.conns[i]),
           x.conns[i].task = "active" => Sound(account, handled)
    PROVE  Sound(account, Routed(x, i, handled))
<1>1. ASSUME NEW y, Sound(account, y), i \in DOMAIN y.conns => y.conns[i].task = "dead" /\ Out(y.conns[i])
      PROVE  Sound(account, [y EXCEPT !.conns[i].task = "none"])
  <2> DEFINE d == [y.conns[i] EXCEPT !.task = "none"]
             z == [y EXCEPT !.conns[i].task = "none"]
  <2>1. y \in Models /\ y.conns \in Seq(Connections)
    BY <1>1 DEF Sound, Loose, Models
  <2>2. z = [y EXCEPT !.conns = [y.conns EXCEPT ![i] = d]]
    BY <2>1 DEF Models
  <2>3. CASE i \in DOMAIN y.conns
    <3>1. y.conns[i] \in Connections /\ Sane(account, y.sslKnown, y.conns[i])
      BY <1>1, <2>1, <2>3, Members DEF Sound, Loose
    <3>2. d \in Connections /\ Out(d) /\ Sane(account, y.sslKnown, d)
      BY <1>1, <2>3, <3>1 DEF Connections, Out, Sane, Allowed
    <3> HIDE DEF d, z
    <3>3. Becomes(y, z, i, d)
      BY <2>1, <2>2, <2>3, <3>2, OneBecomes
    <3> QED
      BY <1>1, <2>3, <3>2, <3>3, OutBecomes DEF z
  <2>4. CASE i \notin DOMAIN y.conns
    <3>1. [y.conns EXCEPT ![i] = d] = y.conns
      BY <2>1, <2>4, LenProperties
    <3> HIDE DEF d, z
    <3>2. /\ z \in Models /\ z.conns = y.conns /\ z.password = y.password /\ z.prompts = y.prompts
          /\ z.sslKnown = y.sslKnown
      BY <2>1, <2>2, <3>1 DEF Models
    <3> QED
      BY <1>1, <3>2, SoundOtherwise DEF z
  <2> QED
    BY <2>3, <2>4
<1>2. CASE x.conns[i].task = "dead"
  BY <1>1, <1>2 DEF Routed
<1>3. CASE x.conns[i].task = "none"
  BY <1>3 DEF Routed
<1>4. CASE x.conns[i].task = "active" /\ handled.conns[i].task = "dead"
  <2>1. i \in DOMAIN handled.conns => Out(handled.conns[i])
    BY <1>4 DEF Sound, InUse
  <2> QED
    BY <1>1, <1>4, <2>1 DEF Routed
<1>5. CASE x.conns[i].task = "active" /\ handled.conns[i].task # "dead"
  BY <1>5 DEF Routed
<1>6. x.conns[i].task \in {"active", "dead", "none"}
  BY Members DEF Loose, Connections
<1> QED
  BY <1>2, <1>3, <1>4, <1>5, <1>6

-----------------------------------------------------------------------------
(* The answers of the server                                                *)

LEMMA GivenIs ==
    ASSUME NEW known, NEW password, NEW c \in Connections, InUse(account, known, password, c), c.cmds # <<>>
    PROVE  /\ c.task = "active" /\ c.greeted /\ c.socket # "connecting" /\ Len(c.cmds) = 1
           /\ c.cmds[1] \in {"CAPABILITY", "LOGIN", "STARTTLS", "COMPRESS"}
           /\ c.cmds[1] = "CAPABILITY" <=> c.state \in {"CONNECTED_PRETLS", "ESTABLISHED_PRECAPS", "POSTAUTH_PRECAPS"}
           /\ c.cmds[1] = "LOGIN" <=> c.state = "LOGIN"
           /\ c.cmds[1] = "STARTTLS" <=> c.state = "STARTTLS_ISSUED"
           /\ c.cmds[1] = "COMPRESS" <=> c.state = "COMPRESS_DEFLATE"
<1>1. c.cmds \in Given(c.state) /\ c.cmds # <<>>
  BY DEF InUse
<1>2. c.state \in {"CONNECTED_PRETLS", "ESTABLISHED_PRECAPS", "POSTAUTH_PRECAPS", "STARTTLS_ISSUED",
                   "LOGIN", "COMPRESS_DEFLATE"}
  BY <1>1 DEF Given
<1>3. c.cmds = IF c.state = "STARTTLS_ISSUED" THEN <<"STARTTLS">> ELSE IF c.state = "LOGIN" THEN <<"LOGIN">>
               ELSE IF c.state = "COMPRESS_DEFLATE" THEN <<"COMPRESS">> ELSE <<"CAPABILITY">>
  BY <1>1, <1>2 DEF Given
<1>4. c.task = "active" /\ c.greeted /\ c.socket # "connecting"
  BY <1>2 DEF InUse, Early
<1> QED
  BY <1>2, <1>3, <1>4

\* y is x when the first command of the connection i is answered.
LEMMA AnsweredBecomes ==
    ASSUME NEW x, Loose(account, x), NEW i \in DOMAIN x.conns, x.conns[i].cmds # <<>>
    PROVE  LET y == [x EXCEPT !.conns[i].cmds = Tail(@)]
               d == [x.conns[i] EXCEPT !.cmds = Tail(@)]
           IN /\ Becomes(x, y, i, d) /\ d \in Connections /\ Sane(account, x.sslKnown, d)
              /\ Loose(account, y) /\ DOMAIN y.conns = DOMAIN x.conns /\ y.conns[i] = d
              /\ OthersOut(x, i) => OthersOut(y, i)
              /\ Len(x.conns[i].cmds) = 1 => d.cmds = <<>>
              /\ y.password = x.password /\ y.sslKnown = x.sslKnown
<1> DEFINE c == x.conns[i]
           d == [c EXCEPT !.cmds = Tail(@)]
           y == [x EXCEPT !.conns[i].cmds = Tail(@)]
<1>1. x \in Models /\ c \in Connections /\ Sane(account, x.sslKnown, c) /\ c.cmds \in Seq(Names)
  BY Members DEF Loose, Connections
<1>2. /\ Tail(c.cmds) \in Seq(Names) /\ \A k \in DOMAIN Tail(c.cmds) : Tail(c.cmds)[k] = "LOGOUT"
      /\ Len(c.cmds) = 1 => Tail(c.cmds) = <<>>
      /\ Tail(c.cmds) # <<>> => 1 \in DOMAIN Tail(c.cmds)
  BY <1>1, Answered DEF Sane
<1>3. /\ d \in Connections /\ d.cmds = Tail(c.cmds) /\ d.state = c.state /\ d.task = c.task
      /\ d.caps = c.caps /\ d.epoch = c.epoch /\ d.socket = c.socket
  BY <1>1, <1>2 DEF Connections
<1>4. y = [x EXCEPT !.conns[i] = d]
  BY <1>1 DEF Models
<1> HIDE DEF d, y
<1>5. Sane(account, x.sslKnown, d)
  BY <1>1, <1>2, <1>3 DEF Sane
<1>6. Becomes(x, y, i, d)
  BY <1>1, <1>3, <1>4, OneBecomes
<1>7. /\ Loose(account, y) /\ DOMAIN y.conns = DOMAIN x.conns /\ y.conns[i] = d
      /\ OthersOut(x, i) => OthersOut(y, i)
  BY <1>3, <1>5, <1>6, LooseBecomes
<1>8. y.password = x.password /\ y.sslKnown = x.sslKnown
  BY <1>6 DEF Becomes
<1> QED
  BY <1>2, <1>3, <1>5, <1>6, <1>7, <1>8 DEF d, y

\* What Answer() makes of x
Answering(x, i, kind) ==
    LET y == [x EXCEPT !.conns[i].cmds = Tail(@)] IN Routed(y, i, HandleTagged(y, i, kind))

LEMMA OutAnswered ==
    ASSUME NEW x, Sound(account, x), NEW i \in DOMAIN x.conns, Out(x.conns[i]), x.conns[i].cmds # <<>>,
           account \in {"plain", "startTls", "ssl"}, NEW kind
    PROVE  Sound(account, Answering(x, i, kind))
<1> DEFINE y == [x EXCEPT !.conns[i].cmds = Tail(@)]
           d == [x.conns[i] EXCEPT !.cmds = Tail(@)]
<1>1. /\ Becomes(x, y, i, d) /\ d \in Connections /\ Sane(account, x.sslKnown, d)
      /\ Loose(account, y) /\ DOMAIN y.conns = DOMAIN x.conns /\ y.conns[i] = d
  BY AnsweredBecomes DEF Sound
<1>2. x.conns[i] \in Connections
  BY Members DEF Sound, Loose
<1>3. Out(d) /\ d.state = x.conns[i].state /\ d.task = x.conns[i].task
  BY <1>2 DEF Out, Connections
<1> HIDE DEF d, y
<1>4. Sound(account, y)
  BY <1>1, <1>3, OutBecomes
<1>5. ASSUME d.task = "active" PROVE Sound(account, HandleTagged(y, i, kind))
  <2>1. d.state = "LOGOUT"
    BY <1>1, <1>3, <1>5 DEF Out, Sane
  <2>2. HandleTagged(y, i, kind) = Throw(y, i)
    BY <1>1, <2>1 DEF HandleTagged
  <2> QED
    BY <1>1, <2>2, ThrowSound
<1> QED
  BY <1>1, <1>3, <1>4, <1>5, RoutedSound DEF Answering, y

LEMMA InUseAnswered ==
    ASSUME NEW x, Loose(account, x), NEW i \in DOMAIN x.conns, OthersOut(x, i),
           x.conns[i].task = "active", x.conns[i].greeted, x.conns[i].socket # "connecting",
           x.conns[i].cmds # <<>>, Len(x.conns[i].cmds) = 1, x.conns[i].epoch = "tls" => x.sslKnown,
           NEW kind
    PROVE  \E y : /\ Ready(y, i) /\ y.password = x.password /\ y.sslKnown = x.sslKnown
                  /\ y.conns[i].state = x.conns[i].state /\ y.conns[i].epoch = x.conns[i].epoch
                  /\ y.conns[i].caps = x.conns[i].caps /\ y.conns[i].fresh = x.conns[i].fresh
                  /\ Sound(account, HandleTagged(y, i, kind)) => Sound(account, Answering(x, i, kind))
<1> DEFINE y == [x EXCEPT !.conns[i].cmds = Tail(@)]
           d == [x.conns[i] EXCEPT !.cmds = Tail(@)]
<1>1. /\ d \in Connections /\ d.cmds = <<>>
      /\ Loose(account, y) /\ DOMAIN y.conns = DOMAIN x.conns /\ y.conns[i] = d
      /\ OthersOut(y, i) /\ y.password = x.password /\ y.sslKnown = x.sslKnown
  BY AnsweredBecomes
<1>2. x.conns[i] \in Connections
  BY Members DEF Loose
<1>3. /\ d.state = x.conns[i].state /\ d.task = x.conns[i].task /\ d.greeted = x.conns[i].greeted
      /\ d.socket = x.conns[i].socket /\ d.epoch = x.conns[i].epoch /\ d.caps = x.conns[i].caps
      /\ d.fresh = x.conns[i].fresh
  BY <1>2 DEF Connections
<1> HIDE DEF d, y
<1>4. Ready(y, i)
  BY <1>1, <1>3 DEF Ready
<1>5. Sound(account, HandleTagged(y, i, kind)) => Sound(account, Answering(x, i, kind))
  BY <1>1, <1>3, RoutedSound DEF Answering, y
<1> QED
  BY <1>1, <1>3, <1>4, <1>5

-----------------------------------------------------------------------------
(* The steps                                                                *)

\* HasCaps() and updateCapabilities() on a connection: what they make of it
WithCaps(c, caps) == [c EXCEPT !.caps = caps, !.fresh = TRUE]

LEMMA OfEpoch ==
    ASSUME NEW epoch \in Epochs, NEW caps \in CapsOf(epoch)
    PROVE  /\ caps \in Capabilities /\ caps.epoch = epoch
           /\ epoch = "auth" => caps.imap4 /\ ~caps.loginDisabled
BY DEF CapsOf, Capabilities, Epochs

LEMMA UpdateIsImap ==
    ASSUME NEW x \in Models, NEW i \in DOMAIN x.conns, NEW caps \in Capabilities, caps.imap4
    PROVE  /\ Becomes(x, updateCapabilities(x, i, caps), i, WithCaps(x.conns[i], caps))
           /\ WithCaps(x.conns[i], caps) \in Connections
<1> DEFINE d == WithCaps(x.conns[i], caps)
<1>1. x.conns[i] \in Connections
  BY Members
<1>2. d \in Connections
  BY <1>1 DEF WithCaps, Connections
<1>3. updateCapabilities(x, i, caps) = [x EXCEPT !.conns[i] = d]
  BY DEF updateCapabilities, Put, WithCaps
<1> HIDE DEF d
<1> QED
  BY <1>2, <1>3, OneBecomes DEF d

\* A server which is no IMAP4 server is left.
LEMMA UpdateNoImap ==
    ASSUME NEW x, Loose(account, x), NEW i \in DOMAIN x.conns, NEW epoch \in Epochs, NEW caps \in CapsOf(epoch),
           ~caps.imap4, x.conns[i].epoch = epoch, x.conns[i].task = "active" => epoch # "handshake", x.conns[i].state # "gone",
           x.conns[i].cmds # <<>> => x.conns[i].cmds[1] # "LOGIN",
           x.conns[i].cmds # <<>> /\ x.conns[i].task = "active" => x.conns[i].cmds[1] # "STARTTLS"
    PROVE  Sound(account, updateCapabilities(x, i, caps)) /\ updateCapabilities(x, i, caps).conns[i].state = "LOGOUT"
           /\ DOMAIN updateCapabilities(x, i, caps).conns = DOMAIN x.conns
<1> DEFINE c == x.conns[i]
           d == [c EXCEPT !.caps = caps, !.fresh = TRUE, !.cmds = Append(@, "LOGOUT"), !.state = "LOGOUT",
                          !.logoutCmd = TRUE]
           y == [x EXCEPT !.conns[i] = d]
<1>1. /\ x \in Models /\ c \in Connections /\ Sane(account, x.sslKnown, c) /\ c.cmds \in Seq(Names)
      /\ caps \in Capabilities /\ caps.epoch = epoch /\ ~caps.loginDisabled
  BY Members, OfEpoch DEF Loose, Connections, CapsOf
<1>2. /\ Append(c.cmds, "LOGOUT") \in Seq(Names)
      /\ c.cmds # <<>> => Append(c.cmds, "LOGOUT")[1] = c.cmds[1]
      /\ c.cmds = <<>> => Append(c.cmds, "LOGOUT")[1] = "LOGOUT"
      /\ \A k \in DOMAIN Append(c.cmds, "LOGOUT") : k > 1 => Append(c.cmds, "LOGOUT")[k] = "LOGOUT"
  BY <1>1, Commands DEF Sane, Names
<1>3. /\ d \in Connections /\ d.cmds = Append(c.cmds, "LOGOUT") /\ d.state = "LOGOUT" /\ d.caps = caps
      /\ d.epoch = epoch /\ d.task = c.task
  BY <1>1, <1>2 DEF Connections
<1>4. updateCapabilities(x, i, caps) = setNetworkPolicy(y, "offline")
  BY <1>1 DEF updateCapabilities, Put, Command, Connections
<1> HIDE DEF d
<1>5. Sane(account, x.sslKnown, d)
  BY <1>1, <1>2, <1>3 DEF Sane
<1>6. Becomes(x, y, i, d)
  BY <1>1, <1>3, OneBecomes
<1> HIDE DEF y
<1>7. Loose(account, y) /\ DOMAIN y.conns = DOMAIN x.conns /\ y.conns[i] = d
  BY <1>3, <1>5, <1>6, LooseBecomes
<1>8. LogOut(d) = d
  BY <1>3 DEF LogOut
<1> QED
  BY <1>3, <1>4, <1>7, <1>8, Offline

Here(i) ==
    /\ Sound(account, m) /\ Loose(account, m) /\ m \in Models /\ i \in DOMAIN m.conns
    /\ m.conns[i] \in Connections /\ Sane(account, m.sslKnown, m.conns[i])
    /\ account \in {"plain", "startTls", "ssl"}

LEMMA HereIs ==
    ASSUME ConnectionInv, NEW i \in Opened
    PROVE  Here(i)
BY Members DEF ConnectionInv, Sound, Loose, Opened, Here

LEMMA AskedIs ==
    ASSUME ConnectionInv, NEW i \in Opened, NEW name, Asked(i, name)
    PROVE  /\ m.conns[i].cmds # <<>> /\ m.conns[i].cmds[1] = name /\ m.conns[i].state # "gone"
           /\ m.conns[i].greeted /\ m.conns[i].socket = "open" /\ m.conns[i].frozen = "no"
<1>1. Here(i)
  BY HereIs
<1>2. m.conns[i].cmds # <<>> /\ Head(m.conns[i].cmds) = name /\ m.conns[i].cmds \in Seq(Names)
  BY <1>1 DEF Asked, Here, Connections
<1>3. m.conns[i].cmds[1] = name
  BY <1>2
<1> QED
  BY <1>1, <1>2, <1>3 DEF Asked, Talks, Here, Sane

LEMMA KeepsAnswerCapability ==
    ASSUME ConnectionInv, NEW i \in Opened, AnswerCapability(i)
    PROVE  Sound(account, m')
<1> DEFINE c == m.conns[i]
<1>1. Here(i)
  BY HereIs
<1>2. PICK kind \in {"OK", "NO"} : m' = Answering(m, i, kind)
  BY DEF AnswerCapability, Answer, Answering
<1>3. c.cmds # <<>> /\ c.cmds[1] = "CAPABILITY"
  BY AskedIs DEF AnswerCapability
<1>4. CASE Out(c)
  BY <1>1, <1>2, <1>3, <1>4, OutAnswered DEF Here
<1>5. CASE ~Out(c)
  <2>1. InUse(account, m.sslKnown, m.password, c) /\ OthersOut(m, i)
    BY <1>1, <1>5 DEF Here, Sound
  <2>2. /\ c.task = "active" /\ c.greeted /\ c.socket # "connecting" /\ Len(c.cmds) = 1
        /\ c.state \in {"CONNECTED_PRETLS", "ESTABLISHED_PRECAPS", "POSTAUTH_PRECAPS"}
    BY <1>1, <1>3, <2>1, GivenIs DEF Here
  <2>3. /\ c.epoch = "tls" => m.sslKnown
        /\ c.fresh => c.caps.epoch = c.epoch
        /\ c.epoch \in EpochsOf(account, c.state)
    BY <2>1, <2>2 DEF InUse, Verifying
  <2>4. PICK y : /\ Ready(y, i) /\ y.password = m.password /\ y.sslKnown = m.sslKnown
                 /\ y.conns[i].state = c.state /\ y.conns[i].epoch = c.epoch
                 /\ y.conns[i].caps = c.caps /\ y.conns[i].fresh = c.fresh
                 /\ Sound(account, HandleTagged(y, i, kind)) => Sound(account, Answering(m, i, kind))
    BY <1>1, <1>3, <2>1, <2>2, <2>3, InUseAnswered DEF Here
  <2>5. Sound(account, HandleCapabilityResult(y, i, kind))
    BY <1>1, <2>2, <2>3, <2>4, CapabilityResultSound DEF Current, Here
  <2> QED
    BY <1>2, <2>2, <2>4, <2>5 DEF HandleTagged
<1> QED
  BY <1>4, <1>5

LEMMA KeepsRefuseLogin ==
    ASSUME ConnectionInv, NEW i \in Opened, RefuseLogin(i)
    PROVE  Sound(account, m')
<1> DEFINE c == m.conns[i]
<1>1. Here(i)
  BY HereIs
<1>2. m' = Answering(m, i, "NO")
  BY DEF RefuseLogin, Answer, Answering
<1>3. c.cmds # <<>> /\ c.cmds[1] = "LOGIN"
  BY AskedIs DEF RefuseLogin
<1>4. CASE Out(c)
  BY <1>1, <1>2, <1>3, <1>4, OutAnswered DEF Here
<1>5. CASE ~Out(c)
  <2>1. InUse(account, m.sslKnown, m.password, c) /\ OthersOut(m, i)
    BY <1>1, <1>5 DEF Here, Sound
  <2>2. /\ c.task = "active" /\ c.greeted /\ c.socket # "connecting" /\ Len(c.cmds) = 1
        /\ c.state = "LOGIN"
    BY <1>1, <1>3, <2>1, GivenIs DEF Here
  <2>3. /\ c.epoch = "tls" => m.sslKnown
        /\ c.fresh => c.caps.epoch = c.epoch
        /\ Allowed(account, m.sslKnown, c) /\ m.password = "AVAILABLE"
    BY <1>3, <2>1, <2>2 DEF InUse, Verifying
  <2>4. PICK y : /\ Ready(y, i) /\ y.password = m.password /\ y.sslKnown = m.sslKnown
                 /\ y.conns[i].state = c.state /\ y.conns[i].epoch = c.epoch
                 /\ y.conns[i].caps = c.caps /\ y.conns[i].fresh = c.fresh
                 /\ Sound(account, HandleTagged(y, i, "NO")) => Sound(account, Answering(m, i, "NO"))
    BY <1>1, <1>3, <2>1, <2>2, <2>3, InUseAnswered DEF Here
  <2>5. Allowed(account, y.sslKnown, y.conns[i])
    BY <2>3, <2>4 DEF Allowed
  <2>6. Sound(account, HandleLoginResult(y, i, "NO"))
    BY <1>1, <2>2, <2>3, <2>4, <2>5, LoginResultSound DEF Current
  <2> QED
    BY <1>2, <2>2, <2>4, <2>6 DEF HandleTagged
<1> QED
  BY <1>4, <1>5

LEMMA KeepsAcceptLogin ==
    ASSUME ConnectionInv, NEW i \in Opened, AcceptLogin(i)
    PROVE  Sound(account, m')
<1> DEFINE c == m.conns[i]
           x == SetEpoch(i, "auth")
           d == [c EXCEPT !.epoch = "auth"]
<1>1. Here(i)
  BY HereIs
<1>2. PICK code \in Codes("auth") : m' = Answering(HasCaps(x, i, code), i, "OK")
  BY DEF AcceptLogin, Answer, Answering
<1>3. c.cmds # <<>> /\ c.cmds[1] = "LOGIN" /\ c.state # "gone" /\ c.greeted
  BY AskedIs DEF AcceptLogin
<1>4. d \in Connections /\ x = [m EXCEPT !.conns[i] = d]
  BY <1>1 DEF SetEpoch, Put, Here, Connections, Epochs
<1>5. Becomes(m, x, i, d)
  BY <1>1, <1>4, OneBecomes DEF Here
<1> DEFINE Fits(e) ==
         /\ Becomes(m, HasCaps(x, i, code), i, e) /\ e.epoch = "auth" /\ e.caps \in Capabilities
         /\ (e.caps = c.caps /\ e.fresh = c.fresh) \/ (e.caps \in CapsOf("auth") /\ e.fresh)
         /\ e.state = c.state /\ e.task = c.task /\ e.cmds = c.cmds /\ e.greeted = c.greeted
         /\ e.socket = c.socket
<1>6. \E e \in Connections : Fits(e)
  <2>1. CASE code = {}
    <3>1. HasCaps(x, i, code) = x
      BY <2>1 DEF HasCaps
    <3>2. /\ d.epoch = "auth" /\ d.caps = c.caps /\ d.fresh = c.fresh /\ d.caps \in Capabilities
          /\ d.state = c.state /\ d.task = c.task /\ d.cmds = c.cmds /\ d.greeted = c.greeted
          /\ d.socket = c.socket
      BY <1>1 DEF Here, Connections
    <3> HIDE DEF d
    <3> QED
      BY <1>4, <1>5, <3>1, <3>2
  <2>2. ASSUME NEW caps \in CapsOf("auth"), code = {caps} PROVE \E e \in Connections : Fits(e)
    <3> DEFINE e == WithCaps(d, caps)
    <3>1. HasCaps(x, i, code) = updateCapabilities(x, i, caps)
      BY <2>2 DEF HasCaps
    <3>2. caps \in Capabilities /\ caps.imap4
      BY OfEpoch DEF Epochs
    <3>3. x \in Models /\ i \in DOMAIN x.conns /\ x.conns[i] = d
      BY <1>1, <1>5 DEF Becomes, Here
    <3>4. Becomes(x, HasCaps(x, i, code), i, e) /\ e \in Connections
      BY <3>1, <3>2, <3>3, UpdateIsImap
    <3>5. /\ e.epoch = "auth" /\ e.caps = caps /\ e.fresh
          /\ e.state = c.state /\ e.task = c.task /\ e.cmds = c.cmds /\ e.greeted = c.greeted
          /\ e.socket = c.socket
      BY <1>1 DEF WithCaps, Here, Connections
    <3> HIDE DEF e, d
    <3>6. [x.conns EXCEPT ![i] = e] = [m.conns EXCEPT ![i] = e]
      BY <1>5 DEF Becomes
    <3>7. Becomes(m, HasCaps(x, i, code), i, e)
      BY <1>5, <3>4, <3>6 DEF Becomes
    <3> QED
      BY <3>2, <3>4, <3>5, <3>7
  <2> QED
    BY <2>1, <2>2 DEF Codes
<1>7. PICK e \in Connections : Fits(e)
  BY <1>6
<1> DEFINE z == HasCaps(x, i, code)
<1> HIDE DEF d, x, z
<1>8. e.caps \in CapsOf("auth") => e.caps.epoch = "auth" /\ ~e.caps.loginDisabled
  BY OfEpoch DEF Epochs
<1>9. Allowed(account, m.sslKnown, e)
  BY <1>7, <1>8 DEF Allowed
<1>10. Sane(account, m.sslKnown, e)
  BY <1>1, <1>3, <1>7, <1>8, <1>9 DEF Sane, Here
<1>11. /\ Loose(account, z) /\ DOMAIN z.conns = DOMAIN m.conns /\ z.conns[i] = e
       /\ OthersOut(m, i) => OthersOut(z, i)
       /\ z.password = m.password /\ z.sslKnown = m.sslKnown
  BY <1>1, <1>7, <1>10, LooseBecomes DEF Here, Becomes, z
<1>12. CASE Out(c)
  <2>1. Sound(account, z)
    BY <1>1, <1>7, <1>10, <1>12, OutBecomes DEF Here, Out, z
  <2> QED
    BY <1>1, <1>2, <1>3, <1>7, <1>11, <1>12, <2>1, OutAnswered DEF Here, Out, z
<1>13. CASE ~Out(c)
  <2>1. InUse(account, m.sslKnown, m.password, c) /\ OthersOut(m, i)
    BY <1>1, <1>13 DEF Here, Sound
  <2>2. /\ c.task = "active" /\ c.greeted /\ c.socket # "connecting" /\ Len(c.cmds) = 1
        /\ c.state = "LOGIN"
    BY <1>1, <1>3, <2>1, GivenIs DEF Here
  <2>3. m.password = "AVAILABLE"
    BY <1>3, <2>1, <2>2 DEF InUse
  <2>4. PICK y : /\ Ready(y, i) /\ y.password = z.password /\ y.sslKnown = z.sslKnown
                 /\ y.conns[i].state = e.state /\ y.conns[i].epoch = e.epoch
                 /\ y.conns[i].caps = e.caps /\ y.conns[i].fresh = e.fresh
                 /\ Sound(account, HandleTagged(y, i, "OK")) => Sound(account, Answering(z, i, "OK"))
    <3>1. /\ z.conns[i].task = "active" /\ z.conns[i].greeted /\ z.conns[i].socket # "connecting"
          /\ z.conns[i].cmds # <<>> /\ Len(z.conns[i].cmds) = 1 /\ (z.conns[i].epoch = "tls" => z.sslKnown)
      BY <1>3, <1>7, <1>11, <2>2
    <3>2. Loose(account, z) /\ i \in DOMAIN z.conns /\ OthersOut(z, i) /\ z.conns[i] = e
      BY <1>1, <1>11, <2>1 DEF Here
    <3> QED
      BY <3>1, <3>2, InUseAnswered
  <2>5. Allowed(account, y.sslKnown, y.conns[i])
    BY <1>9, <1>11, <2>4 DEF Allowed
  <2>6. e.fresh => e.caps.epoch = e.epoch
    BY <1>3, <1>7, <1>8, <2>1, <2>2 DEF InUse
  <2>7. Sound(account, HandleLoginResult(y, i, "OK"))
    BY <1>7, <1>11, <2>2, <2>3, <2>4, <2>5, <2>6, LoginResultSound DEF Current
  <2> QED
    BY <1>2, <1>7, <2>2, <2>4, <2>7 DEF HandleTagged, z
<1> QED
  BY <1>12, <1>13

LEMMA KeepsAnswerStartTls ==
    ASSUME ConnectionInv, NEW i \in Opened, AnswerStartTls(i)
    PROVE  Sound(account, m')
<1> DEFINE c == m.conns[i]
<1>1. Here(i)
  BY HereIs
<1>2. PICK kind \in {"OK", "NO"} :
         m' = Answering(Put(m, i, [c EXCEPT !.epoch = IF kind = "OK" THEN "handshake" ELSE @,
                                            !.frozen = "encryption"]), i, kind)
  BY Zenon DEF AnswerStartTls, Answer, Answering
<1>3. c.cmds # <<>> /\ c.cmds[1] = "STARTTLS" /\ c.state # "gone" /\ c.greeted
  BY AskedIs DEF AnswerStartTls
<1> DEFINE e == [c EXCEPT !.epoch = IF kind = "OK" THEN "handshake" ELSE @, !.frozen = "encryption"]
           x == Put(m, i, e)
<1>4. m' = Answering(x, i, kind)
  BY <1>2, Zenon
<1>5. e \in Connections /\ x = [m EXCEPT !.conns[i] = e]
  BY <1>1 DEF Put, Here, Connections, Epochs
<1>6. Becomes(m, x, i, e)
  BY <1>1, <1>5, OneBecomes DEF Here
<1>7. /\ e.state = c.state /\ e.task = c.task /\ e.cmds = c.cmds /\ e.greeted = c.greeted
      /\ e.socket = c.socket /\ e.caps = c.caps /\ e.fresh = c.fresh
      /\ e.epoch = (IF kind = "OK" THEN "handshake" ELSE c.epoch)
  BY <1>1 DEF Here, Connections
<1> HIDE DEF e, x
<1>8. Sane(account, m.sslKnown, e)
  BY <1>1, <1>3, <1>7 DEF Sane, Here
<1>9. /\ Loose(account, x) /\ DOMAIN x.conns = DOMAIN m.conns /\ x.conns[i] = e
      /\ OthersOut(m, i) => OthersOut(x, i)
      /\ x.password = m.password /\ x.sslKnown = m.sslKnown
  <2>1. x.password = m.password /\ x.sslKnown = m.sslKnown
    BY <1>6 DEF Becomes
  <2> QED
    BY <1>1, <1>5, <1>6, <1>8, <2>1, LooseBecomes DEF Here
<1>10. CASE Out(c)
  <2>1. Sound(account, x)
    BY <1>1, <1>5, <1>6, <1>7, <1>8, <1>10, OutBecomes DEF Here, Out
  <2> QED
    <3>1. i \in DOMAIN x.conns /\ Out(x.conns[i]) /\ x.conns[i].cmds # <<>>
      BY <1>1, <1>3, <1>7, <1>9, <1>10 DEF Here, Out
    <3> QED
      BY <1>1, <1>4, <2>1, <3>1, OutAnswered DEF Here
<1>11. CASE ~Out(c)
  <2>1. InUse(account, m.sslKnown, m.password, c) /\ OthersOut(m, i)
    BY <1>1, <1>11 DEF Here, Sound
  <2>2. /\ c.task = "active" /\ c.greeted /\ c.socket # "connecting" /\ Len(c.cmds) = 1
        /\ c.state = "STARTTLS_ISSUED"
    BY <1>1, <1>3, <2>1, GivenIs DEF Here
  <2>3. e.epoch \in {"none", "handshake"}
    BY <1>7, <2>1, <2>2 DEF InUse, EpochsOf
  <2>4. PICK y : /\ Ready(y, i) /\ y.password = x.password /\ y.sslKnown = x.sslKnown
                 /\ y.conns[i].state = e.state /\ y.conns[i].epoch = e.epoch
                 /\ y.conns[i].caps = e.caps /\ y.conns[i].fresh = e.fresh
                 /\ Sound(account, HandleTagged(y, i, kind)) => Sound(account, Answering(x, i, kind))
    <3>1. /\ x.conns[i].task = "active" /\ x.conns[i].greeted /\ x.conns[i].socket # "connecting"
          /\ x.conns[i].cmds # <<>> /\ Len(x.conns[i].cmds) = 1 /\ (x.conns[i].epoch = "tls" => x.sslKnown)
      BY <1>3, <1>7, <1>9, <2>2, <2>3
    <3>2. Loose(account, x) /\ i \in DOMAIN x.conns /\ OthersOut(x, i) /\ x.conns[i] = e
      BY <1>1, <1>9, <2>1 DEF Here
    <3> QED
      BY <3>1, <3>2, InUseAnswered
  <2>5. CASE kind = "NO"
    <3>1. Sound(account, abortConnection(y, i))
      BY <1>3, <1>7, <2>4, Abort
    <3> QED
      BY <1>7, <1>4, <2>2, <2>4, <2>5, <3>1 DEF HandleTagged
  <2>6. CASE kind = "OK"
    <3> DEFINE d == [y.conns[i] EXCEPT !.state = "STARTTLS_HANDSHAKE"]
    <3>1. y \in Models /\ i \in DOMAIN y.conns /\ y.conns[i] \in Connections /\ Sane(account, y.sslKnown, y.conns[i])
      BY <2>4, Members DEF Ready, Loose
    <3>2. Becomes(y, changeConnectionState(y, i, "STARTTLS_HANDSHAKE"), i, d)
      BY <3>1, Changes DEF States, InUseStates
    <3>3. /\ d \in Connections /\ d.state = "STARTTLS_HANDSHAKE" /\ d.task = "active" /\ d.cmds = <<>>
          /\ d.greeted /\ d.socket # "connecting" /\ d.epoch = "handshake" /\ d.caps = y.conns[i].caps
      BY <1>7, <2>4, <2>6, <3>1 DEF Connections, Ready, InUseStates
    <3> HIDE DEF d
    <3>4. Sane(account, y.sslKnown, d)
      BY <3>1, <3>3 DEF Sane
    <3>5. InUse(account, y.sslKnown, y.password, d)
      BY <3>3 DEF InUse, Given, EpochsOf, Early
    <3>6. Sound(account, changeConnectionState(y, i, "STARTTLS_HANDSHAKE"))
      BY <2>4, <3>1, <3>2, <3>3, <3>4, <3>5, SoundBecomes DEF Ready
    <3> QED
      BY <1>7, <1>4, <2>2, <2>4, <2>6, <3>6 DEF HandleTagged
  <2> QED
    BY <2>5, <2>6
<1> QED
  BY <1>10, <1>11

LEMMA KeepsAnswerCompress ==
    ASSUME ConnectionInv, NEW i \in Opened, AnswerCompress(i)
    PROVE  Sound(account, m')
<1> DEFINE c == m.conns[i]
<1>1. Here(i)
  BY HereIs
<1>2. m' = Answering(m, i, "OK")
  BY DEF AnswerCompress, Answer, Answering
<1>3. c.cmds # <<>> /\ c.cmds[1] = "COMPRESS"
  BY AskedIs DEF AnswerCompress
<1>4. CASE Out(c)
  BY <1>1, <1>2, <1>3, <1>4, OutAnswered DEF Here
<1>5. CASE ~Out(c)
  <2>1. InUse(account, m.sslKnown, m.password, c) /\ OthersOut(m, i)
    BY <1>1, <1>5 DEF Here, Sound
  <2>2. /\ c.task = "active" /\ c.greeted /\ c.socket # "connecting" /\ Len(c.cmds) = 1
        /\ c.state = "COMPRESS_DEFLATE"
    BY <1>1, <1>3, <2>1, GivenIs DEF Here
  <2>3. c.epoch = "auth" /\ c.caps.epoch = "auth"
    BY <2>1, <2>2 DEF InUse, EpochsOf
  <2>4. PICK y : /\ Ready(y, i) /\ y.password = m.password /\ y.sslKnown = m.sslKnown
                 /\ y.conns[i].state = c.state /\ y.conns[i].epoch = c.epoch
                 /\ y.conns[i].caps = c.caps /\ y.conns[i].fresh = c.fresh
                 /\ Sound(account, HandleTagged(y, i, "OK")) => Sound(account, Answering(m, i, "OK"))
    BY <1>1, <1>3, <2>1, <2>2, <2>3, InUseAnswered DEF Here
  <2>5. Sound(account, Complete(y, i))
    BY <2>3, <2>4, CompleteSound
  <2> QED
    BY <1>2, <2>2, <2>4, <2>5 DEF HandleTagged
<1> QED
  BY <1>4, <1>5

LEMMA KeepsAnswerLogout ==
    ASSUME ConnectionInv, NEW i \in Opened, AnswerLogout(i)
    PROVE  Sound(account, m')
BY HereIs, KillSound DEF AnswerLogout, Here

LEMMA KeepsBye ==
    ASSUME ConnectionInv, NEW i \in Opened, Bye(i)
    PROVE  Sound(account, m')
<1> DEFINE c == m.conns[i]
<1>1. Here(i)
  BY HereIs
<1>2. CASE c.task = "dead"
  <2>1. Out(c)
    BY <1>1, <1>2 DEF Here, Sound, InUse
  <2>2. m' = Routed(m, i, m)
    BY <1>2 DEF Bye, Routed
  <2> QED
    BY <1>1, <1>2, <2>1, <2>2, RoutedSound DEF Here
<1>3. CASE c.task # "dead" /\ c.logoutCmd
  <2>1. m' = killParser(m, i)
    BY <1>3 DEF Bye
  <2> QED
    BY <1>1, <2>1, KillSound DEF Here
<1>4. CASE c.task # "dead" /\ ~c.logoutCmd
  <2> DEFINE g == [c EXCEPT !.state = "LOGOUT"]
             y == [m EXCEPT !.conns = [m.conns EXCEPT ![i] = g]]
             z == [m EXCEPT !.policy = "offline",
                            !.conns = [j \in DOMAIN m.conns |-> IF j = i THEN LogOut(g) ELSE LogOut(m.conns[j])]]
             f == [j \in DOMAIN m.conns |-> IF j = i THEN Gone ELSE LogOut(m.conns[j])]
             t == [m EXCEPT !.policy = "offline", !.conns = f]
  <2>1. m' = killParser(setNetworkPolicy(changeConnectionState(m, i, "LOGOUT"), "offline"), i)
    BY <1>4 DEF Bye
  <2>2. y = changeConnectionState(m, i, "LOGOUT") /\ DOMAIN y.conns = DOMAIN m.conns
        /\ y.conns = [m.conns EXCEPT ![i] = g]
    BY <1>1 DEF changeConnectionState, Here, Models
  <2>3. z = setNetworkPolicy(y, "offline")
    <3>1. [j \in DOMAIN y.conns |-> LogOut(y.conns[j])]
            = [j \in DOMAIN m.conns |-> IF j = i THEN LogOut(g) ELSE LogOut(m.conns[j])]
      BY <1>1, <2>2 DEF Here
    <3> HIDE DEF g
    <3> QED
      BY <1>1, <3>1 DEF setNetworkPolicy, Here, Models
  <2> HIDE DEF g
  <2>4. [z.conns EXCEPT ![i] = Gone] = f
    <3>1. z.conns = [j \in DOMAIN m.conns |-> IF j = i THEN LogOut(g) ELSE LogOut(m.conns[j])]
      BY <1>1 DEF Here, Models
    <3> HIDE DEF z
    <3> QED
      BY <1>1, <3>1 DEF Here
  <2>5. killParser(z, i) = t
    BY <1>1, <2>4 DEF killParser, Put, Gone, Here, Models
  <2>6. Throw(m, i) = t
    <3> DEFINE k == killParser(m, i)
    <3>1. Becomes(m, k, i, Gone) /\ k = [m EXCEPT !.conns = [m.conns EXCEPT ![i] = Gone]]
      BY <1>1, Kills DEF Here, killParser, Put, Gone, Models
    <3>2. LogOut(Gone) = Gone
      BY <1>1, NewConnections DEF LogOut, Out, Here
    <3>3. [j \in DOMAIN k.conns |-> LogOut(k.conns[j])] = f
      BY <1>1, <3>1, <3>2 DEF Becomes, Here
    <3> HIDE DEF f
    <3> QED
      BY <1>1, <3>1, <3>3 DEF Throw, setNetworkPolicy, Here, Models
  <2> HIDE DEF t, y, z
  <2>7. m' = Throw(m, i)
    BY <2>1, <2>2, <2>3, <2>5, <2>6
  <2> QED
    BY <1>1, <2>7, ThrowSound DEF Here
<1> QED
  BY <1>2, <1>3, <1>4

LEMMA KeepsDisconnected ==
    ASSUME ConnectionInv, NEW i \in Opened, Disconnected(i)
    PROVE  Sound(account, m')
<1>1. Here(i)
  BY HereIs
<1> DEFINE k == killParser(m, i)
           x == [k EXCEPT !.errors = @ + 1]
<1>2. Sound(account, k)
  BY <1>1, KillSound DEF Here
<1>3. m' = k \/ m' = setNetworkPolicy(x, "offline")
  BY DEF Disconnected
<1> HIDE DEF k
<1>4. /\ x \in Models /\ x.conns = k.conns /\ x.password = k.password /\ x.prompts = k.prompts
      /\ x.sslKnown = k.sslKnown
  <2>1. k \in Models /\ k.errors + 1 \in Nat
    BY <1>2 DEF Sound, Loose, Models
  <2> DEFINE n == k.errors + 1
  <2>2. n \in Nat
    BY <2>1
  <2>3. x = [k EXCEPT !.errors = n]
    OBVIOUS
  <2> HIDE DEF n, x
  <2> QED
    BY <2>1, <2>2, <2>3 DEF Models
<1> HIDE DEF x
<1>5. Sound(account, x)
  BY <1>2, <1>4, SoundOtherwise
<1>6. Sound(account, setNetworkPolicy(x, "offline"))
  BY <1>5, Offline DEF Sound
<1> QED
  BY <1>2, <1>3, <1>6

LEMMA KeepsOnConnected ==
    ASSUME ConnectionInv, NEW i \in Opened, onConnected(i)
    PROVE  Sound(account, m')
<1> DEFINE c == m.conns[i]
           d == [c EXCEPT !.socket = "open"]
           x == [m EXCEPT !.conns[i].socket = "open"]
           next == IF account = "ssl" THEN "SSL_HANDSHAKE" ELSE "CONNECTED_PRETLS_PRECAPS"
           e == [d EXCEPT !.state = next]
<1>1. Here(i) /\ c.socket = "connecting"
  BY HereIs DEF onConnected
<1>2. m' = IF c.state = "LOGOUT" THEN x ELSE changeConnectionState(x, i, next)
  BY DEF onConnected
<1>3. d \in Connections /\ x = [m EXCEPT !.conns[i] = d]
  BY <1>1 DEF Here, Models, Connections
<1>4. /\ d.state = c.state /\ d.task = c.task /\ d.cmds = c.cmds /\ d.caps = c.caps /\ d.epoch = c.epoch
      /\ d.greeted = c.greeted /\ d.frozen = c.frozen /\ d.fresh = c.fresh /\ d.sslChain = c.sslChain
      /\ d.socket = "open"
  BY <1>1 DEF Here, Connections
<1>5. c.state # "gone"
  BY <1>1 DEF Here, Sane
<1> HIDE DEF d, x
<1>6. Sane(account, m.sslKnown, d)
  BY <1>1, <1>4, <1>5 DEF Sane, Allowed, Here
<1>7. Becomes(m, x, i, d)
  BY <1>1, <1>3, OneBecomes DEF Here
<1>8. CASE c.state = "LOGOUT"
  BY <1>1, <1>2, <1>3, <1>4, <1>6, <1>7, <1>8, OutBecomes DEF Here, Out
<1>9. CASE c.state # "LOGOUT"
  <2>1. InUse(account, m.sslKnown, m.password, c) /\ OthersOut(m, i) /\ c.state = "NONE"
    BY <1>1, <1>5, <1>9 DEF Here, Sound, InUse, Out
  <2>2. Loose(account, x) /\ DOMAIN x.conns = DOMAIN m.conns /\ x.conns[i] = d /\ OthersOut(x, i)
    BY <1>1, <1>3, <1>6, <1>7, <2>1, LooseBecomes DEF Here
  <2>3. Becomes(x, changeConnectionState(x, i, next), i, e)
    BY <1>1, <2>2, Changes DEF Here, Loose, States, InUseStates, Early
  <2>4. /\ e \in Connections /\ e.state = next /\ e.task = d.task /\ e.cmds = d.cmds /\ e.caps = d.caps
        /\ e.epoch = d.epoch /\ e.greeted = d.greeted /\ e.frozen = d.frozen /\ e.fresh = d.fresh
        /\ e.sslChain = d.sslChain /\ e.socket = "open"
    BY <1>3, <1>4 DEF Connections, InUseStates, Early
  <2>5. next \in {"SSL_HANDSHAKE", "CONNECTED_PRETLS_PRECAPS"} /\ (next = "SSL_HANDSHAKE" <=> account = "ssl")
    OBVIOUS
  <2> HIDE DEF e, next
  <2>6. Sane(account, x.sslKnown, e)
    BY <1>4, <1>6, <1>7, <2>4, <2>5 DEF Sane, Allowed, Becomes
  <2>7. InUse(account, x.sslKnown, x.password, e)
    BY <1>4, <2>1, <2>4, <2>5 DEF InUse, Given, EpochsOf, Early
  <2> QED
    BY <1>2, <1>9, <1>1, <2>2, <2>3, <2>4, <2>6, <2>7, SoundBecomes DEF Here
<1> QED
  BY <1>8, <1>9

LEMMA OneDecided ==
    ASSUME NEW known, NEW password, NEW c \in Connections, Sane(account, known, c),
           ~Out(c) => InUse(account, known, password, c), c.sslChain, NEW ok \in BOOLEAN, ok => known
    PROVE  LET d == Decided(c, ok)
           IN /\ d \in Connections /\ Sane(account, known, d)
              /\ Out(c) <=> Out(d)
              /\ ~Out(c) /\ (ok \/ ~Verifying(c)) => InUse(account, known, password, d)
<1> DEFINE e == [c EXCEPT !.frozen = "no"]
<1>1. /\ e \in Connections /\ e.state = c.state /\ e.task = c.task /\ e.cmds = c.cmds /\ e.caps = c.caps
      /\ e.epoch = c.epoch /\ e.greeted = c.greeted /\ e.frozen = "no" /\ e.fresh = c.fresh
      /\ e.sslChain = c.sslChain /\ e.socket = c.socket
  BY DEF Connections
<1>2. Sane(account, known, e) /\ (Out(e) <=> Out(c))
  BY <1>1 DEF Sane, Allowed, Out
<1>3. CASE ok /\ c.state = "SSL_VERIFYING"
  <2> DEFINE d == [e EXCEPT !.state = "CONNECTED_PRETLS_PRECAPS"]
  <2>1. Decided(c, ok) = d
    BY <1>3 DEF Decided
  <2>2. /\ d \in Connections /\ d.state = "CONNECTED_PRETLS_PRECAPS" /\ d.task = c.task /\ d.cmds = c.cmds
        /\ d.caps = c.caps /\ d.epoch = c.epoch /\ d.greeted = c.greeted /\ d.fresh = c.fresh
        /\ d.socket = c.socket
    BY <1>1 DEF Connections, InUseStates, Early
  <2> HIDE DEF d
  <2>3. InUse(account, known, password, c)
    BY <1>3 DEF Out
  <2>4. Sane(account, known, d) /\ ~Out(d)
    BY <2>2 DEF Sane, Out, Allowed
  <2>5. InUse(account, known, password, d)
    BY <1>3, <2>2, <2>3 DEF InUse, Given, EpochsOf, Early
  <2> QED
    BY <1>3, <2>1, <2>2, <2>4, <2>5 DEF Out
<1>4. CASE ok /\ c.state = "STARTTLS_VERIFYING"
  <2> DEFINE d == [e EXCEPT !.cmds = Append(@, "CAPABILITY"), !.state = "ESTABLISHED_PRECAPS", !.fresh = FALSE]
  <2>1. Decided(c, ok) = d
    BY <1>1, <1>4 DEF Decided, Command, Connections
  <2>2. InUse(account, known, password, c)
    BY <1>4 DEF Out
  <2>3. c.cmds = <<>> /\ c.cmds \in Seq(Names)
    BY <1>4, <2>2 DEF InUse, Given, Connections
  <2>4. Append(c.cmds, "CAPABILITY") = <<"CAPABILITY">> /\ Append(c.cmds, "CAPABILITY") \in Seq(Names)
    BY <2>3, Commands DEF Names
  <2>5. /\ d \in Connections /\ d.state = "ESTABLISHED_PRECAPS" /\ d.task = c.task /\ d.cmds = <<"CAPABILITY">>
        /\ d.caps = c.caps /\ d.epoch = c.epoch /\ d.greeted = c.greeted /\ ~d.fresh
        /\ d.socket = c.socket
    BY <1>1, <2>4 DEF Connections, InUseStates
  <2>6. DOMAIN <<"CAPABILITY">> = {1}
    OBVIOUS
  <2> HIDE DEF d
  <2>7. Sane(account, known, d) /\ ~Out(d)
    BY <2>5, <2>6 DEF Sane, Out
  <2>8. InUse(account, known, password, d)
    BY <1>4, <2>2, <2>5 DEF InUse, Given, EpochsOf, Early
  <2> QED
    BY <1>4, <2>1, <2>5, <2>7, <2>8 DEF Out
<1>5. CASE ~(ok /\ Verifying(c))
  <2>1. Decided(c, ok) = e
    BY <1>5 DEF Decided, Verifying
  <2>2. ASSUME InUse(account, known, password, c), ~Verifying(c)
        PROVE  InUse(account, known, password, e)
    <3> HIDE DEF e
    <3>1. c.state \notin {"NONE", "SSL_HANDSHAKE", "SSL_VERIFYING"}
      BY <2>2 DEF InUse, Verifying
    <3> QED
      BY <1>1, <2>2, <3>1 DEF InUse, Verifying, Allowed
  <2> QED
    BY <1>1, <1>2, <1>5, <2>1, <2>2
<1> QED
  BY <1>3, <1>4, <1>5 DEF Verifying

LEMMA DecidedSound ==
    ASSUME NEW x, Sound(account, x), NEW asked \in SUBSET DOMAIN x.conns, \A j \in asked : x.conns[j].sslChain,
           NEW ok \in BOOLEAN, ok => x.sslKnown
    PROVE  Sound(account, sslConnectionPolicyDecided(x, asked, ok))
<1> DEFINE conns == [i \in DOMAIN x.conns |-> IF i \in asked THEN Decided(x.conns[i], ok) ELSE x.conns[i]]
           asserted == x.asserted \/ \E i \in asked : ~Verifying(x.conns[i])
           y == [x EXCEPT !.conns = conns, !.asserted = asserted]
<1>1. x \in Models /\ Len(x.conns) \in Nat /\ DOMAIN x.conns = 1..Len(x.conns)
  BY LenProperties DEF Models, Sound, Loose
<1>2. \A i \in DOMAIN x.conns :
        /\ x.conns[i] \in Connections /\ Sane(account, x.sslKnown, x.conns[i])
        /\ ~Out(x.conns[i]) => InUse(account, x.sslKnown, x.password, x.conns[i])
  BY <1>1, Members DEF Sound, Loose
<1>3. \A i \in DOMAIN x.conns :
        /\ conns[i] \in Connections /\ Sane(account, x.sslKnown, conns[i])
        /\ Out(x.conns[i]) <=> Out(conns[i])
        /\ ~Out(x.conns[i]) /\ (ok \/ i \notin asked \/ ~Verifying(x.conns[i]))
               => InUse(account, x.sslKnown, x.password, conns[i])
  BY <1>2, OneDecided
<1>4. conns \in Seq(Connections) /\ DOMAIN conns = DOMAIN x.conns
  <2>1. DOMAIN conns = DOMAIN x.conns /\ conns = [i \in DOMAIN x.conns |-> conns[i]]
    OBVIOUS
  <2> HIDE DEF conns
  <2> QED
    BY <1>1, <1>3, <2>1
<1> HIDE DEF conns, asserted
<1>5. sslConnectionPolicyDecided(x, asked, ok) =
        IF ~ok /\ \E i \in asked : Verifying(x.conns[i]) THEN setNetworkPolicy(y, "offline") ELSE y
  BY DEF sslConnectionPolicyDecided, conns, asserted
<1>6. asserted \in BOOLEAN
  BY <1>1 DEF asserted, Models
<1>7. /\ y \in Models /\ y.conns = conns /\ y.password = x.password /\ y.prompts = x.prompts
      /\ y.sslKnown = x.sslKnown
  BY <1>1, <1>4, <1>6 DEF Models
<1> HIDE DEF y
<1>8. Loose(account, y)
  BY <1>3, <1>4, <1>7 DEF Loose, Asking, Sound
<1>9. CASE ~ok /\ \E i \in asked : Verifying(x.conns[i])
  BY <1>5, <1>8, <1>9, Offline
<1>10. CASE ok \/ \A i \in asked : ~Verifying(x.conns[i])
  <2>1. Sound(account, y)
    BY <1>3, <1>4, <1>7, <1>8, <1>10 DEF Sound, OthersOut
  <2> QED
    BY <1>5, <1>10, <2>1
<1> QED
  BY <1>9, <1>10

LEMMA KeepsSetSslPolicy ==
    ASSUME ConnectionInv, setSslPolicy
    PROVE  Sound(account, m')
<1> DEFINE asked == {i \in Opened : m.conns[i].task # "none" /\ m.conns[i].sslChain}
<1>1. PICK ok \in BOOLEAN :
         m' = sslConnectionPolicyDecided([m EXCEPT !.sslDialogs = @ - 1, !.sslKnown = @ \/ ok], asked, ok)
  BY DEF setSslPolicy
<1> DEFINE dialogs == m.sslDialogs - 1
           known == m.sslKnown \/ ok
           x == [m EXCEPT !.sslDialogs = dialogs, !.sslKnown = known]
<1>2. m \in Models /\ Sound(account, m)
  BY DEF ConnectionInv, Sound, Loose
<1>3. dialogs \in Nat /\ known \in BOOLEAN /\ (ok => known) /\ (m.sslKnown => known)
  BY <1>2 DEF setSslPolicy, Models
<1>4. m' = sslConnectionPolicyDecided(x, asked, ok)
  BY <1>1
<1> HIDE DEF dialogs, known
<1>5. x \in Models /\ x.conns = m.conns /\ x.password = m.password /\ x.prompts = m.prompts /\ x.sslKnown = known
  BY <1>2, <1>3 DEF Models
<1> HIDE DEF x
<1>6. Sound(account, x)
  BY <1>2, <1>3, <1>5, KnownLater
<1>7. asked \in SUBSET DOMAIN x.conns /\ \A j \in asked : x.conns[j].sslChain
  BY <1>5 DEF Opened
<1> QED
  BY <1>3, <1>4, <1>5, <1>6, <1>7, DecidedSound

LEMMA KeepsEncrypted ==
    ASSUME ConnectionInv, NEW i \in Opened, Encrypted(i)
    PROVE  Sound(account, m')
<1> DEFINE c == m.conns[i]
           d == [c EXCEPT !.epoch = "tls", !.frozen = "policy"]
           x == Put(m, i, d)
           next == IF c.state = "SSL_HANDSHAKE" THEN "SSL_VERIFYING" ELSE "STARTTLS_VERIFYING"
           y == [changeConnectionState(x, i, next) EXCEPT !.conns[i].sslChain = TRUE]
<1>1. Here(i) /\ c.socket = "open" /\ c.epoch = "handshake"
  BY HereIs DEF Encrypted
<1>2. /\ c.task = "none" => m' = killParser(m, i)
      /\ c.task = "dead" => m' = [x EXCEPT !.conns[i].task = "none"]
      /\ c.task = "active" /\ m.sslKnown => m' = sslConnectionPolicyDecided(y, {i}, TRUE)
      /\ c.task = "active" /\ ~m.sslKnown => m' = [y EXCEPT !.sslDialogs = @ + 1]
  <2>1. c.task = "none" => m' = killParser(m, i)
    <3>1. c.task = "none" => m' = killParser(x, i)
      BY DEF Encrypted
    <3>2. killParser(x, i) = killParser(m, i)
      BY <1>1 DEF killParser, Put, Here, Models
    <3> QED
      BY <3>1, <3>2, Zenon
  <2>2. c.task = "dead" => m' = [x EXCEPT !.conns[i].task = "none"]
    BY DEF Encrypted
  <2>3. c.task = "active" /\ m.sslKnown => m' = sslConnectionPolicyDecided(y, {i}, TRUE)
    BY DEF Encrypted
  <2>4. c.task = "active" /\ ~m.sslKnown => m' = [y EXCEPT !.sslDialogs = @ + 1]
    BY DEF Encrypted
  <2> QED
    BY <2>1, <2>2, <2>3, <2>4, Zenon
<1>3. d \in Connections /\ x = [m EXCEPT !.conns[i] = d]
  <2>1. d \in Connections
    BY <1>1 DEF Here, Connections, Epochs
  <2> QED
    BY <2>1 DEF Put
<1>4. /\ d.state = c.state /\ d.task = c.task /\ d.cmds = c.cmds /\ d.caps = c.caps /\ d.epoch = "tls"
      /\ d.greeted = c.greeted /\ d.frozen = "policy" /\ d.fresh = c.fresh /\ d.socket = "open"
  BY <1>1 DEF Here, Connections
<1> HIDE DEF d, x
<1>5. Sane(account, m.sslKnown, d)
  BY <1>1, <1>4 DEF Sane, Allowed, Here
<1>6. Becomes(m, x, i, d)
  BY <1>1, <1>3, OneBecomes DEF Here
<1>7. CASE c.task = "none"
  BY <1>1, <1>2, <1>7, KillSound DEF Here
<1>8. CASE c.task = "dead"
  <2>1. Out(c)
    BY <1>1, <1>8 DEF Here, Sound, InUse
  <2>2. Sound(account, x) /\ x.conns[i] = d
    <3>1. Out(d)
      BY <1>4, <2>1 DEF Out
    <3>2. x.conns[i] = d
      BY <1>1, <1>6 DEF Becomes, Here
    <3> QED
      BY <1>1, <1>3, <1>5, <1>6, <2>1, <3>1, <3>2, OutBecomes DEF Here
  <2>3. m' = Routed(x, i, x)
    BY <1>2, <1>4, <1>8, <2>2 DEF Routed
  <2>4. i \in DOMAIN x.conns
    BY <1>1, <1>6 DEF Becomes, Here
  <2> QED
    BY <1>4, <1>8, <2>1, <2>2, <2>3, <2>4, RoutedSound DEF Out, Sound
<1>9. CASE c.task = "active"
  <2>1. InUse(account, m.sslKnown, m.password, c) /\ OthersOut(m, i)
        /\ c.state \in {"SSL_HANDSHAKE", "STARTTLS_HANDSHAKE"}
    <3>1. ~Out(c)
      BY <1>1, <1>9 DEF Out, Here, Sane
    <3>2. InUse(account, m.sslKnown, m.password, c) /\ OthersOut(m, i)
      BY <1>1, <3>1 DEF Here, Sound
    <3>3. c.state \in InUseStates
      BY <1>1, <3>1 DEF Here, Connections, Out
    <3> QED
      BY <1>1, <3>2, <3>3 DEF InUse, EpochsOf, InUseStates, Early
  <2> DEFINE v == changeConnectionState(x, i, next)
             f == [d EXCEPT !.state = next]
             e == [d EXCEPT !.state = next, !.sslChain = TRUE]
  <2>2. Loose(account, x) /\ DOMAIN x.conns = DOMAIN m.conns /\ x.conns[i] = d /\ OthersOut(x, i)
    BY <1>1, <1>3, <1>5, <1>6, <2>1, LooseBecomes DEF Here
  <2>3. Becomes(x, v, i, f)
    BY <1>1, <2>2, Changes DEF Here, Loose, States, InUseStates, Early
  <2>4. /\ e \in Connections /\ e.state = next /\ e.task = d.task /\ e.cmds = d.cmds /\ e.caps = d.caps
        /\ e.epoch = "tls" /\ e.greeted = d.greeted /\ e.frozen = "policy" /\ e.fresh = d.fresh
        /\ e.sslChain /\ e.socket = "open" /\ e = [f EXCEPT !.sslChain = TRUE]
    BY <1>3, <1>4 DEF Connections, InUseStates, Early
  <2>5. /\ next \in {"SSL_VERIFYING", "STARTTLS_VERIFYING"}
        /\ next = "SSL_VERIFYING" <=> c.state = "SSL_HANDSHAKE"
    OBVIOUS
  <2> HIDE DEF e, f, v, next
  <2>6. Sane(account, x.sslKnown, e)
    BY <1>4, <1>5, <1>6, <2>4, <2>5 DEF Sane, Allowed, Becomes
  <2>7. InUse(account, x.sslKnown, x.password, e)
    BY <1>4, <2>1, <2>4, <2>5 DEF InUse, Given, EpochsOf, Early, Verifying
  <2>8. v \in Models /\ DOMAIN v.conns = DOMAIN x.conns /\ v.conns[i] = f
    BY <1>1, <2>2, <2>3 DEF Becomes, Here
  <2>9. y = [v EXCEPT !.conns[i] = e]
    BY <2>4, <2>8 DEF v, Models
  <2> HIDE DEF y
  <2>10. Becomes(v, y, i, e)
    BY <1>1, <2>2, <2>4, <2>8, <2>9, OneBecomes DEF Here
  <2>11. [v.conns EXCEPT ![i] = e] = [x.conns EXCEPT ![i] = e]
    BY <2>3 DEF Becomes
  <2>12. Becomes(x, y, i, e)
    BY <2>3, <2>10, <2>11 DEF Becomes
  <2>13. Sound(account, y)
    BY <1>1, <2>2, <2>4, <2>6, <2>7, <2>12, SoundBecomes DEF Here
  <2>14. CASE m.sslKnown
    <3>1. y.sslKnown /\ i \in DOMAIN y.conns /\ y.conns[i].sslChain
      BY <1>1, <1>6, <2>2, <2>4, <2>12, <2>14 DEF Becomes, Here
    <3>2. {i} \in SUBSET DOMAIN y.conns /\ \A j \in {i} : y.conns[j].sslChain
      BY <3>1
    <3> QED
      BY <1>2, <1>9, <2>13, <2>14, <3>1, <3>2, DecidedSound
  <2>15. CASE ~m.sslKnown
    <3> DEFINE n == y.sslDialogs + 1
               z == [y EXCEPT !.sslDialogs = n]
    <3>1. y \in Models
      BY <2>13 DEF Sound, Loose
    <3>2. n \in Nat
      BY <3>1 DEF Models
    <3>3. m' = z
      BY <1>2, <1>9, <2>15
    <3> HIDE DEF n
    <3>4. z \in Models /\ z.conns = y.conns /\ z.password = y.password /\ z.prompts = y.prompts /\ z.sslKnown = y.sslKnown
      BY <3>1, <3>2 DEF Models
    <3> HIDE DEF z
    <3> QED
      BY <2>13, <3>3, <3>4, SoundOtherwise
  <2> QED
    BY <2>14, <2>15
<1>10. c.task \in {"none", "dead", "active"}
  BY <1>1 DEF Here, Connections
<1> QED
  BY <1>7, <1>8, <1>9, <1>10

LEMMA KeepsCapability ==
    ASSUME ConnectionInv, NEW i \in Opened, Capability(i)
    PROVE  Sound(account, m')
<1> DEFINE c == m.conns[i]
           epoch == IF Asked(i, "LOGIN") THEN "auth" ELSE c.epoch
           d == [c EXCEPT !.epoch = epoch, !.task = IF @ = "dead" THEN "none" ELSE @]
           x == Put(m, i, d)
<1>1. Here(i)
  BY HereIs
<1>2. PICK caps \in CapsOf(epoch) : m' = updateCapabilities(x, i, caps)
  BY DEF Capability
<1>3. /\ c.cmds # <<>> /\ c.cmds[1] \in {"CAPABILITY", "LOGIN"} /\ c.state # "gone" /\ c.greeted
      /\ c.cmds[1] = "LOGIN" <=> Asked(i, "LOGIN")
      /\ ~c.fresh
  BY AskedIs DEF Capability
<1>4. d \in Connections /\ x = [m EXCEPT !.conns[i] = d]
  <2>1. epoch \in Epochs
    BY <1>1 DEF Here, Connections, Epochs
  <2> HIDE DEF epoch
  <2>2. d \in Connections
    BY <1>1, <2>1 DEF Here, Connections
  <2>3. x = [m EXCEPT !.conns[i] = d]
    BY DEF Put
  <2> QED
    BY <2>2, <2>3
<1>5. /\ d.state = c.state /\ d.task = (IF c.task = "dead" THEN "none" ELSE c.task) /\ d.cmds = c.cmds
      /\ d.caps = c.caps /\ d.greeted = c.greeted /\ d.frozen = c.frozen /\ d.fresh = c.fresh
      /\ d.socket = c.socket /\ d.sslChain = c.sslChain /\ d.epoch = epoch
  BY <1>1 DEF Here, Connections
<1>6. /\ epoch \in Epochs
      /\ c.cmds[1] = "LOGIN" => epoch = "auth"
      /\ c.cmds[1] # "LOGIN" => epoch = c.epoch
  BY <1>1, <1>3 DEF Here, Connections, Epochs
<1> HIDE DEF d, x, epoch
<1>7. Sane(account, m.sslKnown, d)
  BY <1>1, <1>3, <1>5, <1>6 DEF Sane, Allowed, Here
<1>8. Becomes(m, x, i, d)
  BY <1>1, <1>4, OneBecomes DEF Here
<1>9. /\ Loose(account, x) /\ DOMAIN x.conns = DOMAIN m.conns /\ x.conns[i] = d
      /\ OthersOut(m, i) => OthersOut(x, i)
  BY <1>1, <1>4, <1>7, <1>8, LooseBecomes DEF Here
<1>10. caps \in Capabilities /\ caps.epoch = epoch /\ (epoch = "auth" => caps.imap4 /\ ~caps.loginDisabled)
  BY <1>6, OfEpoch
<1>11. CASE caps.imap4
  <2> DEFINE e == WithCaps(d, caps)
  <2>1. Becomes(x, updateCapabilities(x, i, caps), i, e) /\ e \in Connections
    BY <1>1, <1>9, <1>10, <1>11, UpdateIsImap DEF Here, Loose
  <2>2. /\ e.state = d.state /\ e.task = d.task /\ e.cmds = d.cmds /\ e.caps = caps
        /\ e.greeted = d.greeted /\ e.frozen = d.frozen /\ e.fresh
        /\ e.socket = d.socket /\ e.sslChain = d.sslChain /\ e.epoch = epoch
    BY <1>4, <1>5 DEF WithCaps, Connections
  <2> HIDE DEF e
  <2>3. x.sslKnown = m.sslKnown /\ x.password = m.password
    BY <1>8 DEF Becomes
  <2>4. Sane(account, x.sslKnown, e)
    <3>1. c.cmds[1] = "LOGIN" => Allowed(account, x.sslKnown, e)
      BY <1>6, <1>10, <2>2 DEF Allowed
    <3>2. e.caps \in CapsOf(e.caps.epoch) /\ e.caps.epoch # "unknown"
      BY <1>2, <1>6, <1>10, <2>2 DEF Epochs
    <3> QED
      BY <1>3, <1>5, <1>6, <1>7, <2>2, <3>1, <3>2 DEF Sane
  <2>5. CASE Out(c)
    <3>1. Sound(account, x)
      BY <1>1, <1>4, <1>5, <1>7, <1>8, <2>5, OutBecomes DEF Here, Out
    <3> QED
      BY <1>1, <1>2, <1>5, <1>9, <2>1, <2>2, <2>4, <2>5, <3>1, OutBecomes DEF Here, Out
  <2>6. CASE ~Out(c)
    <3>1. InUse(account, m.sslKnown, m.password, c) /\ OthersOut(m, i)
      BY <1>1, <2>6 DEF Here, Sound
    <3>2. /\ c.state \in {"CONNECTED_PRETLS", "ESTABLISHED_PRECAPS", "POSTAUTH_PRECAPS", "LOGIN"}
          /\ c.task = "active" /\ (c.state = "LOGIN" <=> c.cmds[1] = "LOGIN")
      BY <1>1, <1>3, <3>1, GivenIs DEF Here
    <3>3. CASE c.state = "LOGIN"
      <4>1. e.epoch = "auth" /\ Allowed(account, m.sslKnown, e)
        BY <1>6, <1>10, <2>2, <3>2, <3>3 DEF Allowed
      <4> QED
        <5>1. InUse(account, x.sslKnown, x.password, e)
          BY <1>3, <1>5, <1>10, <2>2, <2>3, <3>1, <3>3, <4>1 DEF InUse, EpochsOf, Early
        <5> QED
          BY <1>1, <1>2, <1>9, <2>1, <2>4, <3>1, <5>1, SoundBecomes DEF Here
    <3>4. CASE c.state # "LOGIN"
      <4>1. InUse(account, x.sslKnown, x.password, e)
        BY <1>3, <1>5, <1>6, <1>10, <2>2, <2>3, <3>1, <3>2, <3>4 DEF InUse, Early, Verifying
      <4> QED
        BY <1>1, <1>2, <1>9, <2>1, <2>4, <3>1, <4>1, SoundBecomes DEF Here
    <3> QED
      BY <3>3, <3>4
  <2> QED
    BY <2>5, <2>6
<1>12. CASE ~caps.imap4
  <2>1. epoch # "auth" /\ c.cmds[1] = "CAPABILITY" /\ epoch = c.epoch
    BY <1>3, <1>6, <1>10, <1>12
  <2>2. c.task = "active" => epoch # "handshake"
    <3>1. CASE Out(c)
      BY <1>1, <1>3, <2>1, <3>1 DEF Here, Sane, Out
    <3>2. CASE ~Out(c)
      <4>1. InUse(account, m.sslKnown, m.password, c)
        BY <1>1, <3>2 DEF Here, Sound
      <4>2. c.state \in {"CONNECTED_PRETLS", "ESTABLISHED_PRECAPS", "POSTAUTH_PRECAPS"}
        BY <1>1, <1>3, <2>1, <4>1, GivenIs DEF Here
      <4> QED
        BY <2>1, <4>1, <4>2 DEF InUse, EpochsOf
    <3> QED
      BY <3>1, <3>2
  <2> QED
    BY <1>1, <1>2, <1>3, <1>5, <1>6, <1>9, <1>12, <2>1, <2>2, UpdateNoImap DEF Here
<1> QED
  BY <1>11, <1>12

LEMMA KeepsGreeting ==
    ASSUME ConnectionInv, NEW i \in Opened, Greeting(i)
    PROVE  Sound(account, m')
<1> DEFINE c == m.conns[i]
<1>1. Here(i) /\ c.socket = "open" /\ c.frozen = "no" /\ ~c.greeted /\ c.state # "gone"
  BY HereIs DEF Greeting, Talks, Here, Sane
<1>2. PICK kind \in {"OK", "PREAUTH", "BYE", "BAD", "NO"} :
        LET epoch == IF kind = "PREAUTH" THEN "auth" ELSE c.epoch
            x == Put(m, i, [c EXCEPT !.epoch = epoch, !.greeted = TRUE])
        IN \E code \in (IF kind \in {"OK", "PREAUTH"} THEN Codes(epoch) ELSE {{}}) :
             LET y == HasCaps(x, i, code)
             IN m' = Routed(y, i, CASE y.conns[i].state \in Connecting -> HandleGreeting(y, i, kind)
                                    [] y.conns[i].state = "LOGOUT" /\ kind # "PREAUTH" -> y
                                    [] y.conns[i].state = "LOGOUT" /\ kind = "PREAUTH" -> Throw(y, i))
  BY DEF Greeting
<1> DEFINE epoch == IF kind = "PREAUTH" THEN "auth" ELSE c.epoch
           x == Put(m, i, [c EXCEPT !.epoch = epoch, !.greeted = TRUE])
           d == [c EXCEPT !.epoch = epoch, !.greeted = TRUE]
           handled(y) == CASE y.conns[i].state \in Connecting -> HandleGreeting(y, i, kind)
                           [] y.conns[i].state = "LOGOUT" /\ kind # "PREAUTH" -> y
                           [] y.conns[i].state = "LOGOUT" /\ kind = "PREAUTH" -> Throw(y, i)
<1>3. PICK code \in Codes(epoch) : m' = Routed(HasCaps(x, i, code), i, handled(HasCaps(x, i, code)))
  BY <1>2 DEF Codes
<1>4. d \in Connections /\ x = [m EXCEPT !.conns[i] = d] /\ epoch \in Epochs
  <2>1. epoch \in Epochs
    BY <1>1 DEF Here, Connections, Epochs
  <2> HIDE DEF epoch
  <2>2. d \in Connections
    BY <1>1, <2>1 DEF Here, Connections
  <2>3. x = [m EXCEPT !.conns[i] = d]
    BY DEF Put
  <2> QED
    BY <2>1, <2>2, <2>3
<1>5. /\ d.state = c.state /\ d.task = c.task /\ d.cmds = c.cmds /\ d.caps = c.caps /\ d.greeted
      /\ d.frozen = "no" /\ d.fresh = c.fresh /\ d.socket = "open" /\ d.epoch = epoch
  BY <1>1 DEF Here, Connections
<1> HIDE DEF d, x
<1>6. Sane(account, m.sslKnown, d)
  BY <1>1, <1>5 DEF Sane, Here
<1>7. Becomes(m, x, i, d)
  BY <1>1, <1>4, OneBecomes DEF Here
<1>8. /\ Loose(account, x) /\ DOMAIN x.conns = DOMAIN m.conns /\ x.conns[i] = d
      /\ OthersOut(m, i) => OthersOut(x, i)
  BY <1>1, <1>4, <1>6, <1>7, LooseBecomes DEF Here
<1>9. x.sslKnown = m.sslKnown /\ x.password = m.password
  BY <1>7 DEF Becomes
<1>10. ASSUME NEW y, Sound(account, y), i \in DOMAIN y.conns, y.conns[i].state = "LOGOUT"
       PROVE  Sound(account, Routed(y, i, handled(y)))
  <2>1. y.conns[i].state \notin Connecting
    BY <1>10 DEF Connecting
  <2>2. Sound(account, handled(y))
    BY <1>1, <1>10, <2>1, ThrowSound DEF Here, Sound
  <2> HIDE DEF handled
  <2> QED
    BY <1>10, <2>2, RoutedSound DEF Sound, Out
<1>11. ASSUME NEW y, Ready(y, i), Current(y, i), y.conns[i].state = "CONNECTED_PRETLS_PRECAPS",
              y.conns[i].epoch = (IF kind = "PREAUTH" THEN "auth" ELSE IF account = "ssl" THEN "tls" ELSE "none")
       PROVE  Sound(account, Routed(y, i, handled(y)))
  <2>1. handled(y) = HandleGreeting(y, i, kind)
    BY <1>11 DEF Connecting
  <2>2. Sound(account, handled(y))
    BY <1>1, <1>11, <2>1, GreetingSound DEF Here
  <2> HIDE DEF handled
  <2> QED
    BY <1>11, <2>2, RoutedSound DEF Ready
<1>12. c.cmds # <<>> => c.cmds[1] # "LOGIN" /\ (c.task = "active" => c.cmds[1] # "STARTTLS")
  <2>1. CASE Out(c)
    BY <1>1, <2>1 DEF Here, Sane, Out
  <2>2. CASE ~Out(c)
    BY <1>1, <2>2, GivenIs DEF Here, Sound
  <2> QED
    BY <2>1, <2>2
<1>13. ASSUME ~Out(c)
       PROVE  /\ OthersOut(m, i) /\ c.state = "CONNECTED_PRETLS_PRECAPS" /\ c.task = "active" /\ c.cmds = <<>>
              /\ c.epoch = (IF account = "ssl" THEN "tls" ELSE "none")
              /\ c.epoch = "tls" => m.sslKnown
              /\ ~c.fresh
  <2>1. InUse(account, m.sslKnown, m.password, c) /\ OthersOut(m, i)
    BY <1>1, <1>13 DEF Here, Sound
  <2>2. c.state = "CONNECTED_PRETLS_PRECAPS"
    BY <1>1, <2>1 DEF InUse, Early
  <2> QED
    BY <2>1, <2>2 DEF InUse, Early, Given, EpochsOf, Verifying
\* The capabilities come with the greeting, or not.
<1>14. ASSUME NEW z, NEW e \in Connections, Becomes(x, z, i, e), e.state = c.state, e.task = c.task, e.cmds = c.cmds,
              e.greeted, e.socket = "open", e.epoch = epoch, Sane(account, m.sslKnown, e),
              ~Out(c) /\ e.fresh => e.caps.epoch = epoch
       PROVE  Sound(account, Routed(z, i, handled(z)))
  <2>1. /\ Loose(account, z) /\ DOMAIN z.conns = DOMAIN x.conns /\ z.conns[i] = e
        /\ OthersOut(x, i) => OthersOut(z, i)
    BY <1>1, <1>8, <1>9, <1>14, LooseBecomes DEF Here
  <2>2. z.sslKnown = m.sslKnown
    BY <1>9, <1>14 DEF Becomes
  <2>3. CASE Out(c)
    <3>1. c.state = "LOGOUT" /\ Sound(account, x)
      BY <1>1, <1>4, <1>5, <1>6, <1>7, <2>3, OutBecomes DEF Here, Out
    <3>2. Sound(account, z)
      BY <1>1, <1>8, <1>9, <1>14, <3>1, OutBecomes DEF Here, Out
    <3> QED
      BY <1>1, <1>8, <1>10, <1>14, <2>1, <3>1, <3>2 DEF Here
  <2>4. CASE ~Out(c)
    <3>1. Ready(z, i) /\ Current(z, i)
      BY <1>1, <1>8, <1>13, <1>14, <2>1, <2>2, <2>4 DEF Ready, Current, Here
    <3> HIDE DEF handled
    <3> QED
      BY <1>11, <1>13, <1>14, <2>1, <2>4, <3>1
  <2> QED
    BY <2>3, <2>4
<1>15. CASE code = {}
  <2>1. HasCaps(x, i, code) = x
    BY <1>15 DEF HasCaps
  <2>2. Becomes(x, x, i, d)
    BY <1>1, <1>8 DEF Becomes, Loose, Models
  <2> QED
    BY <1>3, <1>4, <1>5, <1>6, <1>13, <1>14, <2>1, <2>2
<1>16. ASSUME NEW caps \in CapsOf(epoch), code = {caps}
       PROVE  Sound(account, m')
  <2>1. HasCaps(x, i, code) = updateCapabilities(x, i, caps)
    BY <1>16 DEF HasCaps
  <2>2. caps \in Capabilities /\ caps.epoch = epoch
    BY <1>4, OfEpoch
  <2>3. CASE caps.imap4
    <3> DEFINE e == WithCaps(d, caps)
    <3>1. Becomes(x, updateCapabilities(x, i, caps), i, e) /\ e \in Connections
      BY <1>1, <1>8, <2>2, <2>3, UpdateIsImap DEF Here, Loose
    <3>2. /\ e.state = c.state /\ e.task = c.task /\ e.cmds = c.cmds /\ e.caps = caps
          /\ e.greeted /\ e.socket = "open" /\ e.epoch = epoch
      BY <1>4, <1>5 DEF WithCaps, Connections
    <3> HIDE DEF e, handled
    <3>3. Sane(account, m.sslKnown, e)
      <4>1. e.caps \in CapsOf(e.caps.epoch) /\ e.caps.epoch # "unknown"
        BY <1>4, <2>2, <3>2 DEF Epochs
      <4> QED
        BY <1>5, <1>6, <1>12, <3>2, <4>1 DEF Sane
    <3>4. Sound(account, Routed(updateCapabilities(x, i, caps), i, handled(updateCapabilities(x, i, caps))))
      BY <1>14, <2>2, <3>1, <3>2, <3>3
    <3> QED
      BY <1>3, <2>1, <3>4
  <2>4. CASE ~caps.imap4
    <3>1. c.task = "active" => epoch # "handshake"
      <4>1. CASE Out(c)
        BY <1>1, <4>1 DEF Here, Sane, Out
      <4>2. CASE ~Out(c)
        BY <1>13, <4>2
      <4> QED
        BY <4>1, <4>2
    <3> HIDE DEF epoch
    <3>2. /\ Sound(account, updateCapabilities(x, i, caps))
          /\ updateCapabilities(x, i, caps).conns[i].state = "LOGOUT"
          /\ DOMAIN updateCapabilities(x, i, caps).conns = DOMAIN x.conns
      <4>1. /\ x.conns[i].epoch = epoch /\ x.conns[i].task = c.task /\ x.conns[i].state # "gone"
            /\ x.conns[i].cmds = c.cmds /\ i \in DOMAIN x.conns /\ Loose(account, x)
        BY <1>1, <1>5, <1>8 DEF Here
      <4>2. /\ x.conns[i].cmds # <<>> => x.conns[i].cmds[1] # "LOGIN"
            /\ x.conns[i].cmds # <<>> /\ x.conns[i].task = "active" => x.conns[i].cmds[1] # "STARTTLS"
            /\ x.conns[i].task = "active" => epoch # "handshake"
        BY <1>12, <3>1, <4>1
      <4>3. epoch \in Epochs /\ caps \in CapsOf(epoch) /\ ~caps.imap4
        BY <1>4, <1>16, <2>2, <2>4
      <4> HIDE DEF c, handled, x
      <4> QED
        BY <4>1, <4>2, <4>3, UpdateNoImap
    <3> HIDE DEF handled
    <3> QED
      BY <1>1, <1>3, <1>8, <1>10, <2>1, <3>2 DEF Here
  <2> QED
    BY <2>3, <2>4
<1> QED
  BY <1>15, <1>16 DEF Codes

LEMMA KeepsOpenConnection ==
    ASSUME ConnectionInv, OpenConnection
    PROVE  Sound(account, m')
<1>1. /\ Sound(account, m) /\ Loose(account, m) /\ m \in Models /\ account \in {"plain", "startTls", "ssl"}
      /\ \A i \in DOMAIN m.conns : Out(m.conns[i])
  BY DEF ConnectionInv, Sound, Loose, OpenConnection, Opened, Out
<1> DEFINE conns == Append(m.conns, New)
           x == [m EXCEPT !.conns = conns]
<1>2. m' = x
  BY DEF OpenConnection
<1>3. /\ New \in Connections /\ Sane(account, m.sslKnown, New)
      /\ ~Out(New) /\ InUse(account, m.sslKnown, m.password, New)
  BY <1>1, NewConnections
<1>4. m.conns \in Seq(Connections) /\ DOMAIN m.conns = 1..Len(m.conns) /\ Len(m.conns) \in Nat
  BY <1>1, LenProperties DEF Models
<1> HIDE DEF New
<1>5. /\ conns \in Seq(Connections) /\ DOMAIN conns = 1..Len(m.conns) + 1
      /\ \A i \in 1..Len(m.conns) : conns[i] = m.conns[i]
      /\ conns[Len(m.conns) + 1] = New
  BY <1>3, <1>4
<1> HIDE DEF conns
<1>6. /\ x \in Models /\ x.conns = conns /\ x.password = m.password /\ x.prompts = m.prompts
      /\ x.sslKnown = m.sslKnown
  BY <1>1, <1>5 DEF Models
<1> HIDE DEF x
<1>7. \A i \in DOMAIN conns : i = Len(m.conns) + 1 \/ (i \in DOMAIN m.conns /\ conns[i] = m.conns[i])
  BY <1>4, <1>5
<1>8. Loose(account, x)
  BY <1>1, <1>3, <1>5, <1>6, <1>7 DEF Loose, Asking
<1>9. Sound(account, x)
  BY <1>1, <1>3, <1>5, <1>6, <1>7, <1>8 DEF Sound, OthersOut
<1> QED
  BY <1>2, <1>9

LEMMA KeepsGotPassword ==
    ASSUME ConnectionInv, GotPassword
    PROVE  Sound(account, m')
<1>1. /\ Sound(account, m) /\ Loose(account, m) /\ m \in Models
      /\ m.password = "ASKED_WAITING" /\ m.prompts = 1
  BY DEF ConnectionInv, Sound, Loose, GotPassword, Asking, Models
<1> DEFINE conns == [i \in Opened |-> IF i \in Waiting THEN Login(m.conns[i]) ELSE m.conns[i]]
           x == [m EXCEPT !.prompts = 0, !.password = "AVAILABLE", !.conns = conns]
<1>2. m' = x
  <2>1. m.prompts - 1 = 0
    BY <1>1
  <2> QED
    BY <2>1 DEF GotPassword
<1>3. DOMAIN m.conns = 1..Len(m.conns) /\ Len(m.conns) \in Nat /\ Opened = DOMAIN m.conns
  BY <1>1, LenProperties DEF Models, Opened
<1>4. \A i \in DOMAIN m.conns : conns[i] = IF i \in Waiting THEN Login(m.conns[i]) ELSE m.conns[i]
  BY <1>3
<1>5. DOMAIN conns = DOMAIN m.conns /\ conns = [i \in DOMAIN m.conns |-> conns[i]]
  BY <1>3
<1> HIDE DEF conns
<1>6. ASSUME NEW i \in DOMAIN m.conns
      PROVE  /\ conns[i] \in Connections /\ Sane(account, m.sslKnown, conns[i])
             /\ Out(conns[i]) <=> Out(m.conns[i])
             /\ ~Out(conns[i]) => InUse(account, m.sslKnown, "AVAILABLE", conns[i])
  <2> DEFINE c == m.conns[i]
             d == [c EXCEPT !.cmds = Append(@, "LOGIN"), !.fresh = FALSE]
  <2>1. c \in Connections /\ Sane(account, m.sslKnown, c)
    BY <1>1, Members DEF Loose
  <2>2. ~Out(c) => InUse(account, m.sslKnown, "ASKED_WAITING", c)
    BY <1>1 DEF Sound
  <2>3. CASE i \in Waiting
    <3>1. c.state = "LOGIN" /\ c.cmds = <<>> /\ c.cmds \in Seq(Names)
      BY <2>1, <2>3 DEF Waiting, WaitsForPassword, Connections
    <3>2. Append(c.cmds, "LOGIN") = <<"LOGIN">> /\ Append(c.cmds, "LOGIN") \in Seq(Names)
      BY <3>1, Commands DEF Names
    <3>3. conns[i] = d
      BY <1>4, <2>1, <2>3 DEF Login, Command, Connections
    <3>4. /\ d \in Connections /\ d.cmds = <<"LOGIN">> /\ ~d.fresh
          /\ d.task = c.task /\ d.state = "LOGIN" /\ d.greeted = c.greeted /\ d.socket = c.socket
          /\ d.epoch = c.epoch /\ d.caps = c.caps
      BY <2>1, <3>1, <3>2 DEF Connections
    <3> HIDE DEF d
    <3>5. InUse(account, m.sslKnown, "ASKED_WAITING", c)
      BY <2>2, <3>1 DEF Out
    <3>6. Allowed(account, m.sslKnown, d) /\ d.greeted
      BY <3>1, <3>4, <3>5 DEF InUse, Allowed, Early
    <3>7. DOMAIN <<"LOGIN">> = {1} /\ <<"LOGIN">> # <<>>
      OBVIOUS
    <3>8. Sane(account, m.sslKnown, d)
      BY <2>1, <3>4, <3>6, <3>7 DEF Sane
    <3>9. InUse(account, m.sslKnown, "AVAILABLE", d)
      <4>1. d.cmds \in Given(d.state)
        BY <3>4 DEF Given
      <4>2. d.epoch \in EpochsOf(account, d.state)
        BY <3>1, <3>4, <3>5 DEF InUse
      <4>3. d.task = "active" /\ d.socket # "connecting" /\ (d.epoch = "tls" => m.sslKnown)
        BY <3>1, <3>4, <3>5 DEF InUse, Verifying
      <4> QED
        BY <3>4, <3>6, <3>7, <4>1, <4>2, <4>3 DEF InUse, Early
    <3> QED
      BY <3>1, <3>3, <3>4, <3>8, <3>9 DEF Out
  <2>4. CASE i \notin Waiting
    <3>1. conns[i] = c
      BY <1>4, <2>4
    <3>2. ~Out(c) => c.state # "LOGIN"
      <4>1. SUFFICES ASSUME c.state = "LOGIN" PROVE FALSE
        OBVIOUS
      <4>2. InUse(account, m.sslKnown, "ASKED_WAITING", c)
        BY <2>2, <4>1 DEF Out
      <4>3. c.task = "active" /\ c.cmds = <<>>
        BY <4>1, <4>2 DEF InUse
      <4> QED
        BY <1>3, <2>4, <4>1, <4>3 DEF Waiting, WaitsForPassword
    <3>3. ~Out(c) => InUse(account, m.sslKnown, "AVAILABLE", c)
      BY <2>2, <3>2 DEF InUse
    <3> QED
      BY <2>1, <3>1, <3>3
  <2> QED
    BY <2>3, <2>4
<1>7. conns \in Seq(Connections)
  BY <1>3, <1>5, <1>6
<1>8. /\ x \in Models /\ x.conns = conns /\ x.password = "AVAILABLE" /\ x.prompts = 0
      /\ x.sslKnown = m.sslKnown
  BY <1>1, <1>7 DEF Models
<1> HIDE DEF x
<1>9. Loose(account, x)
  BY <1>5, <1>6, <1>8 DEF Loose, Asking
<1>10. Sound(account, x)
  BY <1>1, <1>5, <1>6, <1>8, <1>9 DEF Sound, OthersOut
<1> QED
  BY <1>2, <1>10

LEMMA KeepsRejectedPassword ==
    ASSUME ConnectionInv, RejectedPassword
    PROVE  Sound(account, m')
<1>1. /\ Sound(account, m) /\ Loose(account, m) /\ m \in Models
      /\ m.password = "ASKED_WAITING" /\ m.prompts = 1
  BY DEF ConnectionInv, Sound, Loose, RejectedPassword, Asking, Models
<1> DEFINE x == [m EXCEPT !.prompts = 0, !.password = "NOT_REQUESTED"]
<1>2. m' = AbortWaiting(x)
  <2>1. m.prompts - 1 = 0
    BY <1>1
  <2> QED
    BY <2>1 DEF RejectedPassword
<1>3. /\ x \in Models /\ x.conns = m.conns /\ x.password = "NOT_REQUESTED" /\ x.prompts = 0
      /\ x.sslKnown = m.sslKnown
  BY <1>1 DEF Models
<1> HIDE DEF x
<1>4. Loose(account, x)
  BY <1>1, <1>3 DEF Loose, Asking
<1>5. CASE Waiting = {}
  <2>1. ASSUME NEW i \in DOMAIN m.conns, ~Out(m.conns[i])
        PROVE  InUse(account, m.sslKnown, "NOT_REQUESTED", m.conns[i]) /\ OthersOut(m, i)
    <3>1. InUse(account, m.sslKnown, "ASKED_WAITING", m.conns[i]) /\ OthersOut(m, i)
      BY <1>1, <2>1 DEF Sound
    <3>2. m.conns[i].state # "LOGIN"
      <4>1. SUFFICES ASSUME m.conns[i].state = "LOGIN" PROVE FALSE
        OBVIOUS
      <4>2. m.conns[i].task = "active" /\ m.conns[i].cmds = <<>>
        BY <3>1, <4>1 DEF InUse
      <4> QED
        BY <1>5, <4>1, <4>2 DEF Waiting, WaitsForPassword, Opened
    <3> QED
      BY <3>1, <3>2 DEF InUse
  <2>2. Sound(account, x)
    BY <1>3, <1>4, <2>1 DEF Sound, OthersOut
  <2> QED
    BY <1>2, <1>5, <2>2 DEF AbortWaiting
<1>6. CASE Waiting # {}
  <2> DEFINE first == CHOOSE i \in Waiting : \A j \in Waiting : i <= j
  <2>1. first \in Waiting
    <3>1. PICK i \in Waiting : TRUE
      BY <1>6
    <3>2. i \in DOMAIN m.conns /\ ~Out(m.conns[i])
      BY DEF Waiting, WaitsForPassword, Opened, Out
    <3>3. \A j \in Waiting : j = i
      BY <1>1, <3>2 DEF Sound, OthersOut, Out, Waiting, WaitsForPassword, Opened
    <3>4. i \in Nat
      BY <1>1, <3>2, LenProperties DEF Models
    <3>5. \E k \in Waiting : \A j \in Waiting : k <= j
      BY <3>3, <3>4
    <3> QED
      BY <3>5
  <2>2. first \in DOMAIN x.conns /\ x.conns[first].state # "gone"
    BY <1>3, <2>1 DEF Waiting, WaitsForPassword, Opened
  <2>3. m' = abortConnection(x, first)
    BY <1>2, <1>6 DEF AbortWaiting
  <2> HIDE DEF first
  <2> QED
    BY <1>4, <2>2, <2>3, AbortSound
<1> QED
  BY <1>5, <1>6

\* Going offline, or online, at the wish of the user and of the system
LEMMA PolicySound ==
    ASSUME NEW x, Sound(account, x), NEW policy \in {"online", "offline"}
    PROVE  Sound(account, setNetworkPolicy(x, policy))
<1>1. CASE policy = "offline"
  BY <1>1, Offline DEF Sound
<1>2. CASE policy = "online"
  <2> DEFINE y == [x EXCEPT !.policy = policy]
  <2>1. /\ y \in Models /\ y.conns = x.conns /\ y.password = x.password /\ y.prompts = x.prompts
        /\ y.sslKnown = x.sslKnown
    BY DEF Sound, Loose, Models
  <2> HIDE DEF y
  <2>2. Sound(account, y)
    BY <2>1, SoundOtherwise
  <2> QED
    BY <1>2, <2>2 DEF setNetworkPolicy, y
<1> QED
  BY <1>1, <1>2

LEMMA DesiredSound ==
    ASSUME NEW x, Sound(account, x), NEW policy \in {"online", "offline"}
    PROVE  Sound(account, setDesiredNetworkPolicy(x, policy))
<1> DEFINE y == [x EXCEPT !.desired = policy]
<1>1. /\ y \in Models /\ y.conns = x.conns /\ y.password = x.password /\ y.prompts = x.prompts
      /\ y.sslKnown = x.sslKnown
  BY DEF Sound, Loose, Models
<1> HIDE DEF y
<1>2. Sound(account, y)
  BY <1>1, SoundOtherwise
<1> QED
  BY <1>2, PolicySound DEF setDesiredNetworkPolicy, y

LEMMA KeepsNetwork ==
    ASSUME ConnectionInv,
           \/ \E policy \in {"online", "offline"} : setNetwork(policy)
           \/ SystemOffline \/ SystemOnline \/ attemptReconnect \/ tryReconnect
    PROVE  Sound(account, m')
<1>1. Sound(account, m) /\ m \in Models /\ m.desired \in {"online", "offline"}
  BY DEF ConnectionInv, Sound, Loose, Models
<1>2. ASSUME NEW policy \in {"online", "offline"}, setNetwork(policy)
      PROVE  Sound(account, m')
  <2> DEFINE x == [m EXCEPT !.timer = FALSE]
  <2>1. /\ x \in Models /\ x.conns = m.conns /\ x.password = m.password /\ x.prompts = m.prompts
        /\ x.sslKnown = m.sslKnown
    BY <1>1 DEF Models
  <2> HIDE DEF x
  <2>2. Sound(account, x)
    BY <1>1, <2>1, SoundOtherwise
  <2> QED
    BY <1>2, <2>2, DesiredSound DEF setNetwork, x
<1>3. CASE SystemOffline
  <2> DEFINE x == [m EXCEPT !.online = FALSE]
  <2>1. /\ x \in Models /\ x.conns = m.conns /\ x.password = m.password /\ x.prompts = m.prompts
        /\ x.sslKnown = m.sslKnown
    BY <1>1 DEF Models
  <2> HIDE DEF x
  <2>2. Sound(account, x)
    BY <1>1, <2>1, SoundOtherwise
  <2> QED
    BY <1>3, <2>2, PolicySound DEF SystemOffline, x
<1>4. CASE SystemOnline
  <2> DEFINE x == [m EXCEPT !.online = TRUE]
  <2>1. /\ x \in Models /\ x.conns = m.conns /\ x.password = m.password /\ x.prompts = m.prompts
        /\ x.sslKnown = m.sslKnown
    BY <1>1 DEF Models
  <2> HIDE DEF x
  <2>2. Sound(account, x)
    BY <1>1, <2>1, SoundOtherwise
  <2> QED
    BY <1>1, <1>4, <2>2, DesiredSound DEF SystemOnline, x
<1>5. CASE attemptReconnect
  <2> DEFINE errors == m.errors - 1
             x == [m EXCEPT !.errors = errors, !.timer = TRUE]
  <2>1. errors \in Nat /\ m' = x
    BY <1>1, <1>5 DEF attemptReconnect, Models
  <2> HIDE DEF errors
  <2>2. /\ x \in Models /\ x.conns = m.conns /\ x.password = m.password /\ x.prompts = m.prompts
        /\ x.sslKnown = m.sslKnown
    BY <1>1, <2>1 DEF Models
  <2> HIDE DEF x
  <2> QED
    BY <1>1, <2>1, <2>2, SoundOtherwise
<1>6. CASE tryReconnect
  <2> DEFINE x == [m EXCEPT !.timer = FALSE]
  <2>1. /\ x \in Models /\ x.conns = m.conns /\ x.password = m.password /\ x.prompts = m.prompts
        /\ x.sslKnown = m.sslKnown
    BY <1>1 DEF Models
  <2> HIDE DEF x
  <2>2. Sound(account, x)
    BY <1>1, <2>1, SoundOtherwise
  <2> QED
    BY <1>1, <1>6, <2>2, PolicySound DEF tryReconnect, x
<1> QED
  BY <1>2, <1>3, <1>4, <1>5, <1>6

-----------------------------------------------------------------------------
(* The invariant and what follows from it                                   *)

LEMMA InitInv == Init => ConnectionInv
<1> SUFFICES ASSUME Init PROVE ConnectionInv
  OBVIOUS
<1>1. <<>> \in Seq(Connections) /\ DOMAIN <<>> = {}
  BY EmptySeq
<1>2. m.conns = <<>> /\ m.password = "NOT_REQUESTED" /\ m.prompts = 0
  BY DEF Init
<1>3. m \in Models
  BY <1>1 DEF Init, Models
<1> QED
  BY <1>1, <1>2, <1>3 DEF ConnectionInv, Sound, Loose, Asking, Init

LEMMA NextInv == ConnectionInv /\ [Next]_vars => ConnectionInv'
<1> SUFFICES ASSUME ConnectionInv, [Next]_vars PROVE ConnectionInv'
  OBVIOUS
<1>1. CASE UNCHANGED vars
  BY <1>1 DEF ConnectionInv, vars
<1>2. CASE Next
  <2>1. account' = account
    <3>1. ASSUME NEW i \in Opened, Server(i) PROVE account' = account
      BY <3>1 DEF Server, Greeting, Capability, AnswerCapability, AcceptLogin, RefuseLogin, AnswerStartTls,
                  AnswerCompress, AnswerLogout
    <3>2. ASSUME NEW i \in Opened, Bye(i) \/ onConnected(i) \/ Disconnected(i) \/ Encrypted(i)
          PROVE  account' = account
      BY <3>2 DEF Bye, onConnected, Disconnected, Encrypted
    <3>3. ASSUME ~\E i \in Opened : Server(i) \/ Bye(i) \/ onConnected(i) \/ Disconnected(i) \/ Encrypted(i)
          PROVE  account' = account
      BY <1>2, <3>3 DEF Next, OpenConnection, GotPassword, RejectedPassword, setSslPolicy, setNetwork,
                        SystemOffline, SystemOnline, attemptReconnect, tryReconnect
    <3> QED
      BY <3>1, <3>2, <3>3
  <2>2. ASSUME NEW i \in Opened,
               Server(i) \/ Bye(i) \/ onConnected(i) \/ Disconnected(i) \/ Encrypted(i)
        PROVE  Sound(account, m')
    BY <2>2, KeepsGreeting, KeepsCapability, KeepsAnswerCapability, KeepsAcceptLogin, KeepsRefuseLogin,
       KeepsAnswerStartTls, KeepsAnswerCompress, KeepsAnswerLogout, KeepsBye, KeepsOnConnected,
       KeepsDisconnected, KeepsEncrypted DEF Server
  <2>3. Sound(account, m')
    BY <1>2, <2>2, KeepsOpenConnection, KeepsGotPassword, KeepsRejectedPassword, KeepsSetSslPolicy,
       KeepsNetwork DEF Next
  <2>4. Sound(account', m')
    BY <2>1, <2>3
  <2> QED
    BY <2>1, <2>4 DEF ConnectionInv
<1> QED
  BY <1>1, <1>2

LEMMA AlwaysInv == Spec => []ConnectionInv
BY InitInv, NextInv, PTL DEF Spec

\* However many connections come and go: nobody waits for a password that is not being
\* asked for, and the user is never asked twice at a time.
THEOREM AlwaysOnePrompt == Spec => []OnePrompt
<1>1. ConnectionInv => OnePrompt
  <2> SUFFICES ASSUME ConnectionInv PROVE OnePrompt
    OBVIOUS
  <2>1. ASSUME NEW i \in Opened, WaitsForPassword(m.conns[i]) PROVE m.password = "ASKED_WAITING"
    BY <2>1 DEF ConnectionInv, Sound, InUse, Out, WaitsForPassword, Opened
  <2> QED
    BY <2>1 DEF OnePrompt, ConnectionInv, Sound, Loose, Asking
<1> QED
  BY <1>1, AlwaysInv, PTL

\* LOGIN is on its way only where it is allowed, behind the encryption which the settings
\* ask for and with a certificate which the user has accepted.
THEOREM AlwaysLoginWhenAllowed == Spec => []LoginWhenAllowed
<1>1. ConnectionInv => LoginWhenAllowed
  <2> SUFFICES ASSUME ConnectionInv, NEW i \in Opened, Contains(m.conns[i].cmds, "LOGIN")
               PROVE  Allowed(account, m.sslKnown, m.conns[i])
    BY DEF LoginWhenAllowed, Allowed
  <2>1. Here(i)
    BY HereIs
  <2>2. m.conns[i].cmds \in Seq(Names)
    BY <2>1 DEF Here, Connections
  <2>3. PICK k \in DOMAIN m.conns[i].cmds : m.conns[i].cmds[k] = "LOGIN"
    BY <2>2, LenProperties DEF Contains
  <2>4. k = 1 /\ m.conns[i].cmds # <<>>
    BY <2>1, <2>2, <2>3, LenProperties, EmptySeq DEF Here, Sane
  <2> QED
    BY <2>1, <2>3, <2>4 DEF Here, Sane
<1> QED
  BY <1>1, AlwaysInv, PTL

\* A connection in use has the capabilities which the server has announced after the login.
THEOREM CapabilitiesAlwaysCurrent == Spec => []CapabilitiesAreCurrent
<1>1. ConnectionInv => CapabilitiesAreCurrent
  BY DEF ConnectionInv, Sound, InUse, Out, CapabilitiesAreCurrent, Opened
<1> QED
  BY <1>1, AlwaysInv, PTL

===================================================================================
