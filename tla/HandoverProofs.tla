----------------------------- MODULE HandoverProofs -----------------------------
(***************************************************************************)
(* The safety of the event loop, of IDLE and of the tasks of a connection, *)
(* for any number of tasks and arrivals and all limits: the server, the    *)
(* parser and the responses, and what follows from the invariant.          *)
(***************************************************************************)
EXTENDS HandoverClientProofs

-----------------------------------------------------------------------------
(* The server                                                               *)

SizeOnce(ts) == \A i, j \in DOMAIN ts : ts[i].kind = "size" /\ ts[j].kind = "size" => i = j
PlusOnce(tc) == \A i, j \in DOMAIN tc : tc[i].kind = "+" /\ tc[j].kind = "+" => i = j
\* IDLE does not end before it has begun.
EndsLater(tc) ==
    \A i \in DOMAIN tc : tc[i] = Say("OK", "IDLE") => \E k \in DOMAIN tc : k < i /\ tc[k].kind = "+"
SizesOf(ts, tag) == \A i \in DOMAIN ts : ts[i].kind = "size" => ts[i].tag = tag
Idles(ts) == \A i \in DOMAIN ts : ts[i].kind \in {"IDLE", "DONE"} <=> ts[i].tag = "IDLE"
DoneFollows(ts) == \A i \in DOMAIN ts : i + 1 \in DOMAIN ts /\ ts[i].kind = "IDLE" => ts[i + 1].kind = "DONE"
RightTag(r) ==
    /\ r.kind \in {"OK", "NO"} <=> r.tag \in Tag /\ r.kind # "EXISTS"
    /\ r.kind = "EXISTS" => r.tag \in Arrivals

\* The server has one line less to read.
LEMMA ReadLine ==
    ASSUME NEW ts \in Seq(Line), ts # <<>>, Idles(ts), DoneFollows(ts), NEW us, us = Tail(ts)
    PROVE  /\ us \in Seq(Line) /\ ts[1] \in Line /\ Head(ts) = ts[1] /\ Idles(us) /\ DoneFollows(us)
           /\ Ends(us, "IDLE") => Ends(ts, "IDLE")
           /\ ts[1].kind = "IDLE" /\ us # <<>> => us[1].kind = "DONE"
           /\ ts[1].kind = "IDLE" /\ us = <<>> => Ends(ts, "IDLE")
           /\ \A kind : Has(us, kind) => Has(ts, kind)
           /\ Has(ts, ts[1].kind)
           /\ SizeOnce(ts) => SizeOnce(us) /\ (ts[1].kind = "size" => ~Has(us, "size"))
           /\ \A tag : SizesOf(ts, tag) => SizesOf(us, tag)
           /\ ts[1].kind \in {"IDLE", "DONE"} <=> ts[1].tag = "IDLE"
<1>1. /\ us \in Seq(Line) /\ Len(ts) \in Nat /\ Len(ts) # 0 /\ Len(us) = Len(ts) - 1
      /\ DOMAIN ts = 1 .. Len(ts) /\ DOMAIN us = 1 .. Len(ts) - 1
      /\ \A i \in DOMAIN us : us[i] = ts[i + 1] /\ i + 1 \in DOMAIN ts
      /\ Head(ts) = ts[1] /\ 1 \in DOMAIN ts /\ ts[1] \in Line
      /\ \A i \in DOMAIN ts : i # 1 => i - 1 \in DOMAIN us /\ us[i - 1] = ts[i]
      /\ (us = <<>> <=> Len(ts) = 1)
  BY Tailed
<1>2. Idles(us)
  BY <1>1 DEF Idles
<1>3. DoneFollows(us)
  <2> SUFFICES ASSUME NEW i \in DOMAIN us, i + 1 \in DOMAIN us, us[i].kind = "IDLE"
               PROVE  us[i + 1].kind = "DONE"
    BY DEF DoneFollows
  <2>1. us[i] = ts[i + 1] /\ us[i + 1] = ts[(i + 1) + 1] /\ i + 1 \in DOMAIN ts /\ (i + 1) + 1 \in DOMAIN ts
    BY <1>1
  <2> QED
    BY <2>1 DEF DoneFollows
<1>4. Ends(us, "IDLE") => Ends(ts, "IDLE")
  <2> SUFFICES ASSUME us # <<>>, us[Len(us)].kind = "IDLE" PROVE Ends(ts, "IDLE")
    BY DEF Ends
  <2>1. Len(us) \in DOMAIN us /\ Len(us) + 1 = Len(ts)
    BY <1>1
  <2> QED
    BY <1>1, <2>1 DEF Ends
<1>5. ts[1].kind = "IDLE" /\ us # <<>> => us[1].kind = "DONE"
  <2> SUFFICES ASSUME ts[1].kind = "IDLE", us # <<>> PROVE us[1].kind = "DONE"
    OBVIOUS
  <2>1. 1 \in DOMAIN us /\ 1 + 1 \in DOMAIN ts /\ us[1] = ts[1 + 1]
    BY <1>1
  <2> QED
    BY <1>1, <2>1 DEF DoneFollows
<1>6. ts[1].kind = "IDLE" /\ us = <<>> => Ends(ts, "IDLE")
  BY <1>1 DEF Ends
<1>7. \A kind : Has(us, kind) => Has(ts, kind)
  BY <1>1 DEF Has
<1>8. Has(ts, ts[1].kind)
  BY <1>1 DEF Has
<1>9. SizeOnce(ts) => SizeOnce(us) /\ (ts[1].kind = "size" => ~Has(us, "size"))
  <2> SUFFICES ASSUME SizeOnce(ts) PROVE SizeOnce(us) /\ (ts[1].kind = "size" => ~Has(us, "size"))
    OBVIOUS
  <2>1. \A i \in DOMAIN us : i \in Nat /\ i # 0
    BY <1>1
  <2>2. \A i, j \in DOMAIN us : us[i].kind = "size" /\ us[j].kind = "size" => i + 1 = j + 1
    BY <1>1 DEF SizeOnce
  <2>3. SizeOnce(us)
    BY <2>1, <2>2 DEF SizeOnce
  <2>4. ASSUME ts[1].kind = "size", NEW i \in DOMAIN us, us[i].kind = "size" PROVE FALSE
    <3>1. i + 1 = 1
      BY <1>1, <2>4 DEF SizeOnce
    <3> QED
      BY <2>1, <3>1
  <2> QED
    BY <2>3, <2>4 DEF Has
<1>10. \A tag : SizesOf(ts, tag) => SizesOf(us, tag)
  BY <1>1 DEF SizesOf
<1>11. ts[1].kind \in {"IDLE", "DONE"} <=> ts[1].tag = "IDLE"
  BY <1>1 DEF Idles
<1> QED
  BY <1>1, <1>2, <1>3, <1>4, <1>5, <1>6, <1>7, <1>8, <1>9, <1>10, <1>11

\* The client has one response more to read.
LEMMA AnswerMore ==
    ASSUME NEW tc \in Seq(Response), NEW e \in Response, TypedResponses(tc), RightTag(e),
           PlusOnce(tc), NEW uc, uc = Append(tc, e), e.kind = "+" => ~Has(tc, "+")
    PROVE  /\ uc \in Seq(Response) /\ TypedResponses(uc) /\ PlusOnce(uc)
           /\ EndsLater(tc) /\ (e = Say("OK", "IDLE") => Has(tc, "+")) => EndsLater(uc)
           /\ \A kind : Has(uc, kind) <=> Has(tc, kind) \/ e.kind = kind
           /\ \A t : Refused(uc, t) <=> Refused(tc, t) \/ Refuses(e, t)
<1>1. /\ uc \in Seq(Response) /\ Len(tc) \in Nat
      /\ DOMAIN tc = 1 .. Len(tc) /\ DOMAIN uc = 1 .. Len(tc) + 1
      /\ uc[Len(tc) + 1] = e /\ \A i \in DOMAIN tc : uc[i] = tc[i]
  BY Appended
<1>2. /\ \A i \in DOMAIN uc : i \in DOMAIN tc \/ i = Len(tc) + 1
      /\ DOMAIN tc \subseteq DOMAIN uc /\ Len(tc) + 1 \in DOMAIN uc
  BY <1>1
<1>3. TypedResponses(uc)
  BY <1>1, <1>2 DEF TypedResponses, RightTag
<1>4. \A kind : Has(uc, kind) <=> Has(tc, kind) \/ e.kind = kind
  BY HasAppend
<1>5. \A t : Refused(uc, t) <=> Refused(tc, t) \/ Refuses(e, t)
  BY RefusedAppend
<1>6. PlusOnce(uc)
  BY <1>1, <1>2 DEF PlusOnce, Has
<1>7. EndsLater(tc) /\ (e = Say("OK", "IDLE") => Has(tc, "+")) => EndsLater(uc)
  <2> SUFFICES ASSUME EndsLater(tc), e = Say("OK", "IDLE") => Has(tc, "+"),
                      NEW i \in DOMAIN uc, uc[i] = Say("OK", "IDLE")
               PROVE  \E k \in DOMAIN uc : k < i /\ uc[k].kind = "+"
    BY DEF EndsLater
  <2>1. CASE i \in DOMAIN tc
    <3>1. PICK k \in DOMAIN tc : k < i /\ tc[k].kind = "+"
      BY <1>1, <2>1 DEF EndsLater
    <3> QED
      BY <1>1, <1>2, <3>1
  <2>2. CASE i = Len(tc) + 1
    <3>1. PICK k \in DOMAIN tc : tc[k].kind = "+"
      BY <1>1, <2>2 DEF Has
    <3>2. k < i
      BY <1>1, <2>2
    <3> QED
      BY <1>1, <1>2, <3>1, <3>2
  <2> QED
    BY <1>2, <2>1, <2>2
<1> QED
  BY <1>1, <1>3, <1>4, <1>5, <1>6, <1>7

\* Queued depends on the refusals only.
LEMMA QueuedSame ==
    ASSUME NEW c, NEW tc, NEW uc, NEW t, Refused(uc, t) <=> Refused(tc, t)
    PROVE  Queued(c, uc, t) = Queued(c, tc, t)
BY DEF Queued

\* A step of the server for another command
LEMMA AlikeServer ==
    ASSUME NEW c, NEW ts \in Seq(Line), NEW tc \in Seq(Response), NEW s, NEW us, NEW uc, NEW r, NEW t,
           us = ts \/ (ts # <<>> /\ us = Tail(ts) /\ ts[1] \notin Lines(t)),
           uc = tc \/ \E e \in Response : uc = Append(tc, e) /\ e.tag # t,
           Done(r, t) <=> Done(s, t)
    PROVE  Alike(c, ts, tc, s, c, us, uc, r, t)
<1>1. Same(Sent(ts, t), Sent(us, t))
  <2>1. CASE us = ts
    BY <2>1 DEF Same
  <2>2. CASE us # ts
    BY <2>2, SameTail DEF Sent
  <2> QED
    BY <2>1, <2>2
<1>2. Same(About(tc, t), About(uc, t)) /\ (Refused(uc, t) <=> Refused(tc, t))
  <2>1. CASE uc = tc
    BY <2>1 DEF Same
  <2>2. CASE uc # tc
    <3>1. PICK e \in Response : uc = Append(tc, e) /\ e.tag # t
      BY <2>2
    <3>2. e \notin Responses(t) /\ ~Refuses(e, t)
      BY <3>1 DEF Responses, Refuses
    <3>3. Same(About(tc, t), About(uc, t))
      BY <3>1, <3>2, SameAppend DEF About
    <3>4. Refused(uc, t) <=> Refused(tc, t)
      BY <3>1, <3>2, RefusedAppend
    <3> QED
      BY <3>3, <3>4
  <2> QED
    BY <2>1, <2>2
<1>3. Queued(c, uc, t) = Queued(c, tc, t)
  BY <1>2, QueuedSame
<1> QED
  BY <1>1, <1>2, <1>3 DEF Alike, Same

Served(s) ==
    /\ DOMAIN s = {"idling", "working", "announced", "selected"}
    /\ s = [f \in {"idling", "working", "announced", "selected"} |-> s[f]]
    /\ "IDLE" \notin s.working /\ s.working \subseteq Tag

\* Wired in smaller parts
LEMMA WiredParts ==
    ASSUME NEW c, NEW ts, NEW tc, NEW s
    PROVE  Wired(c, ts, tc, s) <=>
              /\ ts \in Seq(Line) /\ tc \in Seq(Response) /\ Idles(ts) /\ Served(s)
              /\ TypedResponses(tc) /\ TypedResponses(c.respQueue) /\ ~Has(c.respQueue, "+")
              /\ DoneFollows(ts)
              /\ s.idling /\ ts # <<>> => ts[1].kind = "DONE"
              /\ (ts = <<>> /\ s.idling) \/ Ends(ts, "IDLE") => c.idling
              /\ PlusOnce(tc) /\ SizeOnce(ts) /\ SizesOf(ts, c.literalCommandTag)
              /\ Has(tc, "+") => c.waitForInitialIdle \/ c.waitingForContinuation
              /\ Has(ts, "IDLE") \/ Refused(tc, "IDLE") \/ Refused(c.respQueue, "IDLE") =>
                   c.waitForInitialIdle /\ ~Has(tc, "+")
              /\ s.idling /\ c.waitForInitialIdle => Has(tc, "+")
              /\ c.waitForInitialIdle =>
                   (\A i \in DOMAIN c.respQueue : c.respQueue[i] # Say("OK", "IDLE")) /\ EndsLater(tc)
              /\ Has(ts, "size") => c.waitingForContinuation /\ ~Has(tc, "+")
              /\ \A t \in Tracked : Refused(tc, t) =>
                   /\ c.waitingForContinuation /\ c.literalCommandTag = t
                   /\ ~Has(tc, "+") /\ ~Has(ts, "size")
              /\ IF c.waitingForContinuation
                 THEN /\ c.cmdQueue # <<>> /\ c.cmdQueue[1].kind = "LITERAL" /\ c.cmdQueue[1].numberSent
                      /\ c.literalCommandTag = c.cmdQueue[1].tag
                 ELSE c.literalCommandTag = NoTag
              /\ Tokens(c, ts, tc, s)
BY DEF Wired, TypedWire, WireOrder, Continuation, Idles, Served, DoneFollows, PlusOnce, SizeOnce, SizesOf,
       EndsLater

\* The first line is about its own tag only.
LEMMA FirstLine ==
    ASSUME NEW ts \in Seq(Line), ts # <<>>, Idles(ts)
    PROVE  /\ \A t : t # ts[1].tag => ts[1] \notin Lines(t)
           /\ ts[1].kind \in {"size", "DONE"} => \A t : ts[1] \notin Lines(t)
           /\ ts[1].kind \notin {"size", "DONE"} => ts[1] \in Lines(ts[1].tag)
BY Tailed DEF Lines

\* What the server says are responses.
LEMMA SaidIs ==
    /\ \A kind \in {"+", "OK", "NO", "BAD", "EXISTS", "CLOSED"}, tag \in Tag \cup {NoTag} :
         /\ Say(kind, tag) \in Response /\ Say(kind, tag).kind = kind /\ Say(kind, tag).tag = tag
         /\ kind \in {"OK", "NO"} /\ tag \in Tag => RightTag(Say(kind, tag))
         /\ kind \in {"+", "BAD", "CLOSED"} /\ tag = NoTag => RightTag(Say(kind, tag))
         /\ kind = "EXISTS" /\ tag \in Arrivals => RightTag(Say(kind, tag))
    /\ "IDLE" \in Tag /\ NoTag \notin Tag
BY OwnCommands DEF Say, Response, RightTag

\* Where IDLE is when its line is read
LEMMA LineIsFirst ==
    ASSUME NEW c, NEW ts, NEW tc, NEW s, Wired(c, ts, tc, s), ts # <<>>,
           ts[1].kind \notin {"size", "DONE"}, ts[1].tag \in Tracked \cup {"IDLE"}
    PROVE  LET x == ts[1].tag
           IN  /\ Single(Ordered(c, x)) /\ Single(About(tc, x)) /\ Single(About(c.respQueue, x))
               /\ Queued(c, tc, x) = {} /\ ~Done(s, x) /\ About(tc, x) = {} /\ About(c.respQueue, x) = {}
               /\ Sent(ts, x) # {} /\ Sent(Tail(ts), x) = {}
               /\ Somewhere(c, ts, tc, s, x) /\ ~Refused(tc, x)
<1> DEFINE x == ts[1].tag
<1>1. ts \in Seq(Line) /\ Idles(ts) /\ Once(c, ts, tc, s, x) /\ tc \in Seq(Response)
  BY WiredParts DEF Tokens
<1>2. ts[1] \in Lines(x)
  BY <1>1, FirstLine
<1> HIDE DEF x
<1>3. Sent(ts, x) # {} /\ (Single(Sent(ts, x)) => Sent(Tail(ts), x) = {})
  BY <1>1, <1>2, AtTail DEF Sent
<1>4. /\ Single(Ordered(c, x)) /\ Single(About(tc, x)) /\ Single(About(c.respQueue, x)) /\ Single(Sent(ts, x))
      /\ Queued(c, tc, x) = {} /\ ~Done(s, x) /\ About(tc, x) = {} /\ About(c.respQueue, x) = {}
  BY <1>1, <1>3 DEF Once
<1>5. ~Refused(tc, x)
  BY <1>1, <1>4, RefusedAbout
<1>6. Somewhere(c, ts, tc, s, x)
  BY <1>3 DEF Somewhere
<1> QED
  BY <1>3, <1>4, <1>5, <1>6 DEF x

\* A step of the server moves what has tag x.
Moves(c, ts, tc, s, us, uc, r, x) ==
    /\ Tokens(c, ts, tc, s)
    /\ \A t \in Tracked \cup {"IDLE"} : t # x => Alike(c, ts, tc, s, c, us, uc, r, t)
    /\ x \in Tracked \cup {"IDLE"} => /\ Once(c, us, uc, r, x)
                                      /\ Somewhere(c, us, uc, r, x) <=> Somewhere(c, ts, tc, s, x)
    /\ Has(uc, "CLOSED") => Has(tc, "CLOSED") \/ c.aborted

\* Tokens is kept by a step of the server for one command.
LEMMA TokensServed ==
    ASSUME NEW c, NEW ts, NEW tc, NEW s, NEW us, NEW uc, NEW r, NEW x,
           Moves(c, ts, tc, s, us, uc, r, x)
    PROVE  Tokens(c, us, uc, r)
<1>1. Has(uc, "CLOSED") \/ Has(c.respQueue, "CLOSED") =>
        Has(tc, "CLOSED") \/ Has(c.respQueue, "CLOSED") \/ c.aborted
  BY DEF Moves
<1>2. /\ Tokens(c, ts, tc, s)
      /\ \A t \in Tracked \cup {"IDLE"} : t # x => Alike(c, ts, tc, s, c, us, uc, r, t)
      /\ x \in Tracked \cup {"IDLE"} => /\ Once(c, us, uc, r, x)
                                        /\ Somewhere(c, us, uc, r, x) <=> Somewhere(c, ts, tc, s, x)
  BY DEF Moves
<1> QED
  BY <1>1, <1>2, TokensMoved

\* Nothing is at most one thing.
LEMMA NoneSingle == Single({})
BY DEF Single

\* The server reads IDLE, and says "+".
LEMMA StartsIdle ==
    ASSUME NEW c, NEW ts, NEW tc, NEW s, Typed(c), Good(c), Wired(c, ts, tc, s), ts # <<>>,
           ts[1].kind = "IDLE", ~s.idling, NEW us, us = Tail(ts), NEW uc, uc = Append(tc, Say("+", NoTag)),
           NEW r, r = [s EXCEPT !.idling = TRUE]
    PROVE  Wired(c, us, uc, r)
<1> DEFINE e == Say("+", NoTag)
<1>1. /\ ts \in Seq(Line) /\ tc \in Seq(Response) /\ Idles(ts) /\ DoneFollows(ts) /\ Served(s)
      /\ TypedResponses(tc) /\ PlusOnce(tc) /\ SizeOnce(ts) /\ SizesOf(ts, c.literalCommandTag)
      /\ Tokens(c, ts, tc, s)
  BY WiredParts
<1>2. /\ us \in Seq(Line) /\ ts[1] \in Line /\ Idles(us) /\ DoneFollows(us)
      /\ Ends(us, "IDLE") => Ends(ts, "IDLE")
      /\ us # <<>> => us[1].kind = "DONE"
      /\ us = <<>> => Ends(ts, "IDLE")
      /\ \A kind : Has(us, kind) => Has(ts, kind)
      /\ Has(ts, "IDLE") /\ SizeOnce(us) /\ SizesOf(us, c.literalCommandTag)
      /\ ts[1].tag = "IDLE"
  BY <1>1, ReadLine
<1>3. c.waitForInitialIdle /\ ~Has(tc, "+") /\ c.idling /\ ~c.waitingForContinuation
  BY <1>2, WiredParts DEF Good, Order
<1>4. e \in Response /\ RightTag(e) /\ e.kind = "+" /\ e.tag = NoTag /\ uc = Append(tc, e)
  BY SaidIs
<1>5. e # Say("OK", "IDLE") /\ \A t : ~Refuses(e, t)
  BY <1>4 DEF Say, Refuses
<1> HIDE DEF e
<1>6. /\ uc \in Seq(Response) /\ TypedResponses(uc) /\ PlusOnce(uc) /\ (EndsLater(tc) => EndsLater(uc))
      /\ \A kind : Has(uc, kind) <=> Has(tc, kind) \/ kind = "+"
      /\ \A t : Refused(uc, t) <=> Refused(tc, t)
  BY <1>1, <1>3, <1>4, <1>5, AnswerMore
<1>7. Served(r) /\ r.idling = TRUE /\ r.working = s.working
  BY <1>1 DEF Served
<1>8. /\ Single(Ordered(c, "IDLE")) /\ Single(About(tc, "IDLE")) /\ Single(About(c.respQueue, "IDLE"))
      /\ Queued(c, tc, "IDLE") = {} /\ ~Done(s, "IDLE") /\ About(tc, "IDLE") = {}
      /\ About(c.respQueue, "IDLE") = {}
      /\ Sent(us, "IDLE") = {} /\ Somewhere(c, ts, tc, s, "IDLE") /\ ~Refused(tc, "IDLE")
  BY <1>2, LineIsFirst
<1>9. ~Has(us, "IDLE")
  <2> SUFFICES ASSUME NEW i \in DOMAIN us, us[i].kind = "IDLE" PROVE FALSE
    BY DEF Has
  <2>1. us[i] \in Line /\ us[i].tag = "IDLE"
    BY <1>2 DEF Idles
  <2> QED
    BY <1>8, <2>1 DEF Sent, At, Lines
<1>10. Tokens(c, us, uc, r)
  <2>1. \A t \in Tracked \cup {"IDLE"} : t # "IDLE" => Alike(c, ts, tc, s, c, us, uc, r, t)
    <3> SUFFICES ASSUME NEW t \in Tracked, t # "IDLE" PROVE Alike(c, ts, tc, s, c, us, uc, r, t)
      OBVIOUS
    <3>1. ts[1] \notin Lines(t) /\ e.tag # t /\ (Done(r, t) <=> Done(s, t))
      BY <1>1, <1>2, <1>4, <1>7, FirstLine, OwnCommands DEF Done
    <3> QED
      BY <1>1, <1>4, <3>1, AlikeServer
  <2>2. About(uc, "IDLE") = {}
    <3>1. e \notin Responses("IDLE")
      BY <1>4, OwnCommands DEF Responses
    <3> QED
      BY <1>1, <1>4, <1>8, <3>1, AtAppend DEF About
  <2>3. Queued(c, uc, "IDLE") = {}
    BY <1>6, <1>8, QueuedSame, SMTT(30)
  <2>4. Once(c, us, uc, r, "IDLE") /\ Somewhere(c, us, uc, r, "IDLE")
    BY <1>7, <1>8, <2>2, <2>3, NoneSingle DEF Once, Somewhere, Done
  <2>5. Has(uc, "CLOSED") => Has(tc, "CLOSED") \/ c.aborted
    BY <1>6
  <2>6. Tokens(c, ts, tc, s) /\ Once(c, us, uc, r, "IDLE")
        /\ (Somewhere(c, us, uc, r, "IDLE") <=> Somewhere(c, ts, tc, s, "IDLE"))
    BY <1>1, <1>8, <2>4
  <2>7. Moves(c, ts, tc, s, us, uc, r, "IDLE")
    BY <2>1, <2>5, <2>6 DEF Moves
  <2> QED
    BY <2>7, TokensServed
<1>11. ~Refused(c.respQueue, "IDLE")
  <2>1. c.respQueue \in Seq(Response)
    BY DEF Typed
  <2> QED
    BY <1>8, <2>1, RefusedAbout
<1> QED
  BY <1>2, <1>3, <1>6, <1>7, <1>8, <1>9, <1>10, <1>11, WiredParts

\* With more refusals there are fewer commands which are still to be sent.
LEMMA QueuedLess ==
    ASSUME NEW c, NEW tc, NEW uc, NEW t, Refused(tc, t) => Refused(uc, t)
    PROVE  Queued(c, uc, t) \subseteq Queued(c, tc, t)
BY DEF Queued

\* The only answer to x
LEMMA AnsweredOnce ==
    ASSUME NEW tc \in Seq(Response), NEW e \in Response, NEW x, e.tag = x, About(tc, x) = {},
           NEW uc, uc = Append(tc, e)
    PROVE  Single(About(uc, x)) /\ About(uc, x) # {}
<1>1. e \in Responses(x)
  BY DEF Responses
<1> QED
  BY <1>1, AtAppend DEF About

\* IDLE is not on the wire when nothing of its tag is.
LEMMA NoIdleLine ==
    ASSUME NEW us \in Seq(Line), Idles(us), Sent(us, "IDLE") = {}
    PROVE  ~Has(us, "IDLE")
<1> SUFFICES ASSUME NEW i \in DOMAIN us, us[i].kind = "IDLE" PROVE FALSE
  BY DEF Has
<1>1. us[i] \in Line /\ us[i].tag = "IDLE"
  BY DEF Idles
<1> QED
  BY <1>1 DEF Sent, At, Lines

\* The server reads IDLE, and says NO.
LEMMA RefusingAnIdle ==
    ASSUME NEW c, NEW ts, NEW tc, NEW s, Typed(c), Good(c), Wired(c, ts, tc, s), ts # <<>>,
           ts[1].kind = "IDLE", ~s.idling, NEW us, us = Tail(ts), NEW uc, uc = Append(tc, Say("NO", "IDLE"))
    PROVE  Wired(c, us, uc, s)
<1> DEFINE e == Say("NO", "IDLE")
<1>1. /\ ts \in Seq(Line) /\ tc \in Seq(Response) /\ Idles(ts) /\ DoneFollows(ts) /\ Served(s)
      /\ TypedResponses(tc) /\ PlusOnce(tc) /\ SizeOnce(ts) /\ SizesOf(ts, c.literalCommandTag)
      /\ Tokens(c, ts, tc, s)
  BY WiredParts
<1>2. /\ us \in Seq(Line) /\ ts[1] \in Line /\ Idles(us) /\ DoneFollows(us)
      /\ Ends(us, "IDLE") => Ends(ts, "IDLE")
      /\ \A kind : Has(us, kind) => Has(ts, kind)
      /\ Has(ts, "IDLE") /\ SizeOnce(us) /\ SizesOf(us, c.literalCommandTag)
      /\ ts[1].tag = "IDLE"
  BY <1>1, ReadLine
<1>3. c.waitForInitialIdle /\ ~Has(tc, "+") /\ c.idling /\ ~c.waitingForContinuation
  BY <1>2, WiredParts DEF Good, Order
<1>4. e \in Response /\ RightTag(e) /\ e.kind = "NO" /\ e.tag = "IDLE" /\ uc = Append(tc, e)
  BY SaidIs
<1>5. e # Say("OK", "IDLE") /\ \A t : Refuses(e, t) <=> t = "IDLE"
  BY <1>4 DEF Say, Refuses
<1> HIDE DEF e
<1>6. /\ uc \in Seq(Response) /\ TypedResponses(uc) /\ PlusOnce(uc) /\ (EndsLater(tc) => EndsLater(uc))
      /\ \A kind : Has(uc, kind) <=> Has(tc, kind) \/ kind = "NO"
      /\ \A t : Refused(uc, t) <=> Refused(tc, t) \/ t = "IDLE"
  BY <1>1, <1>3, <1>4, <1>5, AnswerMore
<1>8. /\ Single(Ordered(c, "IDLE")) /\ Single(About(tc, "IDLE")) /\ Single(About(c.respQueue, "IDLE"))
      /\ Queued(c, tc, "IDLE") = {} /\ ~Done(s, "IDLE") /\ About(tc, "IDLE") = {}
      /\ About(c.respQueue, "IDLE") = {}
      /\ Sent(us, "IDLE") = {} /\ Somewhere(c, ts, tc, s, "IDLE")
  BY <1>2, LineIsFirst
<1>9. ~Has(us, "IDLE")
  BY <1>2, <1>8, NoIdleLine
<1>10. Tokens(c, us, uc, s)
  <2>1. \A t \in Tracked \cup {"IDLE"} : t # "IDLE" => Alike(c, ts, tc, s, c, us, uc, s, t)
    <3> SUFFICES ASSUME NEW t \in Tracked, t # "IDLE" PROVE Alike(c, ts, tc, s, c, us, uc, s, t)
      OBVIOUS
    <3>1. ts[1] \notin Lines(t) /\ e.tag # t
      BY <1>1, <1>2, <1>4, FirstLine
    <3> QED
      BY <1>1, <1>4, <3>1, AlikeServer
  <2>2. Single(About(uc, "IDLE")) /\ About(uc, "IDLE") # {}
    BY <1>1, <1>4, <1>8, AnsweredOnce
  <2>3. Queued(c, uc, "IDLE") = {}
    BY <1>6, <1>8, QueuedLess
  <2>4. Once(c, us, uc, s, "IDLE") /\ Somewhere(c, us, uc, s, "IDLE")
    BY <1>8, <2>2, <2>3, NoneSingle DEF Once, Somewhere
  <2>5. Has(uc, "CLOSED") => Has(tc, "CLOSED") \/ c.aborted
    BY <1>6
  <2>7. Moves(c, ts, tc, s, us, uc, s, "IDLE")
    BY <1>1, <1>8, <2>1, <2>4, <2>5 DEF Moves
  <2> QED
    BY <2>7, TokensServed
<1> QED
  BY <1>1, <1>2, <1>3, <1>6, <1>9, <1>10, OwnCommands, WiredParts

\* IDLE is completed, be it for DONE or not.
LEMMA EndingAnIdle ==
    ASSUME NEW c, NEW ts, NEW tc, NEW s, Typed(c), Good(c), Wired(c, ts, tc, s), s.idling,
           NEW us, us = ts \/ (ts # <<>> /\ ts[1].kind = "DONE" /\ us = Tail(ts)),
           NEW uc, uc = Append(tc, Say("OK", "IDLE")), NEW r, r = [s EXCEPT !.idling = FALSE]
    PROVE  Wired(c, us, uc, r)
<1> DEFINE e == Say("OK", "IDLE")
<1>1. /\ ts \in Seq(Line) /\ tc \in Seq(Response) /\ Idles(ts) /\ DoneFollows(ts) /\ Served(s)
      /\ TypedResponses(tc) /\ PlusOnce(tc) /\ SizeOnce(ts) /\ SizesOf(ts, c.literalCommandTag)
      /\ Tokens(c, ts, tc, s) /\ (c.waitForInitialIdle => Has(tc, "+"))
  BY WiredParts
<1>2. /\ us \in Seq(Line) /\ Idles(us) /\ DoneFollows(us)
      /\ Ends(us, "IDLE") => Ends(ts, "IDLE")
      /\ \A kind : Has(us, kind) => Has(ts, kind)
      /\ SizeOnce(us) /\ SizesOf(us, c.literalCommandTag)
      /\ us = ts \/ (ts # <<>> /\ us = Tail(ts) /\ \A t : ts[1] \notin Lines(t))
  <2>1. CASE us = ts
    BY <1>1, <2>1
  <2>2. CASE us # ts
    BY <1>1, <2>2, ReadLine, FirstLine
  <2> QED
    BY <2>1, <2>2
<1>4. e \in Response /\ RightTag(e) /\ e.kind = "OK" /\ e.tag = "IDLE" /\ uc = Append(tc, e)
  BY SaidIs
<1>5. \A t : ~Refuses(e, t)
  BY <1>4 DEF Say, Refuses
<1> HIDE DEF e
<1>6. /\ uc \in Seq(Response) /\ TypedResponses(uc) /\ PlusOnce(uc)
      /\ EndsLater(tc) /\ Has(tc, "+") => EndsLater(uc)
      /\ \A kind : Has(uc, kind) <=> Has(tc, kind) \/ kind = "OK"
      /\ \A t : Refused(uc, t) <=> Refused(tc, t)
  BY <1>1, <1>4, <1>5, AnswerMore, ZenonT(60)
<1>7. Served(r) /\ r.idling = FALSE /\ r.working = s.working
  BY <1>1 DEF Served
<1>8. /\ Once(c, ts, tc, s, "IDLE") /\ Done(s, "IDLE") /\ Somewhere(c, ts, tc, s, "IDLE") /\ ~Done(r, "IDLE")
  BY <1>1, <1>7 DEF Tokens, Done, Somewhere, Served
<1>9. /\ Single(Ordered(c, "IDLE")) /\ Single(About(c.respQueue, "IDLE"))
      /\ Queued(c, tc, "IDLE") = {} /\ Sent(ts, "IDLE") = {} /\ About(tc, "IDLE") = {}
      /\ About(c.respQueue, "IDLE") = {}
  BY <1>8 DEF Once
<1>10. Tokens(c, us, uc, r)
  <2>1. \A t \in Tracked \cup {"IDLE"} : t # "IDLE" => Alike(c, ts, tc, s, c, us, uc, r, t)
    <3> SUFFICES ASSUME NEW t \in Tracked, t # "IDLE" PROVE Alike(c, ts, tc, s, c, us, uc, r, t)
      OBVIOUS
    <3>1. e.tag # t /\ (Done(r, t) <=> Done(s, t))
      BY <1>4, <1>7 DEF Done
    <3> QED
      BY <1>1, <1>2, <1>4, <3>1, AlikeServer
  <2>2. Single(About(uc, "IDLE")) /\ About(uc, "IDLE") # {}
    BY <1>1, <1>4, <1>9, AnsweredOnce
  <2>3. Queued(c, uc, "IDLE") = {}
    BY <1>6, <1>9, QueuedSame
  <2>6. Sent(us, "IDLE") = {}
    <3>1. CASE us = ts
      BY <1>9, <3>1
    <3>2. CASE us # ts
      BY <1>1, <1>2, <1>9, <3>2, AtTail DEF Sent
    <3> QED
      BY <3>1, <3>2
  <2>4. Once(c, us, uc, r, "IDLE") /\ Somewhere(c, us, uc, r, "IDLE")
    BY <1>8, <1>9, <2>2, <2>3, <2>6, NoneSingle DEF Once, Somewhere
  <2>5. Has(uc, "CLOSED") => Has(tc, "CLOSED") \/ c.aborted
    BY <1>6
  <2>7. Moves(c, ts, tc, s, us, uc, r, "IDLE")
    BY <1>1, <1>8, <2>1, <2>4, <2>5 DEF Moves
  <2> QED
    BY <2>7, TokensServed
<1> QED
  BY <1>1, <1>2, <1>6, <1>7, <1>10, WiredParts

\* A response which answers nothing: [CLOSED] is another matter.
LEMMA SaysAside ==
    ASSUME NEW c, NEW ts, NEW tc, NEW s, Typed(c), Good(c), Wired(c, ts, tc, s),
           NEW us, us = ts \/ (ts # <<>> /\ ts[1].kind = "DONE" /\ us = Tail(ts)),
           NEW e, e = Say("BAD", NoTag) \/ \E f \in Arrivals : e = Say("EXISTS", f),
           us = ts \/ ~s.idling,
           NEW uc, uc = Append(tc, e), NEW r, Served(r), r.working = s.working, r.idling <=> s.idling
    PROVE  Wired(c, us, uc, r)
<1>1. /\ ts \in Seq(Line) /\ tc \in Seq(Response) /\ Idles(ts) /\ DoneFollows(ts)
      /\ TypedResponses(tc) /\ PlusOnce(tc) /\ SizeOnce(ts) /\ SizesOf(ts, c.literalCommandTag)
      /\ Tokens(c, ts, tc, s)
  BY WiredParts
<1>2. /\ us \in Seq(Line) /\ Idles(us) /\ DoneFollows(us)
      /\ Ends(us, "IDLE") => Ends(ts, "IDLE")
      /\ \A kind : Has(us, kind) => Has(ts, kind)
      /\ SizeOnce(us) /\ SizesOf(us, c.literalCommandTag)
      /\ us = ts \/ (ts # <<>> /\ us = Tail(ts) /\ \A t : ts[1] \notin Lines(t))
  <2>1. CASE us = ts
    BY <1>1, <2>1
  <2>2. CASE us # ts
    BY <1>1, <2>2, ReadLine, FirstLine
  <2> QED
    BY <2>1, <2>2
<1>4. e \in Response /\ RightTag(e) /\ e.kind \in {"BAD", "EXISTS"} /\ e.tag \notin Tracked \cup {"IDLE"}
      /\ uc = Append(tc, e)
  <2>1. CASE e = Say("BAD", NoTag)
    BY <2>1, SaidIs, OwnCommands
  <2>2. CASE e # Say("BAD", NoTag)
    <3>1. PICK f \in Arrivals : e = Say("EXISTS", f)
      BY <2>2
    <3>2. f \in Tag /\ f \notin Tracked \cup {"IDLE"}
      BY OwnCommands DEF Tag, OwnTags
    <3> QED
      BY <3>1, <3>2, SaidIs
  <2> QED
    BY <2>1, <2>2
<1>5. e # Say("OK", "IDLE") /\ \A t : ~Refuses(e, t)
  BY <1>4 DEF Say, Refuses
<1>6. /\ uc \in Seq(Response) /\ TypedResponses(uc) /\ PlusOnce(uc) /\ (EndsLater(tc) => EndsLater(uc))
      /\ \A kind : Has(uc, kind) <=> Has(tc, kind) \/ kind = e.kind
      /\ \A t : Refused(uc, t) <=> Refused(tc, t)
  BY <1>1, <1>4, <1>5, AnswerMore
<1>10. Tokens(c, us, uc, r)
  <2>1. \A t \in Tracked \cup {"IDLE"} : t # NoTag => Alike(c, ts, tc, s, c, us, uc, r, t)
    <3> SUFFICES ASSUME NEW t \in Tracked \cup {"IDLE"} PROVE Alike(c, ts, tc, s, c, us, uc, r, t)
      OBVIOUS
    <3>1. e.tag # t /\ (Done(r, t) <=> Done(s, t))
      BY <1>4 DEF Done
    <3> QED
      BY <1>1, <1>2, <1>4, <3>1, AlikeServer
  <2>2. NoTag \notin Tracked \cup {"IDLE"}
    BY OwnCommands
  <2>5. Has(uc, "CLOSED") => Has(tc, "CLOSED") \/ c.aborted
    BY <1>4, <1>6
  <2>7. Moves(c, ts, tc, s, us, uc, r, NoTag)
    BY <1>1, <2>1, <2>2, <2>5 DEF Moves
  <2> QED
    BY <2>7, TokensServed
<1>11. Has(uc, "+") <=> Has(tc, "+")
  BY <1>4, <1>6
<1> QED
  BY <1>1, <1>2, <1>6, <1>10, <1>11, WiredParts

\* A command begins to be worked on; with SELECT the server may say [CLOSED].
LEMMA ReadsCommand ==
    ASSUME NEW c, NEW ts, NEW tc, NEW s, Typed(c), Good(c), Wired(c, ts, tc, s), ts # <<>>,
           ts[1].kind \in {"command", "literal"}, ~s.idling, NEW us, us = Tail(ts),
           NEW uc, uc = tc \/ (uc = Append(tc, Say("CLOSED", NoTag)) /\ ts[1].tag = "SELECT"),
           NEW r, Served(r), r.working = s.working \cup {ts[1].tag}, r.idling <=> s.idling
    PROVE  Wired(c, us, uc, r)
<1> DEFINE x == ts[1].tag
<1>1. /\ ts \in Seq(Line) /\ tc \in Seq(Response) /\ Idles(ts) /\ DoneFollows(ts) /\ Served(s)
      /\ TypedResponses(tc) /\ PlusOnce(tc) /\ SizeOnce(ts) /\ SizesOf(ts, c.literalCommandTag)
      /\ Tokens(c, ts, tc, s)
  BY WiredParts
<1>2. /\ us \in Seq(Line) /\ Idles(us) /\ DoneFollows(us)
      /\ Ends(us, "IDLE") => Ends(ts, "IDLE")
      /\ \A kind : Has(us, kind) => Has(ts, kind)
      /\ SizeOnce(us) /\ SizesOf(us, c.literalCommandTag)
      /\ x # "IDLE" /\ \A t : t # x => ts[1] \notin Lines(t)
  BY <1>1, ReadLine, FirstLine
<1>3. /\ uc \in Seq(Response) /\ TypedResponses(uc) /\ PlusOnce(uc) /\ (EndsLater(tc) => EndsLater(uc))
      /\ \A kind : kind # "CLOSED" => (Has(uc, kind) <=> Has(tc, kind))
      /\ \A t : Refused(uc, t) <=> Refused(tc, t)
      /\ \A t : t # NoTag => About(uc, t) = About(tc, t)
      /\ uc = tc \/ \E e \in Response : uc = Append(tc, e) /\ e.tag = NoTag
  <2>1. CASE uc = tc
    BY <1>1, <2>1
  <2>2. CASE uc # tc
    <3> DEFINE e == Say("CLOSED", NoTag)
    <3>1. e \in Response /\ RightTag(e) /\ e.kind = "CLOSED" /\ e.tag = NoTag /\ uc = Append(tc, e)
      BY <2>2, SaidIs
    <3>2. e # Say("OK", "IDLE") /\ (\A t : ~Refuses(e, t)) /\ \A t : t # NoTag => e \notin Responses(t)
      BY <3>1 DEF Say, Refuses, Responses
    <3> HIDE DEF e
    <3>3. /\ uc \in Seq(Response) /\ TypedResponses(uc) /\ PlusOnce(uc) /\ (EndsLater(tc) => EndsLater(uc))
          /\ \A kind : Has(uc, kind) <=> Has(tc, kind) \/ kind = "CLOSED"
          /\ \A t : Refused(uc, t) <=> Refused(tc, t)
      BY <1>1, <3>1, <3>2, AnswerMore
    <3>4. \A t : t # NoTag => About(uc, t) = About(tc, t)
      BY <1>1, <3>1, <3>2, AtAppend DEF About
    <3> QED
      BY <3>1, <3>3, <3>4
  <2> QED
    BY <2>1, <2>2
<1>4. Has(uc, "CLOSED") => Has(tc, "CLOSED") \/ c.aborted
  <2>1. CASE uc = tc
    BY <2>1
  <2>2. CASE uc # tc
    <3>1. x = "SELECT" /\ "SELECT" \in Tracked
      BY <2>2 DEF Tracked
    <3>2. Somewhere(c, ts, tc, s, "SELECT")
      BY <3>1, LineIsFirst
    <3> QED
      BY <1>1, <3>1, <3>2 DEF Tokens, Good, Duty
  <2> QED
    BY <2>1, <2>2
<1> HIDE DEF x
<1>5. Tokens(c, us, uc, r)
  <2>1. \A t \in Tracked \cup {"IDLE"} : t # x => Alike(c, ts, tc, s, c, us, uc, r, t)
    <3> SUFFICES ASSUME NEW t \in Tracked \cup {"IDLE"}, t # x PROVE Alike(c, ts, tc, s, c, us, uc, r, t)
      OBVIOUS
    <3>1. t # NoTag /\ ts[1] \notin Lines(t) /\ (Done(r, t) <=> Done(s, t))
      BY <1>2, OwnCommands DEF Done, x
    <3>2. uc = tc \/ \E e \in Response : uc = Append(tc, e) /\ e.tag # t
      BY <1>3, <3>1
    <3> QED
      BY <1>1, <3>1, <3>2, AlikeServer
  <2>2. x \in Tracked \cup {"IDLE"} => /\ Once(c, us, uc, r, x)
                                       /\ Somewhere(c, us, uc, r, x) <=> Somewhere(c, ts, tc, s, x)
    <3> SUFFICES ASSUME x \in Tracked \cup {"IDLE"}
                 PROVE  /\ Once(c, us, uc, r, x)
                        /\ Somewhere(c, us, uc, r, x) <=> Somewhere(c, ts, tc, s, x)
      OBVIOUS
    <3>1. /\ Single(Ordered(c, x)) /\ Single(About(tc, x)) /\ Single(About(c.respQueue, x))
          /\ Queued(c, tc, x) = {} /\ About(tc, x) = {} /\ About(c.respQueue, x) = {}
          /\ Sent(us, x) = {} /\ Somewhere(c, ts, tc, s, x)
      BY LineIsFirst DEF x
    <3>2. x # NoTag /\ x \in r.working
      BY OwnCommands DEF x
    <3>4. Refused(uc, x) <=> Refused(tc, x)
      BY <1>3
    <3>5. Queued(c, uc, x) = {}
      BY <3>1, <3>4, QueuedSame, SMTT(30)
    <3>6. About(uc, x) = {}
      BY <1>3, <3>1, <3>2
    <3>3. Queued(c, uc, x) = {} /\ About(uc, x) = {} /\ Done(r, x)
      BY <3>2, <3>5, <3>6 DEF Done
    <3> QED
      BY <3>1, <3>3, NoneSingle DEF Once, Somewhere
  <2>3. Moves(c, ts, tc, s, us, uc, r, x)
    BY <1>1, <1>4, <2>1, <2>2 DEF Moves
  <2> QED
    BY <2>3, TokensServed
<1>6. Has(uc, "+") <=> Has(tc, "+")
  BY <1>3
<1> QED
  BY <1>1, <1>2, <1>3, <1>5, <1>6, WiredParts

\* The server reads the size of a literal, and says "+".
LEMMA TakesLiteral ==
    ASSUME NEW c, NEW ts, NEW tc, NEW s, Typed(c), Good(c), Wired(c, ts, tc, s), ts # <<>>,
           ts[1].kind = "size", ~s.idling, NEW us, us = Tail(ts), NEW uc, uc = Append(tc, Say("+", NoTag))
    PROVE  Wired(c, us, uc, s)
<1> DEFINE e == Say("+", NoTag)
<1>1. /\ ts \in Seq(Line) /\ tc \in Seq(Response) /\ Idles(ts) /\ DoneFollows(ts) /\ Served(s)
      /\ TypedResponses(tc) /\ PlusOnce(tc) /\ SizeOnce(ts) /\ SizesOf(ts, c.literalCommandTag)
      /\ Tokens(c, ts, tc, s)
  BY WiredParts
<1>2. /\ us \in Seq(Line) /\ ts[1] \in Line /\ Idles(us) /\ DoneFollows(us)
      /\ Ends(us, "IDLE") => Ends(ts, "IDLE")
      /\ \A kind : Has(us, kind) => Has(ts, kind)
      /\ Has(ts, "size") /\ SizeOnce(us) /\ SizesOf(us, c.literalCommandTag) /\ ~Has(us, "size")
      /\ \A t : ts[1] \notin Lines(t)
  BY <1>1, ReadLine, FirstLine
<1>3. /\ c.waitingForContinuation /\ ~Has(tc, "+") /\ ~c.waitForInitialIdle
      /\ \A t \in Tracked : ~Refused(tc, t)
  BY <1>2, WiredParts DEF Good, Order
<1>4. e \in Response /\ RightTag(e) /\ e.kind = "+" /\ e.tag = NoTag /\ uc = Append(tc, e)
  BY SaidIs
<1>5. e # Say("OK", "IDLE") /\ \A t : ~Refuses(e, t)
  BY <1>4 DEF Say, Refuses
<1> HIDE DEF e
<1>6. /\ uc \in Seq(Response) /\ TypedResponses(uc) /\ PlusOnce(uc) /\ (EndsLater(tc) => EndsLater(uc))
      /\ \A kind : Has(uc, kind) <=> Has(tc, kind) \/ kind = "+"
      /\ \A t : Refused(uc, t) <=> Refused(tc, t)
  BY <1>1, <1>3, <1>4, <1>5, AnswerMore
<1>10. Tokens(c, us, uc, s)
  <2>1. \A t \in Tracked \cup {"IDLE"} : t # NoTag => Alike(c, ts, tc, s, c, us, uc, s, t)
    <3> SUFFICES ASSUME NEW t \in Tracked \cup {"IDLE"}, t # NoTag PROVE Alike(c, ts, tc, s, c, us, uc, s, t)
      OBVIOUS
    <3> QED
      BY <1>1, <1>2, <1>4, AlikeServer
  <2>2. NoTag \notin Tracked \cup {"IDLE"}
    BY OwnCommands
  <2>5. Has(uc, "CLOSED") => Has(tc, "CLOSED") \/ c.aborted
    BY <1>6
  <2>7. Moves(c, ts, tc, s, us, uc, s, NoTag)
    BY <1>1, <2>1, <2>2, <2>5 DEF Moves
  <2> QED
    BY <2>7, TokensServed
<1> QED
  BY <1>1, <1>2, <1>3, <1>6, <1>10, WiredParts

\* The command of a refused literal is still queued: it does not count any longer.
LEMMA RefusesLiteral ==
    ASSUME NEW c, NEW ts, NEW tc, NEW s, Typed(c), Good(c), Wired(c, ts, tc, s), ts # <<>>,
           ts[1].kind = "size", ~s.idling, NEW us, us = Tail(ts),
           NEW uc, uc = Append(tc, Say("NO", ts[1].tag))
    PROVE  Wired(c, us, uc, s)
<1> DEFINE x == ts[1].tag
           e == Say("NO", x)
<1>1. /\ ts \in Seq(Line) /\ tc \in Seq(Response) /\ Idles(ts) /\ DoneFollows(ts) /\ Served(s)
      /\ TypedResponses(tc) /\ PlusOnce(tc) /\ SizeOnce(ts) /\ SizesOf(ts, c.literalCommandTag)
      /\ Tokens(c, ts, tc, s)
  BY WiredParts
<1>2. /\ us \in Seq(Line) /\ ts[1] \in Line /\ Idles(us) /\ DoneFollows(us)
      /\ Ends(us, "IDLE") => Ends(ts, "IDLE")
      /\ \A kind : Has(us, kind) => Has(ts, kind)
      /\ Has(ts, "size") /\ SizeOnce(us) /\ SizesOf(us, c.literalCommandTag) /\ ~Has(us, "size")
      /\ \A t : ts[1] \notin Lines(t)
  BY <1>1, ReadLine, FirstLine
<1>3. /\ c.waitingForContinuation /\ ~Has(tc, "+") /\ ~c.waitForInitialIdle
      /\ \A t \in Tracked : ~Refused(tc, t)
      /\ c.cmdQueue # <<>> /\ c.cmdQueue[1].kind = "LITERAL" /\ c.cmdQueue[1].numberSent
      /\ c.literalCommandTag = c.cmdQueue[1].tag
  BY <1>2, WiredParts DEF Good, Order
<1>a. 1 \in DOMAIN c.cmdQueue /\ c.cmdQueue[1] \in Command
  BY <1>3, Tailed DEF Typed
<1>b. x = c.cmdQueue[1].tag /\ x \in Tasks /\ c.literalCommandTag = x
  <2>1. 1 \in DOMAIN ts
    BY <1>1, Tailed
  <2>2. x = c.literalCommandTag
    BY <1>1, <2>1 DEF SizesOf
  <2>3. c.cmdQueue[1].tag \in Tasks
    BY <1>3, <1>a DEF Good, Order
  <2> QED
    BY <1>3, <2>2, <2>3
<1>c. x \in Tracked /\ x \in Tag /\ x # "IDLE" /\ x # NoTag
  BY <1>b, OwnCommands DEF Tracked
<1>4. e \in Response /\ RightTag(e) /\ e.kind = "NO" /\ e.tag = x /\ uc = Append(tc, e)
  BY <1>c, SaidIs
<1>5. e # Say("OK", "IDLE") /\ \A t : Refuses(e, t) <=> t = x
  BY <1>4 DEF Say, Refuses
<1> HIDE DEF e, x
<1>6. /\ uc \in Seq(Response) /\ TypedResponses(uc) /\ PlusOnce(uc) /\ (EndsLater(tc) => EndsLater(uc))
      /\ \A kind : Has(uc, kind) <=> Has(tc, kind) \/ kind = "NO"
      /\ \A t : Refused(uc, t) <=> Refused(tc, t) \/ t = x
  BY <1>1, <1>3, <1>4, <1>5, AnswerMore
<1>7. Once(c, ts, tc, s, x)
  BY <1>1, <1>c DEF Tokens
<1>8. 1 \in Ordered(c, x) /\ 1 \in Queued(c, tc, x)
  <2>1. c.cmdQueue[1] \in Commands(x)
    BY <1>3, <1>a, <1>b DEF Commands
  <2> QED
    BY <1>3, <1>a, <1>c, <2>1 DEF Ordered, Queued, At
<1>9. /\ Single(Ordered(c, x)) /\ Single(About(c.respQueue, x))
      /\ Sent(ts, x) = {} /\ ~Done(s, x) /\ About(tc, x) = {} /\ About(c.respQueue, x) = {}
  BY <1>7, <1>8 DEF Once
<1>10. Tokens(c, us, uc, s)
  <2>1. \A t \in Tracked \cup {"IDLE"} : t # x => Alike(c, ts, tc, s, c, us, uc, s, t)
    <3> SUFFICES ASSUME NEW t \in Tracked \cup {"IDLE"}, t # x PROVE Alike(c, ts, tc, s, c, us, uc, s, t)
      OBVIOUS
    <3> QED
      BY <1>1, <1>2, <1>4, AlikeServer
  <2>2. Single(About(uc, x)) /\ About(uc, x) # {}
    BY <1>1, <1>4, <1>9, AnsweredOnce
  <2>3. Queued(c, uc, x) = {}
    <3>1. Refused(uc, x)
      BY <1>6
    <3>2. \A i \in Ordered(c, x) : i = 1
      BY <1>8, <1>9 DEF Single
    <3> QED
      BY <1>3, <3>1, <3>2 DEF Queued
  <2>4. Sent(us, x) = {}
    BY <1>1, <1>9, AtTail DEF Sent
  <2>5. Has(uc, "CLOSED") => Has(tc, "CLOSED") \/ c.aborted
    BY <1>6
  <2>6. Once(c, us, uc, s, x) /\ Somewhere(c, us, uc, s, x) /\ Somewhere(c, ts, tc, s, x)
    BY <1>8, <1>9, <2>2, <2>3, <2>4, NoneSingle DEF Once, Somewhere
  <2>7. Moves(c, ts, tc, s, us, uc, s, x)
    BY <1>1, <2>1, <2>5, <2>6 DEF Moves
  <2> QED
    BY <2>7, TokensServed
<1> QED
  BY <1>1, <1>2, <1>3, <1>6, <1>10, <1>b, <1>c, WiredParts

\* The server has done a command, and says OK.
LEMMA AnswersCommand ==
    ASSUME NEW c, NEW ts, NEW tc, NEW s, Typed(c), Good(c), Wired(c, ts, tc, s), NEW x \in s.working,
           NEW uc, uc = Append(tc, Say("OK", x)), NEW r, r = [s EXCEPT !.working = @ \ {x}]
    PROVE  Wired(c, ts, uc, r)
<1> DEFINE e == Say("OK", x)
<1>1. /\ ts \in Seq(Line) /\ tc \in Seq(Response) /\ Idles(ts) /\ DoneFollows(ts) /\ Served(s)
      /\ TypedResponses(tc) /\ PlusOnce(tc) /\ SizeOnce(ts) /\ SizesOf(ts, c.literalCommandTag)
      /\ Tokens(c, ts, tc, s)
  BY WiredParts
<1>2. x \in Tag /\ x # "IDLE" /\ x # NoTag
  BY <1>1, OwnCommands DEF Served
<1>4. e \in Response /\ RightTag(e) /\ e.kind = "OK" /\ e.tag = x /\ uc = Append(tc, e)
  BY <1>2, SaidIs
<1>5. e # Say("OK", "IDLE") /\ \A t : ~Refuses(e, t)
  BY <1>2, <1>4 DEF Say, Refuses
<1> HIDE DEF e
<1>6. /\ uc \in Seq(Response) /\ TypedResponses(uc) /\ PlusOnce(uc) /\ (EndsLater(tc) => EndsLater(uc))
      /\ \A kind : Has(uc, kind) <=> Has(tc, kind) \/ kind = "OK"
      /\ \A t : Refused(uc, t) <=> Refused(tc, t)
  BY <1>1, <1>4, <1>5, AnswerMore
<1>7. Served(r) /\ (r.idling <=> s.idling) /\ r.working = s.working \ {x}
  BY <1>1 DEF Served
<1>10. Tokens(c, ts, uc, r)
  <2>1. \A t \in Tracked \cup {"IDLE"} : t # x => Alike(c, ts, tc, s, c, ts, uc, r, t)
    <3> SUFFICES ASSUME NEW t \in Tracked \cup {"IDLE"}, t # x PROVE Alike(c, ts, tc, s, c, ts, uc, r, t)
      OBVIOUS
    <3>1. Done(r, t) <=> Done(s, t)
      BY <1>7 DEF Done
    <3> QED
      BY <1>1, <1>4, <3>1, AlikeServer
  <2>2. x \in Tracked \cup {"IDLE"} => /\ Once(c, ts, uc, r, x)
                                       /\ Somewhere(c, ts, uc, r, x) <=> Somewhere(c, ts, tc, s, x)
    <3> SUFFICES ASSUME x \in Tracked \cup {"IDLE"}
                 PROVE  /\ Once(c, ts, uc, r, x)
                        /\ Somewhere(c, ts, uc, r, x) <=> Somewhere(c, ts, tc, s, x)
      OBVIOUS
    <3>1. Once(c, ts, tc, s, x) /\ Done(s, x) /\ ~Done(r, x) /\ Somewhere(c, ts, tc, s, x)
      BY <1>1, <1>2, <1>7 DEF Tokens, Done, Somewhere
    <3>2. /\ Single(Ordered(c, x)) /\ Single(About(c.respQueue, x))
          /\ Queued(c, tc, x) = {} /\ Sent(ts, x) = {} /\ About(tc, x) = {}
          /\ About(c.respQueue, x) = {}
      BY <3>1 DEF Once
    <3>3. Single(About(uc, x)) /\ About(uc, x) # {}
      BY <1>1, <1>4, <3>2, AnsweredOnce
    <3>4. Queued(c, uc, x) = {}
      BY <1>6, <3>2, QueuedSame, SMTT(30)
    <3> QED
      BY <3>1, <3>2, <3>3, <3>4, NoneSingle DEF Once, Somewhere
  <2>5. Has(uc, "CLOSED") => Has(tc, "CLOSED") \/ c.aborted
    BY <1>6
  <2>7. Moves(c, ts, tc, s, ts, uc, r, x)
    BY <1>1, <2>1, <2>2, <2>5 DEF Moves
  <2> QED
    BY <2>7, TokensServed
<1> QED
  BY <1>1, <1>6, <1>7, <1>10, WiredParts

\* The client sees nothing of what the server does.
LEMMA ServerSafe ==
    ASSUME HandoverInv, Serving, UNCHANGED client, Wired(client, toServer', toClient', server')
    PROVE  HandoverInv'
<1>1. Holds(client, toServer, toClient, server) /\ client.online /\ Fine(client)
  BY DEF HandoverInv, Safe, Serving, Sound
<1>2. Holds(client, toServer', toClient', server')
  BY <1>1 DEF Holds
<1>3. Safe(client', toServer', toClient', server')
  BY <1>1, <1>2 DEF Safe
<1>4. IdlingServerGetsDone'
  <2>1. server'.idling /\ toServer' # <<>> => toServer'[1].kind = "DONE"
    BY WiredParts
  <2> QED
    BY <2>1 DEF IdlingServerGetsDone
<1> QED
  BY <1>3, <1>4 DEF HandoverInv

\* What the server and the wire are like while no assertion has failed
LEMMA Serves ==
    ASSUME HandoverInv, Serving
    PROVE  /\ Typed(client) /\ Good(client) /\ Wired(client, toServer, toClient, server)
           /\ toServer \in Seq(Line) /\ Served(server)
           /\ toServer # <<>> => Head(toServer) = toServer[1]
<1>1. Holds(client, toServer, toClient, server) /\ client.online
  BY DEF HandoverInv, Safe, Serving, Sound
<1>2. toServer \in Seq(Line) /\ Served(server)
  BY <1>1, WiredParts DEF Holds
<1> QED
  BY <1>1, <1>2 DEF Holds

\* The steps of the server
LEMMA ServerStep ==
    ASSUME HandoverInv, ServerActs
    PROVE  HandoverInv'
<1>0. Serving /\ UNCHANGED client
  BY DEF ServerActs, ServerReads, ServerStartsIdle, ServerRefusesIdle, ServerReadsDone,
         ServerReadsCommand, ServerTakesLiteral, ServerRefusesLiteral, ServerEndsIdle, ServerAnswers,
         ServerAnnounces, Reads
<1>1. /\ Typed(client) /\ Good(client) /\ Wired(client, toServer, toClient, server)
      /\ toServer \in Seq(Line) /\ Served(server)
      /\ toServer # <<>> => Head(toServer) = toServer[1]
  BY <1>0, Serves
<1>2. SUFFICES Wired(client, toServer', toClient', server')
  BY <1>0, ServerSafe
<1>3. CASE ServerStartsIdle
  <2>1. /\ toServer # <<>> /\ toServer[1].kind = "IDLE" /\ ~server.idling
        /\ toServer' = Tail(toServer) /\ toClient' = Append(toClient, Say("+", NoTag))
        /\ server' = [server EXCEPT !.idling = TRUE]
    BY <1>1, <1>3 DEF ServerStartsIdle, Reads, Answers
  <2> QED
    BY <1>1, <2>1, StartsIdle
<1>4. CASE ServerRefusesIdle
  <2>1. /\ toServer # <<>> /\ toServer[1].kind = "IDLE" /\ ~server.idling
        /\ toServer' = Tail(toServer) /\ toClient' = Append(toClient, Say("NO", "IDLE"))
        /\ server' = server
    BY <1>1, <1>4 DEF ServerRefusesIdle, Reads, Answers
  <2> QED
    BY <1>1, <2>1, RefusingAnIdle
<1>5. CASE ServerEndsIdle
  <2>1. /\ server.idling /\ toServer' = toServer /\ toClient' = Append(toClient, Say("OK", "IDLE"))
        /\ server' = [server EXCEPT !.idling = FALSE]
    BY <1>5 DEF ServerEndsIdle, Answers
  <2> QED
    BY <1>1, <2>1, EndingAnIdle
<1>6. CASE ServerReadsDone
  <2>1. /\ toServer # <<>> /\ toServer[1].kind = "DONE" /\ toServer' = Tail(toServer)
        /\ server' = [server EXCEPT !.idling = FALSE]
    BY <1>1, <1>6 DEF ServerReadsDone, Reads
  <2>2. CASE server.idling
    <3>1. toClient' = Append(toClient, Say("OK", "IDLE"))
      BY <1>6, <2>2 DEF ServerReadsDone, Answers
    <3> QED
      BY <1>1, <2>1, <2>2, <3>1, EndingAnIdle
  <2>3. CASE ~server.idling
    <3>1. toClient' = Append(toClient, Say("BAD", NoTag))
      BY <1>6, <2>3 DEF ServerReadsDone, Answers
    <3>2. Served(server') /\ server'.working = server.working /\ (server'.idling <=> server.idling)
      BY <1>1, <2>1, <2>3 DEF Served
    <3> QED
      BY <1>1, <2>1, <2>3, <3>1, <3>2, SaysAside
  <2> QED
    BY <2>2, <2>3
<1>7. CASE ServerReadsCommand
  <2>1. /\ toServer # <<>> /\ toServer[1].kind \in {"command", "literal"} /\ ~server.idling
        /\ toServer' = Tail(toServer)
        /\ server' = [server EXCEPT !.working = @ \cup {toServer[1].tag},
                                    !.selected = @ /\ toServer[1].tag \notin {"SELECT", "CLOSE", "LOGOUT"}]
        /\ toClient' = toClient
           \/ (toClient' = Append(toClient, Say("CLOSED", NoTag)) /\ toServer[1].tag = "SELECT")
    BY <1>1, <1>7 DEF ServerReadsCommand, Reads, Answers
  <2>2. toServer[1].tag \in Tag /\ toServer[1].tag # "IDLE"
    <3>1. Idles(toServer)
      BY <1>1, WiredParts
    <3>2. 1 \in DOMAIN toServer /\ toServer[1] \in Line
      BY <1>1, <2>1, Tailed
    <3> QED
      BY <2>1, <3>1, <3>2 DEF Idles, Line
  <2>3. /\ Served(server') /\ (server'.idling <=> server.idling)
        /\ server'.working = server.working \cup {toServer[1].tag}
    BY <1>1, <2>1, <2>2 DEF Served
  <2> QED
    BY <1>1, <2>1, <2>3, ReadsCommand
<1>8. CASE ServerTakesLiteral
  <2>1. /\ toServer # <<>> /\ toServer[1].kind = "size" /\ ~server.idling
        /\ toServer' = Tail(toServer) /\ toClient' = Append(toClient, Say("+", NoTag))
        /\ server' = server
    BY <1>1, <1>8 DEF ServerTakesLiteral, Reads, Answers
  <2> QED
    BY <1>1, <2>1, TakesLiteral
<1>9. CASE ServerRefusesLiteral
  <2>1. /\ toServer # <<>> /\ toServer[1].kind = "size" /\ ~server.idling
        /\ toServer' = Tail(toServer) /\ toClient' = Append(toClient, Say("NO", toServer[1].tag))
        /\ server' = server
    BY <1>1, <1>9 DEF ServerRefusesLiteral, Reads, Answers
  <2> QED
    BY <1>1, <2>1, RefusesLiteral
<1>10. CASE ServerAnswers
  <2>1. PICK tag \in server.working :
          /\ toClient' = Append(toClient, Say("OK", tag)) /\ toServer' = toServer
          /\ server' = [server EXCEPT !.working = @ \ {tag}]
    BY <1>10 DEF ServerAnswers, Answers
  <2> QED
    BY <1>1, <2>1, AnswersCommand
<1>11. CASE ServerAnnounces
  <2>1. PICK f \in Arrivals :
          /\ toClient' = Append(toClient, Say("EXISTS", f)) /\ toServer' = toServer
          /\ server' = [server EXCEPT !.announced = @ \cup {f}]
    BY <1>11 DEF ServerAnnounces, Answers
  <2>2. Served(server') /\ server'.working = server.working /\ (server'.idling <=> server.idling)
    BY <1>1, <2>1 DEF Served
  <2> QED
    BY <1>1, <2>1, <2>2, SaysAside
<1> QED
  BY <1>3, <1>4, <1>5, <1>6, <1>7, <1>8, <1>9, <1>10, <1>11 DEF ServerActs, ServerReads

-----------------------------------------------------------------------------
(* The Parser: what it reads and what it writes                             *)

OfParser == {"cmdQueue", "idling", "waitForInitialIdle", "waitingForContinuation", "literalCommandTag",
             "respQueue", "posted", "handler"}

\* Nothing is posted but that queues may go on.
Woken(c, d) ==
    /\ More(c.posted, d.posted)
    /\ \A i \in DOMAIN d.posted :
         i \in DOMAIN c.posted \/ d.posted[i].event \in {"executeCommands", "responseReceived"}

\* The Parser has nothing to do with the tasks.
LEMMA ParserKeeps ==
    ASSUME NEW c, Typed(c), Good(c), Closing(c), Late(c), NEW d, But(c, d, OfParser),
           d.cmdQueue \in Seq(Command), d.respQueue \in Seq(Response), d.posted \in Seq(Posted),
           Order(d), Woken(c, d)
    PROVE  Typed(d) /\ Good(d) /\ Closing(d) /\ Late(d)
<1>1. Typed(d)
  BY DEF But, Fields, OfParser, Typed
<1>2. IsPosted(d, "terminate") => IsPosted(c, "terminate")
  BY DEF Woken, More, IsPosted
<1>3. Launch(d) /\ Duty(d)
  BY <1>2 DEF But, Fields, OfParser, Good, Launch, Duty, Nothing
<1>4. \A i \in DOMAIN d.posted : d.posted[i].event = "slotTaskDeleted" =>
           i \in DOMAIN c.posted /\ d.posted[i] = c.posted[i]
  BY DEF Woken, More
<1>5. /\ d.depending = c.depending /\ d.dependingAny = c.dependingAny /\ d.requested = c.requested
      /\ d.asked = c.asked /\ d.active = c.active /\ d.aborted = c.aborted /\ d.deleting = c.deleting
  BY DEF But, Fields, OfParser
<1>6. Stages(d)
  <2>1. Waiting(d) = Waiting(c)
    BY <1>5 DEF Waiting
  <2> QED
    BY <1>4, <1>5, <2>1 DEF Good, Stages
<1>7. Closing(d)
  BY DEF But, Fields, OfParser, Closing
<1>8. Late(d)
  BY <1>4, <1>5 DEF Late
<1> QED
  BY <1>1, <1>3, <1>6, <1>7, <1>8 DEF Good

\* Tokens of another Parser
LEMMA WokenTwice ==
    ASSUME NEW c, NEW b, NEW d, Woken(c, b), Woken(b, d), c.posted \in Seq(Posted),
           b.posted \in Seq(Posted), d.posted \in Seq(Posted)
    PROVE  Woken(c, d)
<1>1. /\ DOMAIN c.posted = 1 .. Len(c.posted) /\ Len(c.posted) \in Nat
      /\ DOMAIN b.posted = 1 .. Len(b.posted) /\ Len(b.posted) \in Nat
      /\ DOMAIN d.posted = 1 .. Len(d.posted) /\ Len(d.posted) \in Nat
  OBVIOUS
<1> QED
  BY <1>1 DEF Woken, More

\* An event of the event loop is posted, and no deletion.
LEMMA PostWakes ==
    ASSUME NEW c, Shape(c), c.posted \in Seq(Posted), NEW event \in {"executeCommands", "responseReceived"},
           NEW d, d = Post(c, event, NoTag)
    PROVE  But(c, d, {"posted"}) /\ d.posted \in Seq(Posted) /\ Woken(c, d) /\ IsPosted(d, event)
<1> DEFINE e == [event |-> event, task |-> NoTag]
           p == Append(c.posted, e)
<1>1. e \in Posted /\ e.event = event
  BY DEF Posted, Events
<1>2. d = [c EXCEPT !.posted = p]
  BY DEF Post
<1> HIDE DEF e
<1>3. /\ p \in Seq(Posted) /\ More(c.posted, p) /\ (\E i \in DOMAIN p : p[i] = e)
      /\ \A i \in DOMAIN p : i \in DOMAIN c.posted \/ p[i] = e
  BY <1>1, Appended DEF More
<1> HIDE DEF p
<1>4. But(c, d, {"posted"}) /\ d.posted = p
  BY <1>2 DEF Shape, But, Fields
<1> QED
  BY <1>1, <1>3, <1>4 DEF Woken, IsPosted

\* Nothing is posted.
LEMMA WokenSame ==
    ASSUME NEW c, NEW d, d.posted = c.posted, c.posted \in Seq(Posted)
    PROVE  Woken(c, d)
<1>1. DOMAIN c.posted = 1 .. Len(c.posted) /\ Len(c.posted) \in Nat
  OBVIOUS
<1> QED
  BY <1>1 DEF Woken, More

\* "+" is read: nobody waits any longer.
Freed(c) == [c EXCEPT !.waitingForContinuation = FALSE, !.literalCommandTag = NoTag]

\* handleContinuation(): "+" ends the wait for it.
LEMMA Continuing ==
    ASSUME NEW c, NEW ts, NEW tc, NEW s, Typed(c), Good(c), Wired(c, ts, tc, s), tc # <<>>,
           tc[1].kind = "+", NEW d, d = Continued(c)
    PROVE  /\ But(c, d, {"waitingForContinuation", "literalCommandTag", "waitForInitialIdle", "posted"})
           /\ ~d.waitingForContinuation /\ d.literalCommandTag = NoTag /\ ~d.waitForInitialIdle
           /\ d.posted \in Seq(Posted) /\ Woken(c, d) /\ IsPosted(d, "executeCommands")
<1>1. Shape(c) /\ c.posted \in Seq(Posted)
  BY DEF Typed
<1>2. tc \in Seq(Response)
  BY WiredParts
<1>3. Has(tc, "+")
  <2>1. 1 \in DOMAIN tc
    BY <1>2, Tailed
  <2> QED
    BY <2>1 DEF Has
<1>4. /\ c.waitForInitialIdle \/ c.waitingForContinuation
      /\ c.waitingForContinuation => ~c.waitForInitialIdle
      /\ ~c.waitingForContinuation => c.literalCommandTag = NoTag
  BY <1>3, WiredParts DEF Good, Order
<1>5. CASE c.waitingForContinuation
  <2> DEFINE b == Freed(c)
  <2>1. d = Post(b, "executeCommands", NoTag)
    BY <1>5 DEF Continued, Freed
  <2>2. /\ But(c, b, {"waitingForContinuation", "literalCommandTag"})
        /\ b.waitingForContinuation = FALSE /\ b.literalCommandTag = NoTag
    BY <1>1, ZenonT(60) DEF Shape, But, Fields, Freed
  <2> HIDE DEF b
  <2>3. Shape(b) /\ b.posted = c.posted /\ b.waitForInitialIdle = c.waitForInitialIdle
    BY <2>2 DEF But, Fields
  <2>4. But(b, d, {"posted"}) /\ d.posted \in Seq(Posted) /\ Woken(b, d) /\ IsPosted(d, "executeCommands")
    BY <1>1, <2>1, <2>3, PostWakes
  <2>5. Woken(c, d)
    BY <2>3, <2>4 DEF Woken
  <2>6. /\ But(c, d, {"waitingForContinuation", "literalCommandTag", "waitForInitialIdle", "posted"})
        /\ d.waitingForContinuation = FALSE /\ d.literalCommandTag = NoTag
        /\ d.waitForInitialIdle = c.waitForInitialIdle
    BY <2>2, <2>3, <2>4 DEF But, Fields
  <2> QED
    BY <1>4, <1>5, <2>4, <2>5, <2>6
<1>6. CASE ~c.waitingForContinuation
  <2> DEFINE b == [c EXCEPT !.waitForInitialIdle = FALSE]
  <2>1. d = Post(b, "executeCommands", NoTag)
    BY <1>4, <1>6 DEF Continued
  <2>2. But(c, b, {"waitForInitialIdle"}) /\ b.waitForInitialIdle = FALSE
    BY <1>1 DEF Shape, But, Fields
  <2> HIDE DEF b
  <2>3. Shape(b) /\ b.posted = c.posted
    BY <2>2 DEF But, Fields
  <2>4. But(b, d, {"posted"}) /\ d.posted \in Seq(Posted) /\ Woken(b, d) /\ IsPosted(d, "executeCommands")
    BY <1>1, <2>1, <2>3, PostWakes
  <2>5. Woken(c, d)
    BY <2>3, <2>4 DEF Woken
  <2>6. /\ But(c, d, {"waitingForContinuation", "literalCommandTag", "waitForInitialIdle", "posted"})
        /\ d.waitingForContinuation = c.waitingForContinuation /\ d.literalCommandTag = c.literalCommandTag
        /\ d.waitForInitialIdle = FALSE
    BY <2>2, <2>3, <2>4 DEF But, Fields
  <2> QED
    BY <1>4, <1>6, <2>4, <2>5, <2>6
<1> QED
  BY <1>5, <1>6

\* The client has one response less to read.
LEMMA ReadResponse ==
    ASSUME NEW tc \in Seq(Response), tc # <<>>, TypedResponses(tc), PlusOnce(tc), NEW uc, uc = Tail(tc)
    PROVE  /\ uc \in Seq(Response) /\ tc[1] \in Response /\ Head(tc) = tc[1] /\ RightTag(tc[1])
           /\ TypedResponses(uc) /\ PlusOnce(uc)
           /\ tc[1].kind = "+" => ~Has(uc, "+")
           /\ \A kind : Has(tc, kind) <=> Has(uc, kind) \/ tc[1].kind = kind
           /\ \A t : Refused(tc, t) <=> Refused(uc, t) \/ Refuses(tc[1], t)
           /\ EndsLater(tc) /\ tc[1].kind # "+" => EndsLater(uc) /\ tc[1] # Say("OK", "IDLE")
           /\ \A t : t # tc[1].tag => Same(About(tc, t), About(uc, t))
           /\ About(tc, tc[1].tag) # {} /\ (Single(About(tc, tc[1].tag)) => About(uc, tc[1].tag) = {})
<1>1. /\ uc \in Seq(Response) /\ Len(tc) \in Nat /\ DOMAIN tc = 1 .. Len(tc) /\ DOMAIN uc = 1 .. Len(tc) - 1
      /\ \A i \in DOMAIN uc : uc[i] = tc[i + 1] /\ i + 1 \in DOMAIN tc
      /\ 1 \in DOMAIN tc /\ tc[1] \in Response /\ Head(tc) = tc[1]
      /\ \A i \in DOMAIN tc : i # 1 => i - 1 \in DOMAIN uc /\ uc[i - 1] = tc[i]
  BY Tailed
<1>2. TypedResponses(uc) /\ RightTag(tc[1])
  BY <1>1 DEF TypedResponses, RightTag
<1>3. \A i \in DOMAIN uc : i \in Nat /\ i # 0
  BY <1>1
<1>4. PlusOnce(uc)
  <2> SUFFICES ASSUME NEW i \in DOMAIN uc, NEW j \in DOMAIN uc, uc[i].kind = "+", uc[j].kind = "+"
               PROVE  i = j
    BY DEF PlusOnce
  <2>1. i + 1 = j + 1
    BY <1>1 DEF PlusOnce
  <2> QED
    BY <1>3, <2>1
<1>5. tc[1].kind = "+" => ~Has(uc, "+")
  <2> SUFFICES ASSUME tc[1].kind = "+", NEW i \in DOMAIN uc, uc[i].kind = "+" PROVE FALSE
    BY DEF Has
  <2>1. i + 1 = 1
    BY <1>1 DEF PlusOnce
  <2> QED
    BY <1>3, <2>1
<1>6. \A kind : Has(tc, kind) <=> Has(uc, kind) \/ tc[1].kind = kind
  BY HasTail
<1>7. \A t : Refused(tc, t) <=> Refused(uc, t) \/ Refuses(tc[1], t)
  BY RefusedTail
<1>8. EndsLater(tc) /\ tc[1].kind # "+" => EndsLater(uc) /\ tc[1] # Say("OK", "IDLE")
  <2> SUFFICES ASSUME EndsLater(tc), tc[1].kind # "+" PROVE EndsLater(uc) /\ tc[1] # Say("OK", "IDLE")
    OBVIOUS
  <2>1. ASSUME NEW i \in DOMAIN uc, uc[i] = Say("OK", "IDLE")
        PROVE  \E k \in DOMAIN uc : k < i /\ uc[k].kind = "+"
    <3>1. PICK k \in DOMAIN tc : k < i + 1 /\ tc[k].kind = "+"
      BY <1>1, <2>1 DEF EndsLater
    <3>2. k # 1
      BY <3>1
    <3>3. k - 1 \in DOMAIN uc /\ uc[k - 1] = tc[k]
      BY <1>1, <3>2
    <3>4. k - 1 < i
      BY <1>1, <3>1, <2>1
    <3> QED
      BY <3>1, <3>3, <3>4
  <2>2. ASSUME tc[1] = Say("OK", "IDLE") PROVE FALSE
    <3>1. PICK k \in DOMAIN tc : k < 1
      BY <1>1, <2>2 DEF EndsLater
    <3> QED
      BY <1>1, <3>1
  <2> QED
    BY <2>1, <2>2 DEF EndsLater
<1>9. ASSUME NEW t, t # tc[1].tag PROVE Same(About(tc, t), About(uc, t))
  <2>1. tc[1] \notin Responses(t)
    BY <1>9 DEF Responses
  <2> QED
    BY <2>1, SameTail DEF About
<1>10. About(tc, tc[1].tag) # {} /\ (Single(About(tc, tc[1].tag)) => About(uc, tc[1].tag) = {})
  <2>1. tc[1] \in Responses(tc[1].tag)
    BY <1>1 DEF Responses
  <2> QED
    BY <2>1, AtTail DEF About
<1> QED
  BY <1>1, <1>2, <1>4, <1>5, <1>6, <1>7, <1>8, <1>9, <1>10

\* A step of the Parser moves what has tag x.
Passes(c, ts, tc, s, d, us, uc, x) ==
    /\ Tokens(c, ts, tc, s)
    /\ \A t \in Tracked \cup {"IDLE"} : t # x => Alike(c, ts, tc, s, d, us, uc, s, t)
    /\ x \in Tracked \cup {"IDLE"} => /\ Once(d, us, uc, s, x)
                                      /\ Somewhere(d, us, uc, s, x) <=> Somewhere(c, ts, tc, s, x)
    /\ Has(uc, "CLOSED") \/ Has(d.respQueue, "CLOSED") => Has(tc, "CLOSED") \/ Has(c.respQueue, "CLOSED")
    /\ But(c, d, OfParser)

\* Tokens is kept when a command or its answer goes from one place to another.
LEMMA TokensPassed ==
    ASSUME NEW c, NEW ts, NEW tc, NEW s, NEW d, NEW us, NEW uc, NEW x, Passes(c, ts, tc, s, d, us, uc, x)
    PROVE  Tokens(d, us, uc, s)
<1>1. /\ d.idleCommandRunning = c.idleCommandRunning /\ d.active = c.active /\ d.logout = c.logout
      /\ d.online = c.online /\ d.deleting = c.deleting /\ d.aborted = c.aborted
  BY DEF Passes, But, Fields, OfParser
<1>2. Has(uc, "CLOSED") \/ Has(d.respQueue, "CLOSED") =>
        Has(tc, "CLOSED") \/ Has(c.respQueue, "CLOSED") \/ d.aborted
  BY DEF Passes
<1>3. /\ Tokens(c, ts, tc, s)
      /\ \A t \in Tracked \cup {"IDLE"} : t # x => Alike(c, ts, tc, s, d, us, uc, s, t)
      /\ x \in Tracked \cup {"IDLE"} => /\ Once(d, us, uc, s, x)
                                        /\ Somewhere(d, us, uc, s, x) <=> Somewhere(c, ts, tc, s, x)
  BY DEF Passes
<1> QED
  BY <1>1, <1>2, <1>3, TokensMoved

\* A set of places is the same as itself.
LEMMA SameSelf == \A S : Same(S, S)
BY DEF Same

\* "+" comes to the wire's other side.
LEMMA WiredContinued ==
    ASSUME NEW c, NEW ts, NEW tc, NEW s, Typed(c), Good(c), Wired(c, ts, tc, s), tc # <<>>,
           tc[1].kind = "+", NEW uc, uc = Tail(tc), NEW d,
           But(c, d, {"waitingForContinuation", "literalCommandTag", "waitForInitialIdle", "posted"}),
           ~d.waitingForContinuation, d.literalCommandTag = NoTag, ~d.waitForInitialIdle
    PROVE  Wired(d, ts, uc, s)
<1>1. /\ ts \in Seq(Line) /\ tc \in Seq(Response) /\ Served(s)
      /\ TypedResponses(tc) /\ PlusOnce(tc)
      /\ Tokens(c, ts, tc, s)
  BY WiredParts
<1>2. /\ uc \in Seq(Response) /\ tc[1] \in Response /\ RightTag(tc[1])
      /\ TypedResponses(uc) /\ PlusOnce(uc) /\ ~Has(uc, "+")
      /\ \A kind : Has(tc, kind) <=> Has(uc, kind) \/ kind = "+"
      /\ \A t : t # tc[1].tag => Same(About(tc, t), About(uc, t))
  BY <1>1, ReadResponse
<1>3. \A t : Refused(tc, t) <=> Refused(uc, t)
  <2>1. \A t : ~Refuses(tc[1], t)
    BY DEF Refuses
  <2> QED
    BY <1>1, <2>1, RefusedTail
<1>4. /\ ~Has(ts, "IDLE") /\ ~Refused(tc, "IDLE") /\ ~Refused(c.respQueue, "IDLE") /\ ~Has(ts, "size")
      /\ \A t \in Tracked : ~Refused(tc, t)
  <2>1. Has(tc, "+")
    BY <1>2
  <2> QED
    BY <2>1, WiredParts
<1>5. SizesOf(ts, NoTag)
  BY <1>4 DEF SizesOf, Has
<1>6. /\ d.cmdQueue = c.cmdQueue /\ d.respQueue = c.respQueue /\ d.idling = c.idling
      /\ d.idleCommandRunning = c.idleCommandRunning /\ d.active = c.active /\ d.logout = c.logout
      /\ d.online = c.online /\ d.deleting = c.deleting /\ d.aborted = c.aborted
  BY DEF But, Fields
<1>7. tc[1].tag \notin Tracked \cup {"IDLE"}
  BY <1>2, OwnCommands DEF RightTag
<1>8. \A t \in Tracked \cup {"IDLE"} : Alike(c, ts, tc, s, d, ts, uc, s, t)
  <2> SUFFICES ASSUME NEW t \in Tracked \cup {"IDLE"} PROVE Alike(c, ts, tc, s, d, ts, uc, s, t)
    OBVIOUS
  <2>1. Same(About(tc, t), About(uc, t))
    BY <1>2, <1>7
  <2>2. Ordered(d, t) = Ordered(c, t) /\ Queued(d, uc, t) = Queued(c, tc, t)
    BY <1>3, <1>6 DEF Ordered, Queued
  <2> QED
    BY <1>6, <2>1, <2>2, SameSelf DEF Alike
<1>9. Tokens(d, ts, uc, s)
  <2>1. But(c, d, OfParser)
    BY DEF But, OfParser
  <2>2. Has(uc, "CLOSED") \/ Has(d.respQueue, "CLOSED") => Has(tc, "CLOSED") \/ Has(c.respQueue, "CLOSED")
    BY <1>2, <1>6
  <2>3. Passes(c, ts, tc, s, d, ts, uc, tc[1].tag)
    BY <1>1, <1>7, <1>8, <2>1, <2>2 DEF Passes
  <2> QED
    BY <2>3, TokensPassed
<1>10. /\ TypedResponses(d.respQueue) /\ ~Has(d.respQueue, "+") /\ Idles(ts) /\ DoneFollows(ts)
       /\ s.idling /\ ts # <<>> => ts[1].kind = "DONE"
       /\ (ts = <<>> /\ s.idling) \/ Ends(ts, "IDLE") => d.idling
       /\ SizeOnce(ts) /\ ~Refused(d.respQueue, "IDLE")
  BY <1>4, <1>6, WiredParts
<1>11. ~Has(ts, "IDLE") /\ ~Refused(uc, "IDLE") /\ \A t \in Tracked : ~Refused(uc, t)
  BY <1>3, <1>4
<1> QED
  BY <1>1, <1>2, <1>4, <1>5, <1>9, <1>10, <1>11, WiredParts

\* The queue p of responses is q and r.
Gained(q, r, p) ==
    /\ p \in Seq(Response) /\ TypedResponses(p) /\ ~Has(p, "+") /\ p # <<>>
    /\ \A kind : Has(p, kind) <=> Has(q, kind) \/ r.kind = kind
    /\ \A t : Refused(p, t) <=> Refused(q, t) \/ Refuses(r, t)
    /\ \A t : t # r.tag => Same(About(q, t), About(p, t))
    /\ About(q, r.tag) = {} => Single(About(p, r.tag)) /\ About(p, r.tag) # {}
    /\ (\A i \in DOMAIN q : q[i] # Say("OK", "IDLE")) /\ r # Say("OK", "IDLE") =>
         \A i \in DOMAIN p : p[i] # Say("OK", "IDLE")

\* The queue of responses has one more.
LEMMA ResponseMore ==
    ASSUME NEW q \in Seq(Response), TypedResponses(q), ~Has(q, "+"), NEW r \in Response, RightTag(r),
           r.kind # "+", NEW p, p = Append(q, r)
    PROVE  Gained(q, r, p)
<1>1. /\ p \in Seq(Response) /\ Len(q) \in Nat
      /\ DOMAIN q = 1 .. Len(q) /\ DOMAIN p = 1 .. Len(q) + 1
      /\ p[Len(q) + 1] = r /\ \A i \in DOMAIN q : p[i] = q[i]
  BY Appended
<1>2. /\ \A i \in DOMAIN p : i \in DOMAIN q \/ i = Len(q) + 1
      /\ Len(q) + 1 \in DOMAIN p
  BY <1>1
<1>3. TypedResponses(p)
  BY <1>1, <1>2 DEF TypedResponses, RightTag
<1>4. \A kind : Has(p, kind) <=> Has(q, kind) \/ r.kind = kind
  BY HasAppend
<1>5. \A t : Refused(p, t) <=> Refused(q, t) \/ Refuses(r, t)
  BY RefusedAppend
<1>6. ASSUME NEW t, t # r.tag PROVE Same(About(q, t), About(p, t))
  <2>1. r \notin Responses(t)
    BY <1>6 DEF Responses
  <2> QED
    BY <2>1, SameAppend DEF About
<1>7. About(q, r.tag) = {} => Single(About(p, r.tag)) /\ About(p, r.tag) # {}
  BY AnsweredOnce
<1>8. (\A i \in DOMAIN q : q[i] # Say("OK", "IDLE")) /\ r # Say("OK", "IDLE") =>
                \A i \in DOMAIN p : p[i] # Say("OK", "IDLE")
  BY <1>1, <1>2
<1>9. p # <<>>
  BY <1>2
<1> QED
  BY <1>1, <1>3, <1>4, <1>5, <1>6, <1>7, <1>8, <1>9 DEF Gained

\* A response joins the queue, and wakes responseReceived() when it is the only one.
LEMMA Receiving ==
    ASSUME NEW c, Typed(c), NEW r \in Response, NEW d, d = Received(c, r)
    PROVE  /\ But(c, d, {"respQueue", "posted"}) /\ d.respQueue = Append(c.respQueue, r)
           /\ d.posted \in Seq(Posted) /\ Woken(c, d)
           /\ c.respQueue = <<>> => IsPosted(d, "responseReceived")
<1> DEFINE q == Append(c.respQueue, r)
           b == [c EXCEPT !.respQueue = q]
<1>1. Shape(c) /\ c.posted \in Seq(Posted) /\ c.respQueue \in Seq(Response)
  BY DEF Typed
<1>2. Len(q) = 1 <=> c.respQueue = <<>>
  <2>1. Len(q) = Len(c.respQueue) + 1 /\ Len(c.respQueue) \in Nat /\ (c.respQueue = <<>> <=> Len(c.respQueue) = 0)
    BY <1>1
  <2> QED
    BY <2>1
<1>3. d = IF Len(b.respQueue) = 1 THEN Post(b, "responseReceived", NoTag) ELSE b
  BY DEF Received
<1> HIDE DEF q
<1>4. But(c, b, {"respQueue"}) /\ b.respQueue = q
  BY <1>1 DEF Shape, But, Fields
<1> HIDE DEF b
<1>5. Shape(b) /\ b.posted = c.posted
  BY <1>4 DEF But, Fields
<1>6. CASE Len(q) = 1
  <2>1. d = Post(b, "responseReceived", NoTag) /\ b.posted \in Seq(Posted)
    BY <1>1, <1>3, <1>4, <1>5, <1>6
  <2>2. But(b, d, {"posted"}) /\ d.posted \in Seq(Posted) /\ Woken(b, d) /\ IsPosted(d, "responseReceived")
    BY <1>5, <2>1, PostWakes
  <2>3. Woken(c, d)
    BY <1>5, <2>2 DEF Woken
  <2>4. But(c, d, {"respQueue", "posted"}) /\ d.respQueue = q
    BY <1>4, <2>2 DEF But, Fields
  <2> QED
    BY <2>2, <2>3, <2>4 DEF q
<1>7. CASE Len(q) # 1
  <2>1. d = b
    BY <1>3, <1>4, <1>7
  <2>2. Woken(c, d)
    BY <1>1, <1>5, <2>1, WokenSame
  <2>3. But(c, d, {"respQueue", "posted"}) /\ d.respQueue = q
    BY <1>4, <2>1 DEF But, Fields
  <2> QED
    BY <1>1, <1>2, <1>5, <1>7, <2>1, <2>2, <2>3 DEF q
<1> QED
  BY <1>6, <1>7

\* A literal which waits is the only one which may be refused.
LEMMA RefusedIs ==
    ASSUME NEW c, NEW ts, NEW tc, NEW s, Typed(c), Good(c), Wired(c, ts, tc, s),
           NEW x \in Tracked \cup {"IDLE"}, NEW i \in Ordered(c, x), i \notin Queued(c, tc, x)
    PROVE  c.waitingForContinuation /\ c.literalCommandTag = x /\ x \in Tasks
<1>1. i \in DOMAIN c.cmdQueue /\ c.cmdQueue[i] \in Commands(x) /\ c.cmdQueue[i].numberSent /\ Refused(tc, x)
  BY DEF Ordered, Queued, At
<1>2. c.cmdQueue[i].tag = x /\ c.cmdQueue[i].tag \in Tasks
  BY <1>1 DEF Commands, Good, Order
<1>3. x \in Tracked
  BY <1>2 DEF Tracked
<1> QED
  BY <1>1, <1>2, <1>3, WiredParts

\* Where the command is to which the first response belongs
LEMMA FirstAnswered ==
    ASSUME NEW c, NEW ts, NEW tc, NEW s, Wired(c, ts, tc, s), tc # <<>>,
           tc[1].tag \in Tracked \cup {"IDLE"}
    PROVE  LET x == tc[1].tag
           IN  /\ Single(Ordered(c, x)) /\ Single(About(tc, x))
               /\ Queued(c, tc, x) = {} /\ Sent(ts, x) = {} /\ ~Done(s, x) /\ About(c.respQueue, x) = {}
               /\ About(tc, x) # {} /\ About(Tail(tc), x) = {} /\ Somewhere(c, ts, tc, s, x)
<1> DEFINE x == tc[1].tag
<1>1. tc \in Seq(Response) /\ TypedResponses(tc) /\ PlusOnce(tc) /\ Once(c, ts, tc, s, x)
  BY WiredParts DEF Tokens
<1>2. About(tc, x) # {} /\ (Single(About(tc, x)) => About(Tail(tc), x) = {})
  BY <1>1, ReadResponse
<1> HIDE DEF x
<1> QED
  BY <1>1, <1>2 DEF Once, Somewhere, x

\* A response is queued.
LEMMA WiredReceived ==
    ASSUME NEW c, NEW ts, NEW tc, NEW s, Typed(c), Good(c), Wired(c, ts, tc, s), tc # <<>>,
           NEW r, r = tc[1], r.kind # "+", ~(c.waitingForContinuation /\ r.tag = c.literalCommandTag),
           NEW uc, uc = Tail(tc), NEW d, But(c, d, {"respQueue", "posted"}),
           d.respQueue = Append(c.respQueue, r)
    PROVE  Wired(d, ts, uc, s)
<1> DEFINE x == r.tag
<1>1. /\ ts \in Seq(Line) /\ tc \in Seq(Response) /\ Served(s)
      /\ TypedResponses(tc) /\ PlusOnce(tc) /\ Tokens(c, ts, tc, s)
      /\ c.respQueue \in Seq(Response) /\ TypedResponses(c.respQueue) /\ ~Has(c.respQueue, "+")
  BY WiredParts DEF Typed
<1>2. /\ uc \in Seq(Response) /\ r \in Response /\ RightTag(r)
      /\ TypedResponses(uc) /\ PlusOnce(uc)
      /\ \A kind : Has(tc, kind) <=> Has(uc, kind) \/ r.kind = kind
      /\ \A t : Refused(tc, t) <=> Refused(uc, t) \/ Refuses(r, t)
      /\ EndsLater(tc) => EndsLater(uc) /\ r # Say("OK", "IDLE")
      /\ \A t : t # x => Same(About(tc, t), About(uc, t))
  BY <1>1, ReadResponse
<1> DEFINE p == d.respQueue
           q == c.respQueue
<1>a. /\ q \in Seq(Response) /\ TypedResponses(q) /\ ~Has(q, "+") /\ p = Append(q, r)
      /\ r \in Response /\ RightTag(r) /\ r.kind # "+"
  BY <1>1, <1>2
<1> HIDE DEF p, q
<1>b. Gained(q, r, p)
  BY <1>a, ResponseMore
<1>3. /\ p \in Seq(Response) /\ TypedResponses(p) /\ ~Has(p, "+")
      /\ \A kind : Has(p, kind) <=> Has(c.respQueue, kind) \/ r.kind = kind
      /\ \A t : Refused(p, t) <=> Refused(c.respQueue, t) \/ Refuses(r, t)
      /\ \A t : t # x => Same(About(c.respQueue, t), About(p, t))
      /\ About(c.respQueue, x) = {} => Single(About(p, x)) /\ About(p, x) # {}
      /\ (\A i \in DOMAIN c.respQueue : c.respQueue[i] # Say("OK", "IDLE")) /\ r # Say("OK", "IDLE") =>
                \A i \in DOMAIN p : p[i] # Say("OK", "IDLE")
  BY <1>b DEF Gained, q
<1>4. Has(tc, "+") <=> Has(uc, "+")
  BY <1>2
<1>5. /\ d.cmdQueue = c.cmdQueue /\ d.idling = c.idling /\ d.waitForInitialIdle = c.waitForInitialIdle
      /\ d.waitingForContinuation = c.waitingForContinuation /\ d.literalCommandTag = c.literalCommandTag
  BY DEF But, Fields
<1> HIDE DEF x
<1>6. \A t \in Tracked \cup {"IDLE"} : t # x => Alike(c, ts, tc, s, d, ts, uc, s, t)
  <2> SUFFICES ASSUME NEW t \in Tracked \cup {"IDLE"}, t # x PROVE Alike(c, ts, tc, s, d, ts, uc, s, t)
    OBVIOUS
  <2>1. ~Refuses(r, t)
    BY DEF Refuses, x
  <2>2. Refused(tc, t) <=> Refused(uc, t)
    BY <1>2, <2>1
  <2>3. Ordered(d, t) = Ordered(c, t) /\ Queued(d, uc, t) = Queued(c, tc, t)
    BY <1>5, <2>2 DEF Ordered, Queued
  <2> QED
    BY <1>2, <1>3, <2>3, SameSelf DEF Alike, p
<1>7. x \in Tracked \cup {"IDLE"} => /\ Once(d, ts, uc, s, x)
                                     /\ Somewhere(d, ts, uc, s, x) <=> Somewhere(c, ts, tc, s, x)
  <2> SUFFICES ASSUME x \in Tracked \cup {"IDLE"}
               PROVE  /\ Once(d, ts, uc, s, x)
                      /\ Somewhere(d, ts, uc, s, x) <=> Somewhere(c, ts, tc, s, x)
    OBVIOUS
  <2>1. /\ Queued(c, tc, x) = {} /\ Sent(ts, x) = {} /\ ~Done(s, x) /\ About(c.respQueue, x) = {}
        /\ About(uc, x) = {} /\ Somewhere(c, ts, tc, s, x)
    BY FirstAnswered DEF x
  <2>2. Ordered(c, x) = {}
    <3> SUFFICES ASSUME NEW i \in Ordered(c, x) PROVE FALSE
      OBVIOUS
    <3>1. c.waitingForContinuation /\ c.literalCommandTag = x
      BY <2>1, RefusedIs
    <3> QED
      BY <3>1 DEF x
  <2>3. Ordered(d, x) = {} /\ Queued(d, uc, x) = {}
    BY <1>5, <2>2 DEF Ordered, Queued
  <2>4. Single(About(p, x)) /\ About(p, x) # {}
    BY <1>3, <2>1
  <2> QED
    BY <2>1, <2>3, <2>4, NoneSingle DEF Once, Somewhere, p
<1>8. Tokens(d, ts, uc, s)
  <2>1. But(c, d, OfParser)
    BY DEF But, OfParser
  <2>2. Has(uc, "CLOSED") \/ Has(d.respQueue, "CLOSED") => Has(tc, "CLOSED") \/ Has(c.respQueue, "CLOSED")
    BY <1>2, <1>3 DEF p
  <2>3. Passes(c, ts, tc, s, d, ts, uc, x)
    BY <1>1, <1>6, <1>7, <2>1, <2>2 DEF Passes
  <2> QED
    BY <2>3, TokensPassed
<1>9. Refused(uc, "IDLE") \/ Refused(p, "IDLE") => Refused(tc, "IDLE") \/ Refused(c.respQueue, "IDLE")
  BY <1>2, <1>3
<1>10. \A t : Refused(uc, t) => Refused(tc, t)
  BY <1>2
<1>11. d.waitForInitialIdle => (\A i \in DOMAIN p : p[i] # Say("OK", "IDLE")) /\ EndsLater(uc)
  <2>1. c.waitForInitialIdle =>
                   (\A i \in DOMAIN c.respQueue : c.respQueue[i] # Say("OK", "IDLE")) /\ EndsLater(tc)
    BY WiredParts
  <2> QED
    BY <1>2, <1>3, <1>5, <2>1
<1>12. /\ Idles(ts) /\ DoneFollows(ts)
       /\ s.idling /\ ts # <<>> => ts[1].kind = "DONE"
       /\ (ts = <<>> /\ s.idling) \/ Ends(ts, "IDLE") => d.idling
       /\ SizeOnce(ts) /\ SizesOf(ts, d.literalCommandTag)
       /\ Has(uc, "+") => d.waitForInitialIdle \/ d.waitingForContinuation
       /\ Has(ts, "IDLE") \/ Refused(uc, "IDLE") \/ Refused(p, "IDLE") =>
                   d.waitForInitialIdle /\ ~Has(uc, "+")
       /\ s.idling /\ d.waitForInitialIdle => Has(uc, "+")
       /\ Has(ts, "size") => d.waitingForContinuation /\ ~Has(uc, "+")
  BY <1>4, <1>5, <1>9, WiredParts
<1>13. /\ \A t \in Tracked : Refused(uc, t) =>
                   /\ d.waitingForContinuation /\ d.literalCommandTag = t
                   /\ ~Has(uc, "+") /\ ~Has(ts, "size")
       /\ IF d.waitingForContinuation
          THEN /\ d.cmdQueue # <<>> /\ d.cmdQueue[1].kind = "LITERAL" /\ d.cmdQueue[1].numberSent
               /\ d.literalCommandTag = d.cmdQueue[1].tag
          ELSE d.literalCommandTag = NoTag
  BY <1>4, <1>5, <1>10, WiredParts
<1> QED
  BY <1>1, <1>2, <1>3, <1>8, <1>11, <1>12, <1>13, WiredParts DEF p

\* The first command leaves the queue.
LEMMA OrderPopped ==
    ASSUME NEW c, Order(c), c.cmdQueue \in Seq(Command), c.cmdQueue # <<>>, NEW d,
           d.cmdQueue = Tail(c.cmdQueue), d.mIdling = c.mIdling, d.idling \in BOOLEAN,
           c.cmdQueue[1].kind = "IDLE" => d.idling,
           c.cmdQueue[1].kind = "IDLE_DONE" => ~d.idling,
           c.cmdQueue[1].kind \notin {"IDLE", "IDLE_DONE"} => d.idling = c.idling,
           d.waitForInitialIdle => d.idling, ~(d.waitingForContinuation /\ d.idling)
    PROVE  Order(d) /\ \A i \in DOMAIN d.cmdQueue : ~d.cmdQueue[i].numberSent
<1> DEFINE q == c.cmdQueue
           r == d.cmdQueue
<1>1. /\ Len(q) \in Nat /\ Len(q) # 0 /\ Len(r) = Len(q) - 1
      /\ DOMAIN q = 1 .. Len(q) /\ DOMAIN r = 1 .. Len(q) - 1
      /\ \A i \in DOMAIN r : r[i] = q[i + 1] /\ i + 1 \in DOMAIN q
      /\ 1 \in DOMAIN q
      /\ (r = <<>> <=> Len(q) = 1)
  BY Tailed
<1> HIDE DEF q, r
<1>2. /\ c.idling => q[1].kind = "IDLE_DONE"
      /\ q[1].kind = "IDLE_DONE" => c.idling
      /\ \A i \in DOMAIN q : i + 1 \in DOMAIN q => (q[i].kind = "IDLE" <=> q[i + 1].kind = "IDLE_DONE")
      /\ c.mIdling <=> q[Len(q)].kind = "IDLE"
      /\ \A i \in DOMAIN q :
           /\ q[i].numberSent => i = 1 /\ q[i].kind = "LITERAL"
           /\ q[i].kind \in {"IDLE", "IDLE_DONE"} <=> q[i].tag = "IDLE"
           /\ q[i].kind = "LITERAL" => q[i].tag \in Tasks
      /\ c.mIdling \in BOOLEAN /\ c.idling \in BOOLEAN
  BY DEF Order, EndsInIdle, q
<1>3. d.idling => q[1].kind = "IDLE"
  BY <1>2 DEF q
<1>4. r # <<>> => r[1] = q[2] /\ 1 + 1 \in DOMAIN q
  BY <1>1
<1>5. d.idling /\ r # <<>> => r[1].kind = "IDLE_DONE"
  BY <1>1, <1>2, <1>3, <1>4
<1>6. r # <<>> /\ r[1].kind = "IDLE_DONE" => d.idling
  BY <1>1, <1>2, <1>4 DEF q
<1>7. \A i \in DOMAIN r : i + 1 \in DOMAIN r => (r[i].kind = "IDLE" <=> r[i + 1].kind = "IDLE_DONE")
  <2> SUFFICES ASSUME NEW i \in DOMAIN r, i + 1 \in DOMAIN r
               PROVE  r[i].kind = "IDLE" <=> r[i + 1].kind = "IDLE_DONE"
    OBVIOUS
  <2>1. i + 1 \in DOMAIN q /\ (i + 1) + 1 \in DOMAIN q /\ r[i] = q[i + 1] /\ r[i + 1] = q[(i + 1) + 1]
    BY <1>1
  <2> QED
    BY <1>2, <2>1
<1>8. d.mIdling <=> EndsInIdle(d)
  <2>1. CASE r = <<>>
    <3>1. Len(q) = 1
      BY <1>1, <2>1
    <3>2. q[1].kind = "IDLE" <=> d.idling
      BY <1>3 DEF q
    <3> QED
      BY <1>2, <2>1, <3>1, <3>2 DEF EndsInIdle, r
  <2>2. CASE r # <<>>
    <3>1. Len(r) \in DOMAIN r /\ Len(r) + 1 = Len(q)
      BY <1>1, <2>2
    <3>2. r[Len(r)] = q[Len(q)]
      BY <1>1, <3>1
    <3> QED
      BY <1>2, <2>2, <3>2 DEF EndsInIdle, r
  <2> QED
    BY <2>1, <2>2
<1>9. \A i \in DOMAIN r :
           /\ ~r[i].numberSent
           /\ r[i].kind \in {"IDLE", "IDLE_DONE"} <=> r[i].tag = "IDLE"
           /\ r[i].kind = "LITERAL" => r[i].tag \in Tasks
  <2> SUFFICES ASSUME NEW i \in DOMAIN r
               PROVE  /\ ~r[i].numberSent
                      /\ r[i].kind \in {"IDLE", "IDLE_DONE"} <=> r[i].tag = "IDLE"
                      /\ r[i].kind = "LITERAL" => r[i].tag \in Tasks
    OBVIOUS
  <2>1. i + 1 \in DOMAIN q /\ r[i] = q[i + 1] /\ i + 1 # 1
    BY <1>1
  <2> QED
    BY <1>2, <2>1
<1> QED
  BY <1>2, <1>5, <1>6, <1>7, <1>8, <1>9 DEF Order, r

\* The literal is refused: its command leaves the queue unsent.
LEMMA WiredRefused ==
    ASSUME NEW c, NEW ts, NEW tc, NEW s, Typed(c), Good(c), Wired(c, ts, tc, s), tc # <<>>,
           NEW r, r = tc[1], r.kind # "+", c.waitingForContinuation, r.tag = c.literalCommandTag,
           NEW uc, uc = Tail(tc), NEW d,
           But(c, d, {"respQueue", "posted", "cmdQueue", "waitingForContinuation", "literalCommandTag"}),
           d.respQueue = Append(c.respQueue, r), d.cmdQueue = Tail(c.cmdQueue),
           ~d.waitingForContinuation, d.literalCommandTag = NoTag
    PROVE  Wired(d, ts, uc, s) /\ Order(d)
<1> DEFINE x == r.tag
           p == d.respQueue
           q == c.respQueue
<1>1. /\ ts \in Seq(Line) /\ tc \in Seq(Response) /\ Served(s)
      /\ TypedResponses(tc) /\ PlusOnce(tc) /\ Tokens(c, ts, tc, s)
      /\ q \in Seq(Response) /\ TypedResponses(q) /\ ~Has(q, "+") /\ c.cmdQueue \in Seq(Command)
  BY WiredParts DEF Typed
<1>2. /\ uc \in Seq(Response) /\ r \in Response /\ RightTag(r)
      /\ TypedResponses(uc) /\ PlusOnce(uc)
      /\ \A kind : Has(tc, kind) <=> Has(uc, kind) \/ r.kind = kind
      /\ \A t : Refused(tc, t) <=> Refused(uc, t) \/ Refuses(r, t)
      /\ \A t : t # x => Same(About(tc, t), About(uc, t))
  BY <1>1, ReadResponse
<1>a. q \in Seq(Response) /\ TypedResponses(q) /\ ~Has(q, "+") /\ p = Append(q, r) /\ r \in Response
      /\ RightTag(r) /\ r.kind # "+"
  BY <1>1, <1>2
<1> HIDE DEF p, q
<1>b. Gained(q, r, p)
  BY <1>a, ResponseMore
<1>3. /\ p \in Seq(Response) /\ TypedResponses(p) /\ ~Has(p, "+")
      /\ \A kind : Has(p, kind) <=> Has(q, kind) \/ r.kind = kind
      /\ \A t : Refused(p, t) <=> Refused(q, t) \/ Refuses(r, t)
      /\ \A t : t # x => Same(About(q, t), About(p, t))
      /\ About(q, x) = {} => Single(About(p, x)) /\ About(p, x) # {}
  BY <1>b DEF Gained
<1> HIDE DEF x
<1>4. /\ c.cmdQueue # <<>> /\ c.cmdQueue[1].kind = "LITERAL" /\ c.cmdQueue[1].numberSent
      /\ x = c.cmdQueue[1].tag /\ ~c.idling /\ ~c.waitForInitialIdle
  BY WiredParts DEF Good, Order, x
<1>5. 1 \in DOMAIN c.cmdQueue /\ c.cmdQueue[1] \in Command /\ c.cmdQueue[1] \in Commands(x)
  <2>1. 1 \in DOMAIN c.cmdQueue /\ c.cmdQueue[1] \in Command
    BY <1>1, <1>4, Tailed
  <2> QED
    BY <1>4, <2>1 DEF Commands
<1>6. x \in Tasks /\ x \in Tracked /\ x # "IDLE"
  <2>1. x \in Tasks
    BY <1>4, <1>5 DEF Good, Order
  <2> QED
    BY <2>1, OwnCommands DEF Tracked
<1>7. /\ d.idling = c.idling /\ d.waitForInitialIdle = c.waitForInitialIdle /\ d.mIdling = c.mIdling
      /\ Shape(d)
  BY DEF But, Fields
<1>8. Order(d) /\ \A i \in DOMAIN d.cmdQueue : ~d.cmdQueue[i].numberSent
  <2>1. Order(c) /\ d.idling \in BOOLEAN
    BY <1>7 DEF Good, Order
  <2> QED
    BY <1>1, <1>4, <1>7, <2>1, OrderPopped
<1>9. /\ Single(Ordered(c, x)) /\ Queued(c, tc, x) = {} /\ Sent(ts, x) = {} /\ ~Done(s, x)
      /\ About(q, x) = {} /\ About(uc, x) = {} /\ Somewhere(c, ts, tc, s, x)
  BY <1>6, FirstAnswered DEF x, q
<1>10. Refused(tc, x)
  <2>1. 1 \in Ordered(c, x)
    BY <1>5 DEF Ordered, At
  <2> QED
    BY <1>4, <1>9, <2>1 DEF Queued
<1>11. ~Has(tc, "+") /\ ~Has(ts, "size")
  BY <1>6, <1>10, WiredParts
<1>12. /\ ~Has(ts, "IDLE") /\ ~Refused(tc, "IDLE") /\ ~Refused(q, "IDLE")
       /\ \A t \in Tracked : Refused(tc, t) => t = x
  BY <1>4, WiredParts DEF q, x
<1>13. ~Refused(uc, x)
  BY <1>2, <1>9, RefusedAbout
<1>14. /\ ~Refused(uc, "IDLE") /\ ~Refused(p, "IDLE") /\ \A t \in Tracked : ~Refused(uc, t)
  <2>1. ~Refuses(r, "IDLE")
    BY <1>6 DEF Refuses, x
  <2> QED
    BY <1>2, <1>3, <1>12, <1>13, <2>1
<1>15. \A t \in Tracked \cup {"IDLE"} : t # x => Alike(c, ts, tc, s, d, ts, uc, s, t)
  <2> SUFFICES ASSUME NEW t \in Tracked \cup {"IDLE"}, t # x PROVE Alike(c, ts, tc, s, d, ts, uc, s, t)
    OBVIOUS
  <2>1. ~Refused(tc, t) /\ ~Refused(uc, t)
    BY <1>12, <1>14
  <2>2. Queued(d, uc, t) = Ordered(d, t) /\ Queued(c, tc, t) = Ordered(c, t)
    BY <2>1 DEF Queued
  <2>3. c.cmdQueue[1] \notin Commands(t)
    BY <1>4 DEF Commands
  <2>4. Same(Ordered(c, t), Ordered(d, t))
    BY <1>1, <1>4, <2>3, SameTail DEF Ordered
  <2>5. Queued(d, uc, t) = {} <=> Queued(c, tc, t) = {}
    BY <2>2, <2>4 DEF Same
  <2>6. Same(About(tc, t), About(uc, t)) /\ Same(About(c.respQueue, t), About(d.respQueue, t))
    BY <1>2, <1>3 DEF p, q
  <2> QED
    BY <2>4, <2>5, <2>6, SameSelf DEF Alike
<1>16. Once(d, ts, uc, s, x) /\ Somewhere(d, ts, uc, s, x)
  <2>1. Ordered(d, x) = {}
    BY <1>1, <1>4, <1>5, <1>9, AtTail DEF Ordered
  <2>2. Queued(d, uc, x) = {}
    BY <2>1 DEF Queued
  <2>3. Single(About(p, x)) /\ About(p, x) # {}
    BY <1>3, <1>9
  <2> QED
    BY <1>9, <2>1, <2>2, <2>3, NoneSingle DEF Once, Somewhere, p
<1>17. Tokens(d, ts, uc, s)
  <2>1. But(c, d, OfParser)
    BY DEF But, OfParser
  <2>2. Has(uc, "CLOSED") \/ Has(d.respQueue, "CLOSED") => Has(tc, "CLOSED") \/ Has(c.respQueue, "CLOSED")
    BY <1>2, <1>3 DEF p, q
  <2>3. Passes(c, ts, tc, s, d, ts, uc, x)
    BY <1>1, <1>9, <1>15, <1>16, <2>1, <2>2 DEF Passes
  <2> QED
    BY <2>3, TokensPassed
<1>18. /\ Idles(ts) /\ DoneFollows(ts)
       /\ s.idling /\ ts # <<>> => ts[1].kind = "DONE"
       /\ (ts = <<>> /\ s.idling) \/ Ends(ts, "IDLE") => d.idling
       /\ SizeOnce(ts)
  BY <1>7, WiredParts
<1>19. SizesOf(ts, NoTag) /\ ~Has(uc, "+")
  BY <1>2, <1>11 DEF SizesOf, Has
<1>20. ~d.waitForInitialIdle
  BY <1>4, <1>7
<1>21. Wired(d, ts, uc, s)
  BY <1>1, <1>2, <1>3, <1>11, <1>12, <1>14, <1>17, <1>18, <1>19, <1>20, WiredParts DEF p
<1> QED
  BY <1>8, <1>21

\* What was posted is still posted.
LEMMA PostedKept ==
    ASSUME NEW c, NEW d, Woken(c, d), NEW event, IsPosted(c, event)
    PROVE  IsPosted(d, event)
BY DEF Woken, More, IsPosted

\* The Parser has done something, and comes to rest or goes on.
LEMMA ParserSafe ==
    ASSUME NEW c, NEW ts, NEW tc, NEW s, Typed(c), Good(c), Closing(c), Late(c), c.online, c.failed = {},
           NEW d, But(c, d, OfParser), d.cmdQueue \in Seq(Command), d.respQueue \in Seq(Response),
           d.posted \in Seq(Posted), Order(d), Woken(c, d), Wired(d, ts, tc, s),
           d.handler \in {"none", "executeCommands"},
           MayExecute(d) => AwaitedBy(d, "executeCommands"),
           d.respQueue # <<>> => IsPosted(d, "responseReceived")
    PROVE  Safe(d, ts, tc, s)
<1>1. Typed(d) /\ Good(d) /\ Closing(d) /\ Late(d)
  BY ParserKeeps
<1>2. d.online /\ d.failed = {}
  BY DEF But, Fields, OfParser
<1>3. Awake(d)
  BY DEF Awake, AwaitedBy
<1> QED
  BY <1>1, <1>2, <1>3 DEF Safe, Fine, Holds

\* The command of a refused literal is dropped.
Unsaid(c) == [c EXCEPT !.cmdQueue = Tail(@), !.literalCommandTag = NoTag, !.waitingForContinuation = FALSE]
OfLiteral == {"cmdQueue", "waitingForContinuation", "literalCommandTag"}

\* The fields which a refused literal changes
LEMMA UnsaidFields ==
    ASSUME NEW c, Shape(c), NEW d, d = Unsaid(c)
    PROVE  /\ But(c, d, OfLiteral) /\ d.cmdQueue = Tail(c.cmdQueue)
           /\ d.literalCommandTag = NoTag /\ ~d.waitingForContinuation
BY ZenonT(60) DEF Shape, But, Fields, Unsaid, OfLiteral

\* Parser::queueResponse(): a response, a refused literal or IDLE
LEMMA QueueingResponse ==
    ASSUME NEW c, NEW ts, NEW tc, NEW s, Typed(c), Good(c), Closing(c), Late(c), c.online, c.failed = {},
           c.handler = "none", Awake(c), Wired(c, ts, tc, s), tc # <<>>, tc[1].kind # "+",
           NEW d, d = queueResponse(c, tc[1])
    PROVE  Safe(d, ts, Tail(tc), s)
<1> DEFINE r == tc[1]
           b == Received(c, r)
<1>1. r \in Response
  BY WiredParts, Tailed
<1>2. b = Received(c, r) /\ r = tc[1]
  OBVIOUS
<1>3. d = IF c.waitingForContinuation /\ r.tag = c.literalCommandTag
          THEN Post(Unsaid(b), "executeCommands", NoTag) ELSE b
  BY DEF queueResponse, Popped, Unsaid
<1> HIDE DEF b, r
<1>4. /\ But(c, b, {"respQueue", "posted"}) /\ b.respQueue = Append(c.respQueue, r)
      /\ b.posted \in Seq(Posted) /\ Woken(c, b)
      /\ c.respQueue = <<>> => IsPosted(b, "responseReceived")
  BY <1>1, <1>2, Receiving
<1>5. b.respQueue \in Seq(Response) /\ c.cmdQueue \in Seq(Command) /\ c.posted \in Seq(Posted)
  <2>1. c.respQueue \in Seq(Response)
    BY DEF Typed
  <2> QED
    BY <1>1, <1>4, <2>1, Appended DEF Typed
<1>6. IsPosted(b, "responseReceived")
  <2>1. c.respQueue # <<>> => IsPosted(c, "responseReceived")
    BY DEF Awake, AwaitedBy
  <2> QED
    BY <1>4, <2>1, PostedKept
<1>7. /\ b.cmdQueue = c.cmdQueue /\ b.handler = c.handler /\ b.mIdling = c.mIdling /\ b.idling = c.idling
      /\ b.waitForInitialIdle = c.waitForInitialIdle
      /\ b.waitingForContinuation = c.waitingForContinuation /\ Shape(b)
  BY <1>4 DEF But, Fields
<1>8. CASE c.waitingForContinuation /\ r.tag = c.literalCommandTag
  <2> DEFINE u == Unsaid(b)
  <2>1. d = Post(u, "executeCommands", NoTag) /\ u = Unsaid(b)
    BY <1>3, <1>8
  <2> HIDE DEF u
  <2>2. /\ But(b, u, OfLiteral) /\ u.cmdQueue = Tail(b.cmdQueue)
        /\ u.literalCommandTag = NoTag /\ ~u.waitingForContinuation
    BY <1>7, <2>1, UnsaidFields
  <2>3. Shape(u) /\ u.posted = b.posted
    BY <2>2 DEF But, Fields, OfLiteral
  <2>4. But(u, d, {"posted"}) /\ d.posted \in Seq(Posted) /\ Woken(u, d) /\ IsPosted(d, "executeCommands")
    BY <1>4, <2>1, <2>3, PostWakes
  <2>5. /\ But(c, d, {"respQueue", "posted", "cmdQueue", "waitingForContinuation", "literalCommandTag"})
        /\ d.respQueue = Append(c.respQueue, r) /\ d.cmdQueue = Tail(c.cmdQueue)
        /\ ~d.waitingForContinuation /\ d.literalCommandTag = NoTag
        /\ d.respQueue = b.respQueue /\ d.handler = c.handler
    <3>1. /\ But(c, u, {"respQueue", "posted", "cmdQueue", "waitingForContinuation", "literalCommandTag"})
          /\ u.respQueue = b.respQueue /\ u.handler = c.handler
      BY <1>4, <1>7, <2>2 DEF But, Fields, OfLiteral
    <3>2. /\ d.cmdQueue = u.cmdQueue /\ d.respQueue = u.respQueue /\ d.handler = u.handler
          /\ d.waitingForContinuation = u.waitingForContinuation
          /\ d.literalCommandTag = u.literalCommandTag
      BY <2>4 DEF But, Fields
    <3>3. But(c, d, {"respQueue", "posted", "cmdQueue", "waitingForContinuation", "literalCommandTag"})
      BY <2>4, <3>1 DEF But
    <3> QED
      BY <1>4, <1>7, <2>2, <3>1, <3>2, <3>3
  <2>6. Wired(d, ts, Tail(tc), s) /\ Order(d)
    BY <1>2, <1>8, <2>5, WiredRefused
  <2>7. Woken(b, d) /\ Woken(c, d)
    <3>1. Woken(b, d)
      BY <2>3, <2>4 DEF Woken
    <3> QED
      BY <1>4, <1>5, <2>4, <3>1, WokenTwice
  <2>8. IsPosted(d, "responseReceived")
    BY <1>6, <2>7, PostedKept
  <2>9. d.cmdQueue \in Seq(Command)
    <3>1. c.cmdQueue # <<>>
      BY <1>8, WiredParts
    <3> QED
      BY <1>5, <2>5, <3>1, Tailed
  <2>10. But(c, d, OfParser)
    BY <2>5 DEF But, OfParser
  <2> QED
    BY <1>5, <2>4, <2>5, <2>6, <2>7, <2>8, <2>9, <2>10, ParserSafe DEF AwaitedBy
<1>9. CASE ~(c.waitingForContinuation /\ r.tag = c.literalCommandTag)
  <2>1. d = b
    BY <1>3, <1>9
  <2>2. Wired(d, ts, Tail(tc), s)
    BY <1>2, <1>4, <1>9, <2>1, WiredReceived
  <2>3. Order(d)
    BY <1>7, <2>1, OrderSame DEF Good
  <2>4. But(c, d, OfParser)
    BY <1>4, <2>1 DEF But, OfParser
  <2>5. MayExecute(d) => AwaitedBy(d, "executeCommands")
    <3>1. MayExecute(d) => IsPosted(c, "executeCommands")
      BY <1>7, <2>1 DEF MayExecute, Awake, AwaitedBy
    <3> QED
      BY <1>4, <2>1, <3>1, PostedKept DEF AwaitedBy
  <2>6. /\ d.handler = "none" /\ d.cmdQueue \in Seq(Command) /\ d.respQueue \in Seq(Response)
        /\ d.posted \in Seq(Posted) /\ Woken(c, d) /\ IsPosted(d, "responseReceived")
    BY <1>4, <1>5, <1>6, <1>7, <2>1
  <2> QED
    BY <2>2, <2>3, <2>4, <2>5, <2>6, ParserSafe
<1> QED
  BY <1>8, <1>9

\* The step handleReadyRead()
LEMMA ReadStep ==
    ASSUME HandoverInv, handleReadyRead
    PROVE  HandoverInv'
<1> DEFINE c == client
           d == client'
<1>1. /\ Resting /\ c.online /\ toClient # <<>> /\ toClient' = Tail(toClient)
      /\ toServer' = toServer /\ server' = server
      /\ d = IF Head(toClient).kind = "+" THEN Continued(c) ELSE queueResponse(c, Head(toClient))
  BY DEF handleReadyRead
<1>2. /\ Holds(c, toServer, toClient, server) /\ c.failed = {} /\ c.handler = "none"
      /\ Typed(c) /\ Good(c) /\ Closing(c) /\ Late(c)
  BY <1>1, AtRest
<1>3. Awake(c) /\ Wired(c, toServer, toClient, server)
  BY <1>1, <1>2 DEF Holds
<1>4. Head(toClient) = toClient[1]
  BY <1>1, <1>3, WiredParts, Tailed
<1> HIDE DEF c, d
<1>5. Safe(d, toServer, Tail(toClient), server)
  <2>1. CASE toClient[1].kind = "+"
    <3>1. d = Continued(c)
      BY <1>1, <1>4, <2>1
    <3>2. /\ But(c, d, {"waitingForContinuation", "literalCommandTag", "waitForInitialIdle", "posted"})
          /\ ~d.waitingForContinuation /\ d.literalCommandTag = NoTag /\ ~d.waitForInitialIdle
          /\ d.posted \in Seq(Posted) /\ Woken(c, d) /\ IsPosted(d, "executeCommands")
      BY <1>1, <1>2, <1>3, <2>1, <3>1, Continuing
    <3>3. Wired(d, toServer, Tail(toClient), server)
      BY <1>1, <1>2, <1>3, <2>1, <3>2, WiredContinued
    <3>4. /\ d.cmdQueue = c.cmdQueue /\ d.respQueue = c.respQueue /\ d.handler = c.handler
          /\ d.idling = c.idling /\ d.mIdling = c.mIdling
      BY <3>2 DEF But, Fields
    <3>5. Order(d)
      BY <1>2, <3>2, <3>4 DEF Good, Order, EndsInIdle
    <3>6. But(c, d, OfParser)
      BY <3>2 DEF But, OfParser
    <3>7. d.respQueue # <<>> => IsPosted(d, "responseReceived")
      <4>1. c.respQueue # <<>> => IsPosted(c, "responseReceived")
        BY <1>1, <1>2, <1>3 DEF Awake, AwaitedBy
      <4> QED
        BY <3>2, <3>4, <4>1, PostedKept
    <3>8. d.cmdQueue \in Seq(Command) /\ d.respQueue \in Seq(Response)
      BY <1>2, <3>4 DEF Typed
    <3>9. d.handler \in {"none", "executeCommands"} /\ (MayExecute(d) => AwaitedBy(d, "executeCommands"))
      BY <1>2, <3>2, <3>4 DEF AwaitedBy
    <3> QED
      BY <1>1, <1>2, <3>2, <3>3, <3>5, <3>6, <3>7, <3>8, <3>9, ParserSafe
  <2>2. CASE toClient[1].kind # "+"
    <3>1. d = queueResponse(c, toClient[1])
      BY <1>1, <1>4, <2>2
    <3> QED
      BY <1>1, <1>2, <1>3, <2>2, <3>1, QueueingResponse
  <2> QED
    BY <2>1, <2>2
<1> QED
  BY <1>1, <1>5 DEF HandoverInv, IdlingServerGetsDone, d

\* A handler of a queue goes on, or starts: it is not yet posted again.
LEMMA Turn ==
    ASSUME HandoverInv, NEW event \in {"executeCommands", "responseReceived"}, Handling(event),
           NEW c, c = Taken
    PROVE  /\ Typed(c) /\ Good(c) /\ Closing(c) /\ Late(c) /\ c.online /\ c.failed = {}
           /\ Wired(c, toServer, toClient, server) /\ c.cmdQueue = client.cmdQueue
           /\ c.respQueue = client.respQueue
           /\ event = "executeCommands" /\ c.respQueue # <<>> => IsPosted(c, "responseReceived")
           /\ event = "responseReceived" /\ MayExecute(c) => IsPosted(c, "executeCommands")
<1>1. Sound /\ Holds(client, toServer, toClient, server) /\ client.failed = {}
  BY DEF HandoverInv, Safe, Handling, Resting, Sound
<1>2. client.online
  BY <1>1 DEF Holds, Over, Handling, Resting
<1>3. /\ Typed(client) /\ Good(client) /\ Closing(client) /\ Late(client)
      /\ Wired(client, toServer, toClient, server)
      /\ MayExecute(client) => AwaitedBy(client, "executeCommands")
      /\ client.respQueue # <<>> => AwaitedBy(client, "responseReceived")
  BY <1>1, <1>2 DEF Holds, Awake
<1>4. CASE client.handler # "none"
  <2>1. c = client /\ client.handler = event
    BY <1>4 DEF Taken, Handling, Resting
  <2> QED
    BY <1>1, <1>2, <1>3, <2>1 DEF AwaitedBy
<1>5. CASE client.handler = "none"
  <2>1. c = EventTaken(client) /\ client.posted # <<>> /\ Head(client.posted).event = event
    BY <1>5 DEF Taken, Handling, EventTaken
  <2>2. /\ Typed(c) /\ Good(c) /\ Closing(c) /\ Late(c) /\ But(client, c, {"posted"})
        /\ \A e : IsPosted(client, e) /\ Head(client.posted).event # e => IsPosted(c, e)
    BY <1>3, <2>1, TakingEvent
  <2>3. /\ c.cmdQueue = client.cmdQueue /\ c.respQueue = client.respQueue /\ c.idling = client.idling
        /\ c.waitForInitialIdle = client.waitForInitialIdle
        /\ c.waitingForContinuation = client.waitingForContinuation
        /\ c.literalCommandTag = client.literalCommandTag
        /\ c.idleCommandRunning = client.idleCommandRunning /\ c.active = client.active
        /\ c.logout = client.logout /\ c.online = client.online /\ c.deleting = client.deleting
        /\ c.aborted = client.aborted /\ c.failed = client.failed
    BY <2>2 DEF But, Fields
  <2>4. Wired(c, toServer, toClient, server)
    BY <1>3, <2>3, WireSame
  <2>5. MayExecute(c) => MayExecute(client)
    BY <2>3 DEF MayExecute
  <2>6. /\ event = "executeCommands" /\ c.respQueue # <<>> => IsPosted(c, "responseReceived")
        /\ event = "responseReceived" /\ MayExecute(c) => IsPosted(c, "executeCommands")
    BY <1>3, <1>5, <2>1, <2>2, <2>3, <2>5 DEF AwaitedBy
  <2> QED
    BY <1>1, <1>2, <2>2, <2>3, <2>4, <2>6
<1> QED
  BY <1>4, <1>5

\* The client writes one line more.
LEMMA WriteLine ==
    ASSUME NEW ts \in Seq(Line), NEW line \in Line, Idles(ts), ~Has(ts, "IDLE"), ~Has(ts, "size"),
           line.kind \in {"IDLE", "DONE"} <=> line.tag = "IDLE", NEW us, us = Append(ts, line)
    PROVE  /\ us \in Seq(Line) /\ Idles(us) /\ DoneFollows(us) /\ SizeOnce(us) /\ us # <<>>
           /\ \A kind : Ends(us, kind) <=> line.kind = kind
           /\ \A kind : Has(us, kind) <=> Has(ts, kind) \/ line.kind = kind
           /\ us[1] = IF ts = <<>> THEN line ELSE ts[1]
           /\ \A tag : (line.kind = "size" => line.tag = tag) => SizesOf(us, tag)
<1>1. /\ us \in Seq(Line) /\ Len(ts) \in Nat /\ Len(us) = Len(ts) + 1
      /\ DOMAIN ts = 1 .. Len(ts) /\ DOMAIN us = 1 .. Len(ts) + 1
      /\ us[Len(ts) + 1] = line /\ (\A i \in DOMAIN ts : us[i] = ts[i])
      /\ us # <<>> /\ (ts = <<>> <=> Len(ts) = 0)
  BY Appended
<1>2. /\ \A i \in DOMAIN us : i \in DOMAIN ts \/ i = Len(ts) + 1
      /\ Len(ts) + 1 \in DOMAIN us
  BY <1>1
<1>3. \A i \in DOMAIN ts : ts[i].kind \notin {"IDLE", "size"}
  BY DEF Has
<1>4. Idles(us)
  BY <1>1, <1>2 DEF Idles
<1>5. DoneFollows(us)
  <2> SUFFICES ASSUME NEW i \in DOMAIN us, i + 1 \in DOMAIN us PROVE us[i].kind # "IDLE"
    BY DEF DoneFollows
  <2>1. i \in DOMAIN ts
    BY <1>1
  <2> QED
    BY <1>1, <1>3, <2>1
<1>6. SizeOnce(us)
  BY <1>1, <1>2, <1>3 DEF SizeOnce
<1>7. \A kind : Ends(us, kind) <=> line.kind = kind
  BY <1>1 DEF Ends
<1>8. \A kind : Has(us, kind) <=> Has(ts, kind) \/ line.kind = kind
  BY HasAppend
<1>9. us[1] = IF ts = <<>> THEN line ELSE ts[1]
  <2>1. ts # <<>> => 1 \in DOMAIN ts
    BY <1>1
  <2> QED
    BY <1>1, <2>1
<1>10. \A tag : (line.kind = "size" => line.tag = tag) => SizesOf(us, tag)
  BY <1>1, <1>2, <1>3 DEF SizesOf
<1> QED
  BY <1>1, <1>4, <1>5, <1>6, <1>7, <1>8, <1>9, <1>10

Doned(c) == [Popped(c) EXCEPT !.idling = FALSE]
Idled(c) == [Popped(c) EXCEPT !.idling = TRUE, !.waitForInitialIdle = TRUE]
Begun(c) == [c EXCEPT !.cmdQueue[1].numberSent = TRUE, !.waitingForContinuation = TRUE,
                      !.literalCommandTag = c.cmdQueue[1].tag]

\* What is known when a command may be executed
LEMMA Executing ==
    ASSUME NEW c, NEW ts, NEW tc, NEW s, Typed(c), Good(c), Wired(c, ts, tc, s), MayExecute(c)
    PROVE  LET cmd == c.cmdQueue[1]
           IN  /\ cmd \in Command /\ Head(c.cmdQueue) = cmd /\ 1 \in DOMAIN c.cmdQueue
               /\ c.cmdQueue \in Seq(Command) /\ c.cmdQueue # <<>>
               /\ c.idling <=> cmd.kind = "IDLE_DONE"
               /\ cmd.kind \in {"IDLE", "IDLE_DONE"} <=> cmd.tag = "IDLE"
               /\ cmd.numberSent => cmd.kind = "LITERAL"
               /\ cmd.kind = "LITERAL" => cmd.tag \in Tasks
               /\ ~c.waitForInitialIdle /\ ~c.waitingForContinuation /\ c.literalCommandTag = NoTag
               /\ ~Has(ts, "IDLE") /\ ~Has(ts, "size") /\ ~Has(tc, "+")
               /\ \A t \in Tracked \cup {"IDLE"} : ~Refused(tc, t)
               /\ ~Refused(c.respQueue, "IDLE")
               /\ \A t \in Tracked \cup {"IDLE"} : Queued(c, tc, t) = Ordered(c, t)
<1> DEFINE cmd == c.cmdQueue[1]
<1>1. c.cmdQueue \in Seq(Command) /\ c.cmdQueue # <<>> /\ ~c.waitForInitialIdle /\ ~c.waitingForContinuation
  BY DEF MayExecute, Typed
<1>2. cmd \in Command /\ Head(c.cmdQueue) = cmd /\ 1 \in DOMAIN c.cmdQueue
  BY <1>1, Tailed
<1>3. /\ c.literalCommandTag = NoTag
      /\ ~Has(ts, "IDLE") /\ ~Has(ts, "size") /\ ~Has(tc, "+")
      /\ ~Refused(tc, "IDLE") /\ ~Refused(c.respQueue, "IDLE")
      /\ \A t \in Tracked : ~Refused(tc, t)
  BY <1>1, WiredParts
<1>4. \A t \in Tracked \cup {"IDLE"} : Queued(c, tc, t) = Ordered(c, t)
  BY <1>3 DEF Queued
<1>5. /\ c.idling <=> cmd.kind = "IDLE_DONE"
      /\ cmd.kind \in {"IDLE", "IDLE_DONE"} <=> cmd.tag = "IDLE"
      /\ cmd.numberSent => cmd.kind = "LITERAL"
      /\ cmd.kind = "LITERAL" => cmd.tag \in Tasks
  BY <1>1, <1>2 DEF Good, Order
<1> QED
  BY <1>1, <1>2, <1>3, <1>4, <1>5

\* Parser::executeACommand(): its three outcomes
LEMMA Executes ==
    ASSUME NEW c, Typed(c), NEW cmd \in Command, cmd = c.cmdQueue[1], c.cmdQueue # <<>>,
           c.idling <=> cmd.kind = "IDLE_DONE", cmd.numberSent => cmd.kind = "LITERAL",
           c.literalCommandTag = NoTag
    PROVE  LET d == executeACommand(c)
           IN  /\ cmd.kind = "IDLE_DONE" => d = Doned(c)
               /\ cmd.kind = "ATOM" \/ cmd.numberSent => d = Popped(c)
               /\ cmd.kind = "LITERAL" /\ ~cmd.numberSent => d = Begun(c)
               /\ cmd.kind = "IDLE" => d = Idled(c)
<1>1. Head(c.cmdQueue) = cmd
  BY Tailed DEF Typed
<1>2. cmd.kind = "IDLE_DONE" => executeACommand(c) = Doned(c)
  BY <1>1 DEF executeACommand, Check, Doned
<1>3. cmd.kind = "ATOM" \/ cmd.numberSent => executeACommand(c) = Popped(c)
  BY <1>1 DEF executeACommand, Check
<1>4. cmd.kind = "LITERAL" /\ ~cmd.numberSent => executeACommand(c) = Begun(c)
  BY <1>1 DEF executeACommand, Check, Begun
<1>5. cmd.kind = "IDLE" => executeACommand(c) = Idled(c)
  BY <1>1 DEF executeACommand, Check, Idled
<1> QED
  BY <1>2, <1>3, <1>4, <1>5

\* The fields which they change
LEMMA ExecutedFields ==
    ASSUME NEW c, Shape(c)
    PROVE  /\ /\ But(c, Doned(c), {"cmdQueue", "idling"}) /\ Doned(c).cmdQueue = Tail(c.cmdQueue)
              /\ Doned(c).idling = FALSE
           /\ But(c, Popped(c), {"cmdQueue"}) /\ Popped(c).cmdQueue = Tail(c.cmdQueue)
           /\ /\ But(c, Idled(c), {"cmdQueue", "idling", "waitForInitialIdle"})
              /\ Idled(c).cmdQueue = Tail(c.cmdQueue) /\ Idled(c).idling = TRUE
              /\ Idled(c).waitForInitialIdle = TRUE
<1>1. But(c, Popped(c), {"cmdQueue"}) /\ Popped(c).cmdQueue = Tail(c.cmdQueue)
  BY DEF Shape, But, Fields, Popped
<1> DEFINE p == Popped(c)
<1>2. Shape(p)
  BY <1>1 DEF But
<1> HIDE DEF p
<1>3. But(p, [p EXCEPT !.idling = FALSE], {"idling"}) /\ [p EXCEPT !.idling = FALSE].idling = FALSE
  BY <1>2 DEF Shape, But, Fields
<1>4. /\ But(p, [p EXCEPT !.idling = TRUE, !.waitForInitialIdle = TRUE], {"idling", "waitForInitialIdle"})
      /\ [p EXCEPT !.idling = TRUE, !.waitForInitialIdle = TRUE].idling = TRUE
      /\ [p EXCEPT !.idling = TRUE, !.waitForInitialIdle = TRUE].waitForInitialIdle = TRUE
  BY <1>2, ZenonT(60) DEF Shape, But, Fields
<1>5. Doned(c) = [p EXCEPT !.idling = FALSE]
  BY DEF Doned, p
<1>6. Idled(c) = [p EXCEPT !.idling = TRUE, !.waitForInitialIdle = TRUE]
  BY DEF Idled, p
<1>7. But(c, p, {"cmdQueue"}) /\ p.cmdQueue = Tail(c.cmdQueue)
  BY <1>1 DEF p
<1>8. /\ But(c, Doned(c), {"cmdQueue", "idling"}) /\ Doned(c).cmdQueue = Tail(c.cmdQueue)
      /\ Doned(c).idling = FALSE
  BY <1>3, <1>5, <1>7 DEF But, Fields
<1>9. /\ But(c, Idled(c), {"cmdQueue", "idling", "waitForInitialIdle"})
      /\ Idled(c).cmdQueue = Tail(c.cmdQueue) /\ Idled(c).idling = TRUE
      /\ Idled(c).waitForInitialIdle = TRUE
  BY <1>4, <1>6, <1>7 DEF But, Fields
<1> QED
  BY <1>1, <1>8, <1>9

\* The fields which the size of a literal changes
LEMMA BegunFields ==
    ASSUME NEW c, Shape(c), c.cmdQueue \in Seq(Command), c.cmdQueue # <<>>, NEW d, d = Begun(c)
    PROVE  /\ But(c, d, OfLiteral) /\ d.waitingForContinuation /\ d.literalCommandTag = c.cmdQueue[1].tag
           /\ d.cmdQueue \in Seq(Command) /\ DOMAIN d.cmdQueue = DOMAIN c.cmdQueue
           /\ Len(d.cmdQueue) = Len(c.cmdQueue) /\ d.cmdQueue # <<>>
           /\ \A i \in DOMAIN c.cmdQueue :
                /\ d.cmdQueue[i].kind = c.cmdQueue[i].kind /\ d.cmdQueue[i].tag = c.cmdQueue[i].tag
                /\ i # 1 => d.cmdQueue[i].numberSent = c.cmdQueue[i].numberSent
           /\ d.cmdQueue[1].numberSent
<1> DEFINE q == c.cmdQueue
           cmd == [q[1] EXCEPT !.numberSent = TRUE]
           r == [q EXCEPT ![1] = cmd]
<1>1. q \in Seq(Command) /\ 1 \in DOMAIN q /\ q[1] \in Command
  BY Tailed
<1>2. cmd \in Command /\ cmd.numberSent = TRUE /\ cmd.kind = q[1].kind /\ cmd.tag = q[1].tag
  BY <1>1 DEF Command
<1>3. d = [c EXCEPT !.cmdQueue = r, !.waitingForContinuation = TRUE, !.literalCommandTag = q[1].tag]
  <2>1. Head(q) = q[1]
    BY <1>1
  <2> QED
    BY <2>1 DEF Begun
<1> HIDE DEF cmd
<1>4. /\ r \in Seq(Command) /\ DOMAIN r = DOMAIN q /\ Len(r) = Len(q)
      /\ r[1] = cmd /\ \A i \in DOMAIN q : i # 1 => r[i] = q[i]
  BY <1>1, <1>2
<1> HIDE DEF q, r
<1>5. /\ But(c, d, OfLiteral) /\ d.cmdQueue = r /\ d.waitingForContinuation = TRUE
      /\ d.literalCommandTag = q[1].tag
  BY <1>3, ZenonT(60) DEF Shape, But, Fields, OfLiteral
<1>6. \A i \in DOMAIN q :
         /\ r[i].kind = q[i].kind /\ r[i].tag = q[i].tag
         /\ i # 1 => r[i].numberSent = q[i].numberSent
  BY <1>2, <1>4
<1>7. r # <<>>
  BY <1>1, <1>4
<1> QED
  BY <1>2, <1>4, <1>5, <1>6, <1>7 DEF q

\* It leaves the queue and is no DONE.
Whole(cmd) == cmd.kind # "IDLE_DONE" /\ (cmd.kind = "LITERAL" => cmd.numberSent)

\* A command leaves the queue and is written, with IDLE the last one.
LEMMA WiredSaid ==
    ASSUME NEW c, NEW ts, NEW tc, NEW s, Typed(c), Good(c), Wired(c, ts, tc, s), MayExecute(c),
           NEW cmd, cmd = c.cmdQueue[1], Whole(cmd),
           NEW us, us = Append(ts, Written(cmd)),
           NEW d, But(c, d, {"cmdQueue", "idling", "waitForInitialIdle"}), d.cmdQueue = Tail(c.cmdQueue),
           d.idling \in BOOLEAN, d.idling <=> cmd.kind = "IDLE", d.waitForInitialIdle <=> cmd.kind = "IDLE"
    PROVE  Wired(d, us, tc, s) /\ Order(d)
<1>b. cmd.kind # "IDLE_DONE" /\ (cmd.kind = "LITERAL" => cmd.numberSent)
  BY DEF Whole
<1> DEFINE x == cmd.tag
           line == Written(cmd)
<1>1. /\ ts \in Seq(Line) /\ tc \in Seq(Response) /\ Idles(ts) /\ Served(s)
      /\ TypedResponses(tc) /\ PlusOnce(tc) /\ Tokens(c, ts, tc, s)
      /\ TypedResponses(c.respQueue) /\ ~Has(c.respQueue, "+")
      /\ (ts = <<>> /\ s.idling) => c.idling
      /\ s.idling /\ ts # <<>> => ts[1].kind = "DONE"
  BY WiredParts
<1>2. /\ cmd \in Command /\ 1 \in DOMAIN c.cmdQueue
      /\ c.cmdQueue \in Seq(Command) /\ c.cmdQueue # <<>>
      /\ ~c.idling
      /\ cmd.kind \in {"IDLE", "IDLE_DONE"} <=> x = "IDLE"
      /\ cmd.numberSent => cmd.kind = "LITERAL"
      /\ ~c.waitForInitialIdle /\ ~c.waitingForContinuation /\ c.literalCommandTag = NoTag
      /\ ~Has(ts, "IDLE") /\ ~Has(ts, "size") /\ ~Has(tc, "+")
      /\ \A t \in Tracked \cup {"IDLE"} : ~Refused(tc, t)
      /\ ~Refused(c.respQueue, "IDLE")
      /\ \A t \in Tracked \cup {"IDLE"} : Queued(c, tc, t) = Ordered(c, t)
  BY <1>b, Executing
<1>3. /\ line \in Line /\ line.tag = x /\ line.kind \in {"command", "literal", "IDLE"}
      /\ line.kind = "IDLE" <=> cmd.kind = "IDLE"
  BY <1>2, <1>b DEF Written, Line, Command, Kind
<1>a. us = Append(ts, line) /\ (line.kind \in {"IDLE", "DONE"} <=> line.tag = "IDLE")
  BY <1>2, <1>3, <1>b
<1> HIDE DEF line, x
<1>4. /\ us \in Seq(Line) /\ Idles(us) /\ DoneFollows(us) /\ SizeOnce(us) /\ us # <<>>
      /\ \A kind : Ends(us, kind) <=> line.kind = kind
      /\ \A kind : Has(us, kind) <=> Has(ts, kind) \/ line.kind = kind
      /\ us[1] = IF ts = <<>> THEN line ELSE ts[1]
      /\ \A tag : (line.kind = "size" => line.tag = tag) => SizesOf(us, tag)
  BY <1>1, <1>2, <1>3, <1>a, WriteLine
<1>5. /\ d.respQueue = c.respQueue /\ d.waitingForContinuation = c.waitingForContinuation
      /\ d.literalCommandTag = c.literalCommandTag /\ d.mIdling = c.mIdling /\ Shape(d)
  BY DEF But, Fields
<1>6. Order(d)
  <2>1. /\ Order(c) /\ d.idling \in BOOLEAN /\ (d.waitForInitialIdle => d.idling)
        /\ ~(d.waitingForContinuation /\ d.idling)
        /\ c.cmdQueue[1].kind = "IDLE" => d.idling
        /\ c.cmdQueue[1].kind # "IDLE_DONE"
        /\ c.cmdQueue[1].kind # "IDLE" => d.idling = c.idling
    BY <1>2, <1>5, <1>b DEF Good, Order
  <2> QED
    BY <1>2, <1>5, <2>1, OrderPopped
<1>7. /\ cmd \in Commands(x) /\ line \in Lines(x)
      /\ \A t : t # x => cmd \notin Commands(t) /\ line \notin Lines(t)
  BY <1>2, <1>3, <1>b DEF Commands, Lines, x
<1>8. \A t \in Tracked \cup {"IDLE"} : t # x => Alike(c, ts, tc, s, d, us, tc, s, t)
  <2> SUFFICES ASSUME NEW t \in Tracked \cup {"IDLE"}, t # x PROVE Alike(c, ts, tc, s, d, us, tc, s, t)
    OBVIOUS
  <2>1. Same(Ordered(c, t), Ordered(d, t))
    BY <1>2, <1>7, SameTail DEF Ordered
  <2>2. Queued(d, tc, t) = Ordered(d, t) /\ Queued(c, tc, t) = Ordered(c, t)
    BY <1>2 DEF Queued
  <2>3. Same(Sent(ts, t), Sent(us, t))
    BY <1>1, <1>3, <1>7, <1>a, SameAppend DEF Sent
  <2>4. Queued(d, tc, t) = {} <=> Queued(c, tc, t) = {}
    BY <2>1, <2>2 DEF Same
  <2> QED
    BY <1>5, <2>1, <2>3, <2>4, SameSelf DEF Alike
<1>9. x \in Tracked \cup {"IDLE"} =>
        /\ About(tc, x) = {} /\ About(c.respQueue, x) = {} /\ ~Done(s, x)
        /\ Once(d, us, tc, s, x) /\ Somewhere(d, us, tc, s, x) /\ Somewhere(c, ts, tc, s, x)
  <2> SUFFICES ASSUME x \in Tracked \cup {"IDLE"}
               PROVE  /\ About(tc, x) = {} /\ About(c.respQueue, x) = {} /\ ~Done(s, x)
                      /\ Once(d, us, tc, s, x) /\ Somewhere(d, us, tc, s, x) /\ Somewhere(c, ts, tc, s, x)
    OBVIOUS
  <2>1. 1 \in Ordered(c, x)
    BY <1>2, <1>7 DEF Ordered, At
  <2>2. Queued(c, tc, x) # {} /\ Once(c, ts, tc, s, x)
    BY <1>1, <1>2, <2>1 DEF Tokens
  <2>3. /\ Single(Ordered(c, x)) /\ Single(About(tc, x)) /\ Single(About(c.respQueue, x))
        /\ Sent(ts, x) = {} /\ ~Done(s, x)
        /\ About(tc, x) = {} /\ About(c.respQueue, x) = {} /\ Somewhere(c, ts, tc, s, x)
    BY <2>2 DEF Once, Somewhere
  <2>4. Ordered(d, x) = {}
    BY <1>2, <1>7, <2>3, AtTail DEF Ordered
  <2>5. Queued(d, tc, x) = {}
    BY <2>4 DEF Queued
  <2>6. Single(Sent(us, x)) /\ Sent(us, x) # {}
    BY <1>1, <1>3, <1>7, <1>a, <2>3, AtAppend DEF Sent
  <2> QED
    BY <1>5, <2>3, <2>4, <2>5, <2>6, NoneSingle DEF Once, Somewhere
<1>10. Tokens(d, us, tc, s)
  <2>1. But(c, d, OfParser)
    BY DEF But, OfParser
  <2>2. Has(tc, "CLOSED") \/ Has(d.respQueue, "CLOSED") => Has(tc, "CLOSED") \/ Has(c.respQueue, "CLOSED")
    BY <1>5
  <2>3. Passes(c, ts, tc, s, d, us, tc, x)
    BY <1>1, <1>8, <1>9, <2>1, <2>2 DEF Passes
  <2> QED
    BY <2>3, TokensPassed
<1>11. /\ s.idling /\ us # <<>> => us[1].kind = "DONE"
       /\ (us = <<>> /\ s.idling) \/ Ends(us, "IDLE") => d.idling
       /\ Has(us, "IDLE") \/ Refused(tc, "IDLE") \/ Refused(d.respQueue, "IDLE") =>
                   d.waitForInitialIdle /\ ~Has(tc, "+")
       /\ ~Has(us, "size")
  BY <1>1, <1>2, <1>3, <1>4, <1>5
<1>12. d.waitForInitialIdle =>
         /\ \A i \in DOMAIN d.respQueue : d.respQueue[i] # Say("OK", "IDLE")
         /\ EndsLater(tc) /\ ~s.idling
  <2> SUFFICES ASSUME d.waitForInitialIdle
               PROVE  /\ \A i \in DOMAIN d.respQueue : d.respQueue[i] # Say("OK", "IDLE")
                      /\ EndsLater(tc) /\ ~s.idling
    OBVIOUS
  <2>1. x = "IDLE"
    BY <1>2
  <2>2. About(tc, "IDLE") = {} /\ About(c.respQueue, "IDLE") = {} /\ ~Done(s, "IDLE")
    BY <1>9, <2>1
  <2>3. Say("OK", "IDLE") \in Responses("IDLE")
    BY SaidIs DEF Responses
  <2> QED
    BY <1>5, <2>2, <2>3 DEF About, At, Done, EndsLater
<1>13. Wired(d, us, tc, s)
  BY <1>1, <1>2, <1>4, <1>5, <1>10, <1>11, <1>12, WiredParts
<1> QED
  BY <1>6, <1>13

\* DONE is written.
LEMMA WiredDone ==
    ASSUME NEW c, NEW ts, NEW tc, NEW s, Typed(c), Good(c), Wired(c, ts, tc, s), MayExecute(c),
           NEW cmd, cmd = c.cmdQueue[1], cmd.kind = "IDLE_DONE",
           NEW us, us = Append(ts, Written(cmd)),
           NEW d, But(c, d, {"cmdQueue", "idling"}), d.cmdQueue = Tail(c.cmdQueue), d.idling = FALSE
    PROVE  Wired(d, us, tc, s) /\ Order(d)
<1> DEFINE line == Written(cmd)
<1>1. /\ ts \in Seq(Line) /\ tc \in Seq(Response) /\ Idles(ts) /\ Served(s)
      /\ TypedResponses(tc) /\ PlusOnce(tc) /\ Tokens(c, ts, tc, s)
      /\ TypedResponses(c.respQueue) /\ ~Has(c.respQueue, "+")
      /\ s.idling /\ ts # <<>> => ts[1].kind = "DONE"
  BY WiredParts
<1>2. /\ cmd \in Command /\ c.cmdQueue \in Seq(Command) /\ c.cmdQueue # <<>>
      /\ cmd.tag = "IDLE"
      /\ ~c.waitForInitialIdle /\ ~c.waitingForContinuation /\ c.literalCommandTag = NoTag
      /\ ~Has(ts, "IDLE") /\ ~Has(ts, "size") /\ ~Has(tc, "+")
      /\ \A t \in Tracked \cup {"IDLE"} : ~Refused(tc, t)
      /\ ~Refused(c.respQueue, "IDLE")
      /\ \A t \in Tracked \cup {"IDLE"} : Queued(c, tc, t) = Ordered(c, t)
  BY Executing
<1>3. line \in Line /\ line.tag = "IDLE" /\ line.kind = "DONE"
  BY <1>2 DEF Written, Line, Command, Kind
<1>a. us = Append(ts, line) /\ (line.kind \in {"IDLE", "DONE"} <=> line.tag = "IDLE")
  BY <1>3
<1> HIDE DEF line
<1>4. /\ us \in Seq(Line) /\ Idles(us) /\ DoneFollows(us) /\ SizeOnce(us) /\ us # <<>>
      /\ \A kind : Ends(us, kind) <=> line.kind = kind
      /\ \A kind : Has(us, kind) <=> Has(ts, kind) \/ line.kind = kind
      /\ us[1] = IF ts = <<>> THEN line ELSE ts[1]
      /\ \A tag : (line.kind = "size" => line.tag = tag) => SizesOf(us, tag)
  BY <1>1, <1>2, <1>3, <1>a, WriteLine
<1>5. /\ d.respQueue = c.respQueue /\ d.waitingForContinuation = c.waitingForContinuation
      /\ d.literalCommandTag = c.literalCommandTag /\ d.mIdling = c.mIdling /\ Shape(d)
      /\ d.waitForInitialIdle = c.waitForInitialIdle
  BY DEF But, Fields
<1>6. Order(d)
  <2>1. Order(c)
    BY DEF Good
  <2> QED
    BY <1>2, <1>5, <2>1, OrderPopped
<1>7. \A t : cmd \notin Commands(t) /\ line \notin Lines(t)
  BY <1>3 DEF Commands, Lines
<1>8. \A t \in Tracked \cup {"IDLE"} : Alike(c, ts, tc, s, d, us, tc, s, t)
  <2> SUFFICES ASSUME NEW t \in Tracked \cup {"IDLE"} PROVE Alike(c, ts, tc, s, d, us, tc, s, t)
    OBVIOUS
  <2>1. Same(Ordered(c, t), Ordered(d, t))
    BY <1>2, <1>7, SameTail DEF Ordered
  <2>2. Queued(d, tc, t) = Ordered(d, t) /\ Queued(c, tc, t) = Ordered(c, t)
    BY <1>2 DEF Queued
  <2>3. Same(Sent(ts, t), Sent(us, t))
    BY <1>1, <1>3, <1>7, <1>a, SameAppend DEF Sent
  <2>4. Queued(d, tc, t) = {} <=> Queued(c, tc, t) = {}
    BY <2>1, <2>2 DEF Same
  <2> QED
    BY <1>5, <2>1, <2>3, <2>4, SameSelf DEF Alike
<1>9. Tokens(d, us, tc, s)
  <2>1. But(c, d, OfParser)
    BY DEF But, OfParser
  <2>2. Has(tc, "CLOSED") \/ Has(d.respQueue, "CLOSED") => Has(tc, "CLOSED") \/ Has(c.respQueue, "CLOSED")
    BY <1>5
  <2>3. NoTag \notin Tracked \cup {"IDLE"}
    BY OwnCommands
  <2>4. Passes(c, ts, tc, s, d, us, tc, NoTag)
    BY <1>1, <1>8, <2>1, <2>2, <2>3 DEF Passes
  <2> QED
    BY <2>4, TokensPassed
<1>10. /\ s.idling /\ us # <<>> => us[1].kind = "DONE"
       /\ (us = <<>> /\ s.idling) \/ Ends(us, "IDLE") => d.idling
       /\ ~Has(us, "IDLE") /\ ~Refused(tc, "IDLE") /\ ~Refused(d.respQueue, "IDLE")
       /\ ~Has(us, "size")
       /\ ~d.waitForInitialIdle /\ ~d.waitingForContinuation /\ d.literalCommandTag = NoTag
       /\ SizesOf(us, NoTag)
  BY <1>1, <1>2, <1>3, <1>4, <1>5
<1>11. Wired(d, us, tc, s)
  BY <1>1, <1>2, <1>4, <1>5, <1>9, <1>10, WiredParts
<1> QED
  BY <1>6, <1>11

\* A literal is begun: its size is written, and the command stays in the queue.
LEMMA WiredBegun ==
    ASSUME NEW c, NEW ts, NEW tc, NEW s, Typed(c), Good(c), Wired(c, ts, tc, s), MayExecute(c),
           NEW cmd, cmd = c.cmdQueue[1], cmd.kind = "LITERAL", ~cmd.numberSent,
           NEW us, us = Append(ts, Written(cmd)), NEW d, d = Begun(c)
    PROVE  Wired(d, us, tc, s) /\ Order(d)
<1> DEFINE line == Written(cmd)
<1>1. /\ ts \in Seq(Line) /\ tc \in Seq(Response) /\ Idles(ts) /\ Served(s)
      /\ TypedResponses(tc) /\ PlusOnce(tc) /\ Tokens(c, ts, tc, s)
      /\ TypedResponses(c.respQueue) /\ ~Has(c.respQueue, "+")
      /\ (ts = <<>> /\ s.idling) => c.idling
      /\ s.idling /\ ts # <<>> => ts[1].kind = "DONE"
  BY WiredParts
<1>2. /\ cmd \in Command /\ 1 \in DOMAIN c.cmdQueue
      /\ c.cmdQueue \in Seq(Command) /\ c.cmdQueue # <<>>
      /\ ~c.idling /\ cmd.tag # "IDLE"
      /\ ~c.waitForInitialIdle /\ ~c.waitingForContinuation /\ c.literalCommandTag = NoTag
      /\ ~Has(ts, "IDLE") /\ ~Has(ts, "size") /\ ~Has(tc, "+")
      /\ \A t \in Tracked \cup {"IDLE"} : ~Refused(tc, t)
      /\ ~Refused(c.respQueue, "IDLE")
      /\ \A t \in Tracked \cup {"IDLE"} : Queued(c, tc, t) = Ordered(c, t)
  BY Executing
<1>3. line \in Line /\ line.tag = cmd.tag /\ line.kind = "size"
  BY <1>2 DEF Written, Line, Command, Kind
<1>a. us = Append(ts, line) /\ (line.kind \in {"IDLE", "DONE"} <=> line.tag = "IDLE")
  BY <1>2, <1>3
<1> HIDE DEF line
<1>4. /\ us \in Seq(Line) /\ Idles(us) /\ DoneFollows(us) /\ SizeOnce(us) /\ us # <<>>
      /\ \A kind : Ends(us, kind) <=> line.kind = kind
      /\ \A kind : Has(us, kind) <=> Has(ts, kind) \/ line.kind = kind
      /\ us[1] = IF ts = <<>> THEN line ELSE ts[1]
      /\ \A tag : (line.kind = "size" => line.tag = tag) => SizesOf(us, tag)
  BY <1>1, <1>2, <1>3, <1>a, WriteLine, ZenonT(60)
<1>b. Shape(c)
  BY DEF Typed
<1>c. /\ But(c, d, OfLiteral) /\ d.waitingForContinuation /\ d.literalCommandTag = cmd.tag
      /\ d.cmdQueue \in Seq(Command) /\ DOMAIN d.cmdQueue = DOMAIN c.cmdQueue
      /\ Len(d.cmdQueue) = Len(c.cmdQueue) /\ d.cmdQueue # <<>>
      /\ \A i \in DOMAIN c.cmdQueue :
           /\ d.cmdQueue[i].kind = c.cmdQueue[i].kind /\ d.cmdQueue[i].tag = c.cmdQueue[i].tag
           /\ i # 1 => d.cmdQueue[i].numberSent = c.cmdQueue[i].numberSent
      /\ d.cmdQueue[1].numberSent
  BY <1>2, <1>b, BegunFields
<1>5. /\ d.respQueue = c.respQueue /\ d.idling = c.idling /\ d.mIdling = c.mIdling /\ Shape(d)
      /\ d.waitForInitialIdle = c.waitForInitialIdle
  BY <1>c DEF But, Fields, OfLiteral
<1>6. Order(d)
  <2> DEFINE q == c.cmdQueue
             r == d.cmdQueue
  <2>1. /\ \A i \in DOMAIN q : i + 1 \in DOMAIN q => (q[i].kind = "IDLE" <=> q[i + 1].kind = "IDLE_DONE")
        /\ c.mIdling <=> q[Len(q)].kind = "IDLE"
        /\ \A i \in DOMAIN q :
             /\ q[i].numberSent => i = 1 /\ q[i].kind = "LITERAL"
             /\ q[i].kind \in {"IDLE", "IDLE_DONE"} <=> q[i].tag = "IDLE"
             /\ q[i].kind = "LITERAL" => q[i].tag \in Tasks
        /\ c.mIdling \in BOOLEAN /\ c.idling \in BOOLEAN
    BY <1>2 DEF Good, Order, EndsInIdle
  <2>2. DOMAIN q = 1 .. Len(q) /\ Len(q) \in Nat /\ Len(q) \in DOMAIN q
    BY <1>2
  <2>3. DOMAIN r = DOMAIN q /\ Len(r) = Len(q) /\ r # <<>> /\ r[1].kind = "LITERAL"
        /\ \A i \in DOMAIN q : /\ r[i].kind = q[i].kind /\ r[i].tag = q[i].tag
                               /\ i # 1 => r[i].numberSent = q[i].numberSent
    BY <1>2, <1>c
  <2> HIDE DEF q, r
  <2>4. d.mIdling <=> EndsInIdle(d)
    BY <1>5, <2>1, <2>2, <2>3 DEF EndsInIdle, r
  <2>5. \A i \in DOMAIN r : i + 1 \in DOMAIN r => (r[i].kind = "IDLE" <=> r[i + 1].kind = "IDLE_DONE")
    BY <2>1, <2>3
  <2>6. \A i \in DOMAIN r :
             /\ r[i].numberSent => i = 1 /\ r[i].kind = "LITERAL"
             /\ r[i].kind \in {"IDLE", "IDLE_DONE"} <=> r[i].tag = "IDLE"
             /\ r[i].kind = "LITERAL" => r[i].tag \in Tasks
    BY <2>1, <2>3
  <2> QED
    BY <1>2, <1>5, <2>1, <2>3, <2>4, <2>5, <2>6 DEF Order, r
<1>7. /\ \A t : line \notin Lines(t)
      /\ \A t : Ordered(d, t) = Ordered(c, t)
  <2>1. \A i \in DOMAIN c.cmdQueue : c.cmdQueue[i] \in Command /\ d.cmdQueue[i] \in Command
    BY <1>2, <1>c
  <2>2. \A t, i : i \in DOMAIN c.cmdQueue => (d.cmdQueue[i] \in Commands(t) <=> c.cmdQueue[i] \in Commands(t))
    BY <1>c, <2>1 DEF Commands
  <2>3. \A t : Ordered(d, t) = Ordered(c, t)
    BY <1>c, <2>2 DEF Ordered, At
  <2> QED
    BY <1>3, <2>3 DEF Lines
<1>8. \A t \in Tracked \cup {"IDLE"} : Alike(c, ts, tc, s, d, us, tc, s, t)
  <2> SUFFICES ASSUME NEW t \in Tracked \cup {"IDLE"} PROVE Alike(c, ts, tc, s, d, us, tc, s, t)
    OBVIOUS
  <2>2. Queued(d, tc, t) = Ordered(d, t) /\ Queued(c, tc, t) = Ordered(c, t)
    BY <1>2 DEF Queued
  <2>3. Same(Sent(ts, t), Sent(us, t))
    BY <1>1, <1>3, <1>7, <1>a, SameAppend DEF Sent
  <2> QED
    BY <1>5, <1>7, <2>2, <2>3, SameSelf DEF Alike
<1>9. Tokens(d, us, tc, s)
  <2>1. But(c, d, OfParser)
    BY <1>c DEF But, OfParser, OfLiteral
  <2>2. Has(tc, "CLOSED") \/ Has(d.respQueue, "CLOSED") => Has(tc, "CLOSED") \/ Has(c.respQueue, "CLOSED")
    BY <1>5
  <2>3. NoTag \notin Tracked \cup {"IDLE"}
    BY OwnCommands
  <2>4. Passes(c, ts, tc, s, d, us, tc, NoTag)
    BY <1>1, <1>8, <2>1, <2>2, <2>3 DEF Passes
  <2> QED
    BY <2>4, TokensPassed
<1>10. /\ s.idling /\ us # <<>> => us[1].kind = "DONE"
       /\ (us = <<>> /\ s.idling) \/ Ends(us, "IDLE") => d.idling
       /\ ~Has(us, "IDLE") /\ ~Refused(tc, "IDLE") /\ ~Refused(d.respQueue, "IDLE")
       /\ SizesOf(us, d.literalCommandTag)
       /\ ~d.waitForInitialIdle
  BY <1>1, <1>2, <1>3, <1>4, <1>5, <1>c
<1>12. d.cmdQueue[1].kind = "LITERAL" /\ d.cmdQueue[1].tag = cmd.tag
  BY <1>2, <1>c
<1>11. Wired(d, us, tc, s)
  BY <1>1, <1>2, <1>4, <1>5, <1>9, <1>10, <1>12, <1>c, WiredParts
<1> QED
  BY <1>6, <1>11

\* The field which the end of a handler changes
LEMMA HandlerFields ==
    ASSUME NEW b, Shape(b), NEW h, NEW d, d = [b EXCEPT !.handler = h]
    PROVE  But(b, d, {"handler"}) /\ d.handler = h
BY DEF Shape, But, Fields

\* One command: what it makes of queue, flags and wire
LEMMA Execution ==
    ASSUME NEW c, NEW ts, NEW tc, NEW s, Typed(c), Good(c), Wired(c, ts, tc, s), MayExecute(c),
           NEW b, b = executeACommand(c), NEW us, us = Append(ts, Written(Head(c.cmdQueue)))
    PROVE  /\ But(c, b, {"cmdQueue", "idling", "waitForInitialIdle", "waitingForContinuation",
                         "literalCommandTag"})
           /\ b.cmdQueue \in Seq(Command) /\ Wired(b, us, tc, s) /\ Order(b)
<1> DEFINE cmd == c.cmdQueue[1]
           All == {"cmdQueue", "idling", "waitForInitialIdle", "waitingForContinuation",
                   "literalCommandTag"}
<1>1. /\ cmd \in Command /\ Head(c.cmdQueue) = cmd
      /\ c.cmdQueue \in Seq(Command) /\ c.cmdQueue # <<>>
      /\ c.idling <=> cmd.kind = "IDLE_DONE"
      /\ cmd.kind \in {"IDLE", "IDLE_DONE"} <=> cmd.tag = "IDLE"
      /\ cmd.numberSent => cmd.kind = "LITERAL"
      /\ ~c.waitForInitialIdle /\ ~c.waitingForContinuation /\ c.literalCommandTag = NoTag
  BY Executing
<1>2. cmd.kind \in {"ATOM", "LITERAL", "IDLE", "IDLE_DONE"} /\ cmd.numberSent \in BOOLEAN
  BY <1>1 DEF Command, Kind
<1>3. Shape(c) /\ c.idling \in BOOLEAN /\ Tail(c.cmdQueue) \in Seq(Command)
  BY <1>1, Tailed DEF Typed, Good, Order
<1>4. us = Append(ts, Written(cmd)) /\ cmd = c.cmdQueue[1]
  BY <1>1
<1> HIDE DEF cmd
<1>5. /\ cmd.kind = "IDLE_DONE" => b = Doned(c)
      /\ cmd.kind = "ATOM" \/ cmd.numberSent => b = Popped(c)
      /\ cmd.kind = "LITERAL" /\ ~cmd.numberSent => b = Begun(c)
      /\ cmd.kind = "IDLE" => b = Idled(c)
  BY <1>1, <1>4, Executes
<1>6. CASE cmd.kind = "IDLE_DONE"
  <2>1. But(c, b, {"cmdQueue", "idling"}) /\ b.cmdQueue = Tail(c.cmdQueue) /\ b.idling = FALSE
    BY <1>3, <1>5, <1>6, ExecutedFields
  <2>2. Wired(b, us, tc, s) /\ Order(b)
    BY <1>4, <1>6, <2>1, WiredDone
  <2> QED
    BY <1>3, <2>1, <2>2 DEF But
<1>7. CASE cmd.kind = "ATOM" \/ cmd.numberSent
  <2>1. But(c, b, {"cmdQueue"}) /\ b.cmdQueue = Tail(c.cmdQueue)
    BY <1>3, <1>5, <1>7, ExecutedFields
  <2>2. b.idling = c.idling /\ b.waitForInitialIdle = c.waitForInitialIdle
    BY <2>1 DEF But, Fields
  <2>3. cmd.kind # "IDLE_DONE" /\ cmd.kind # "IDLE" /\ (cmd.kind = "LITERAL" => cmd.numberSent)
    BY <1>1, <1>7
  <2>4. b.idling \in BOOLEAN /\ (b.idling <=> cmd.kind = "IDLE") /\ (b.waitForInitialIdle <=> cmd.kind = "IDLE")
    BY <1>1, <1>3, <2>2, <2>3
  <2>5. But(c, b, {"cmdQueue", "idling", "waitForInitialIdle"})
    BY <2>1 DEF But
  <2>6. Wired(b, us, tc, s) /\ Order(b)
    <3>1. Whole(cmd)
      BY <2>3 DEF Whole
    <3>3. b.cmdQueue = Tail(c.cmdQueue)
      BY <2>1
    <3> QED
      BY <1>4, <2>4, <2>5, <3>1, <3>3, WiredSaid, ZenonT(60)
  <2> QED
    BY <1>3, <2>1, <2>6 DEF But
<1>8. CASE cmd.kind = "LITERAL" /\ ~cmd.numberSent
  <2>1. b = Begun(c)
    BY <1>5, <1>8
  <2>2. But(c, b, OfLiteral) /\ b.cmdQueue \in Seq(Command)
    BY <1>1, <1>3, <2>1, BegunFields
  <2>3. Wired(b, us, tc, s) /\ Order(b)
    BY <1>4, <1>8, <2>1, WiredBegun
  <2> QED
    BY <2>2, <2>3 DEF But, OfLiteral
<1>9. CASE cmd.kind = "IDLE"
  <2>1. /\ But(c, b, {"cmdQueue", "idling", "waitForInitialIdle"}) /\ b.cmdQueue = Tail(c.cmdQueue)
        /\ b.idling = TRUE /\ b.waitForInitialIdle = TRUE
    BY <1>3, <1>5, <1>9, ExecutedFields
  <2>2. /\ b.idling \in BOOLEAN /\ (b.idling <=> cmd.kind = "IDLE")
        /\ (b.waitForInitialIdle <=> cmd.kind = "IDLE")
        /\ Whole(cmd)
    BY <1>9, <2>1 DEF Whole
  <2>3. Wired(b, us, tc, s) /\ Order(b)
    BY <1>4, <1>9, <2>1, <2>2, WiredSaid
  <2> QED
    BY <1>3, <2>1, <2>3 DEF But
<1> QED
  BY <1>2, <1>6, <1>7, <1>8, <1>9

\* A server in IDLE hears of DONE.
LEMMA IdlingParts ==
    ASSUME NEW c, NEW ts, NEW tc, NEW s, Wired(c, ts, tc, s), s.idling, ts # <<>>
    PROVE  Head(ts).kind = "DONE"
<1>1. ts \in Seq(Line) /\ ts[1].kind = "DONE"
  BY WiredParts
<1>2. Head(ts) = ts[1]
  BY <1>1, Tailed
<1> QED
  BY <1>1, <1>2

\* The step executeCommands()
LEMMA ExecuteStep ==
    ASSUME HandoverInv, executeCommands
    PROVE  HandoverInv'
<1> DEFINE c == Taken
           d == client'
           b == executeACommand(c)
<1>1. Handling("executeCommands") /\ toClient' = toClient /\ server' = server
  BY DEF executeCommands
<1>2. /\ Typed(c) /\ Good(c) /\ Closing(c) /\ Late(c) /\ c.online /\ c.failed = {}
      /\ Wired(c, toServer, toClient, server) /\ c.cmdQueue = client.cmdQueue
      /\ c.respQueue # <<>> => IsPosted(c, "responseReceived")
  BY <1>1, Turn
<1>3. /\ MayExecute(c) =>
           /\ d = [b EXCEPT !.handler = IF MayExecute(b) THEN "executeCommands" ELSE "none"]
           /\ toServer' = Append(toServer, Written(Head(c.cmdQueue)))
      /\ ~MayExecute(c) => d = [c EXCEPT !.handler = "none"] /\ toServer' = toServer
  BY <1>2 DEF executeCommands
<1>4. c.posted \in Seq(Posted) /\ c.respQueue \in Seq(Response) /\ c.cmdQueue \in Seq(Command) /\ Shape(c)
  BY <1>2 DEF Typed
<1>5. b = executeACommand(c)
  OBVIOUS
<1> HIDE DEF c, d, b
<1>6. Woken(c, c)
  BY <1>4 DEF Woken, More
<1>7. Safe(d, toServer', toClient', server') /\ Wired(d, toServer', toClient', server')
  <2>1. CASE ~MayExecute(c)
    <3>1. But(c, d, {"handler"}) /\ d.handler = "none"
      BY <1>3, <1>4, <2>1, HandlerFields
    <3>2. /\ d.cmdQueue = c.cmdQueue /\ d.respQueue = c.respQueue /\ d.idling = c.idling
          /\ d.mIdling = c.mIdling /\ d.posted = c.posted
          /\ d.waitForInitialIdle = c.waitForInitialIdle
          /\ d.waitingForContinuation = c.waitingForContinuation
          /\ d.literalCommandTag = c.literalCommandTag
          /\ d.idleCommandRunning = c.idleCommandRunning /\ d.active = c.active
          /\ d.logout = c.logout /\ d.online = c.online /\ d.deleting = c.deleting
          /\ d.aborted = c.aborted
      BY <3>1 DEF But, Fields
    <3>3. Wired(d, toServer, toClient, server)
      BY <1>2, <3>2, WireSame
    <3>4. Order(d)
      BY <1>2, <3>2, OrderSame DEF Good
    <3>5. Woken(c, d) /\ (d.respQueue # <<>> => IsPosted(d, "responseReceived")) /\ ~MayExecute(d)
      BY <1>2, <1>6, <2>1, <3>2 DEF Woken, IsPosted, MayExecute
    <3>6. But(c, d, OfParser)
      BY <3>1 DEF But, OfParser
    <3>7. Safe(d, toServer, toClient, server)
      BY <1>2, <1>4, <3>1, <3>2, <3>3, <3>4, <3>5, <3>6, ParserSafe
    <3> QED
      BY <1>1, <1>3, <2>1, <3>3, <3>7
  <2>2. CASE MayExecute(c)
    <3> DEFINE us == toServer'
    <3>1. us = Append(toServer, Written(Head(c.cmdQueue)))
      BY <1>3, <2>2
    <3> HIDE DEF us
    <3>2. /\ But(c, b, {"cmdQueue", "idling", "waitForInitialIdle", "waitingForContinuation",
                        "literalCommandTag"})
          /\ b.cmdQueue \in Seq(Command) /\ Wired(b, us, toClient, server) /\ Order(b)
      BY <1>2, <1>5, <2>2, <3>1, Execution
    <3>3. Shape(b)
      BY <3>2 DEF But
    <3>4. /\ But(b, d, {"handler"})
          /\ d.handler = IF MayExecute(b) THEN "executeCommands" ELSE "none"
      BY <1>3, <2>2, <3>3, HandlerFields
    <3>5. /\ d.cmdQueue = b.cmdQueue /\ d.respQueue = b.respQueue /\ d.idling = b.idling
          /\ d.mIdling = b.mIdling /\ d.posted = b.posted
          /\ d.waitForInitialIdle = b.waitForInitialIdle
          /\ d.waitingForContinuation = b.waitingForContinuation
          /\ d.literalCommandTag = b.literalCommandTag
          /\ d.idleCommandRunning = b.idleCommandRunning /\ d.active = b.active
          /\ d.logout = b.logout /\ d.online = b.online /\ d.deleting = b.deleting
          /\ d.aborted = b.aborted
      BY <3>4 DEF But, Fields
    <3>6. b.posted = c.posted /\ b.respQueue = c.respQueue
      BY <3>2 DEF But, Fields
    <3>7. Wired(d, us, toClient, server)
      BY <3>2, <3>5, WireSame
    <3>8. Order(d)
      BY <3>2, <3>5, OrderSame
    <3>9. Woken(c, d) /\ (d.respQueue # <<>> => IsPosted(d, "responseReceived"))
      BY <1>2, <1>6, <3>5, <3>6 DEF Woken, IsPosted
    <3>10. But(c, d, OfParser)
      <4>1. But(c, b, OfParser)
        BY <3>2 DEF But, OfParser
      <4> QED
        BY <3>4, <4>1 DEF But, OfParser
    <3>11. /\ d.handler \in {"none", "executeCommands"}
           /\ MayExecute(d) => AwaitedBy(d, "executeCommands")
      BY <3>4, <3>5 DEF MayExecute, AwaitedBy
    <3>12. d.cmdQueue \in Seq(Command) /\ d.respQueue \in Seq(Response) /\ d.posted \in Seq(Posted)
      BY <1>4, <3>2, <3>5, <3>6
    <3>13. Safe(d, us, toClient, server)
      BY <1>2, <3>7, <3>8, <3>9, <3>10, <3>11, <3>12, ParserSafe
    <3> QED
      BY <1>1, <3>7, <3>13 DEF us
  <2> QED
    BY <2>1, <2>2
<1>8. server'.idling /\ toServer' # <<>> => Head(toServer').kind = "DONE"
  BY <1>7, IdlingParts
<1> QED
  BY <1>7, <1>8 DEF HandoverInv, IdlingServerGetsDone, d

-----------------------------------------------------------------------------
(* Model::responseReceived()                                                *)

\* A response leaves the queue of responses, and with it the active task it is for, if any.
PoppedResponse(c, d) ==
    /\ d.cmdQueue = c.cmdQueue /\ d.respQueue = Tail(c.respQueue) /\ d.idling = c.idling
    /\ d.waitForInitialIdle = c.waitForInitialIdle
    /\ d.waitingForContinuation = c.waitingForContinuation
    /\ d.literalCommandTag = c.literalCommandTag
    /\ d.idleCommandRunning = c.idleCommandRunning /\ d.active = c.active \ {c.respQueue[1].tag}
    /\ d.logout = c.logout /\ d.online = c.online /\ d.deleting = c.deleting /\ d.aborted = c.aborted

\* What is known of the response
Expected(c, tc, r) ==
    /\ r \in Response /\ RightTag(r) /\ r.kind # "+"
    /\ r.kind = "CLOSED" => c.aborted
    /\ r.tag \in Tracked => r.tag \in c.active \/ c.logout
    /\ r.tag = "IDLE" /\ r.kind # "EXISTS" => c.idleCommandRunning
    /\ Refuses(r, "IDLE") => c.waitForInitialIdle /\ ~Has(tc, "+")
    /\ r = Say("OK", "IDLE") => ~c.waitForInitialIdle

\* Nothing is left of a command which has been answered.
LEMMA FirstResponse ==
    ASSUME NEW c, NEW ts, NEW tc, NEW s, Typed(c), Wired(c, ts, tc, s), c.respQueue # <<>>,
           NEW x, x = c.respQueue[1].tag, x \in Tracked \cup {"IDLE"}, NEW d, PoppedResponse(c, d)
    PROVE  Once(d, ts, tc, s, x) /\ ~Somewhere(d, ts, tc, s, x) /\ Somewhere(c, ts, tc, s, x)
<1> DEFINE q == c.respQueue
<1>1. q \in Seq(Response) /\ q # <<>>
  BY DEF Typed
<1>2. q[1] \in Responses(x)
  BY <1>1, Tailed DEF Responses
<1>3. /\ About(q, x) # {} /\ (Single(About(q, x)) => About(Tail(q), x) = {})
  BY <1>1, <1>2, AtTail DEF About
<1>4. Once(c, ts, tc, s, x)
  BY WiredParts DEF Tokens
<1>5. /\ Single(Ordered(c, x)) /\ Single(Sent(ts, x)) /\ Single(About(tc, x)) /\ Single(About(q, x))
      /\ Queued(c, tc, x) = {} /\ Sent(ts, x) = {} /\ ~Done(s, x) /\ About(tc, x) = {}
  BY <1>3, <1>4 DEF Once
<1>6. About(d.respQueue, x) = {} /\ Ordered(d, x) = Ordered(c, x) /\ Queued(d, tc, x) = Queued(c, tc, x)
  BY <1>3, <1>5 DEF PoppedResponse, Ordered, Queued
<1>7. Once(d, ts, tc, s, x) /\ ~Somewhere(d, ts, tc, s, x)
  BY <1>5, <1>6, NoneSingle DEF Once, Somewhere
<1> QED
  BY <1>3, <1>7 DEF Somewhere

\* A response is taken from its queue: nobody else speaks of its command any more.
LEMMA WiredPopped ==
    ASSUME NEW c, NEW ts, NEW tc, NEW s, Typed(c), Wired(c, ts, tc, s), c.respQueue # <<>>,
           NEW d, PoppedResponse(c, d)
    PROVE  /\ Wired(d, ts, tc, s) /\ Expected(c, tc, c.respQueue[1])
           /\ c.respQueue[1].tag = "IDLE" => ~Somewhere(d, ts, tc, s, "IDLE")
<1> DEFINE q == c.respQueue
           p == d.respQueue
           r == q[1]
           x == r.tag
<1>1. /\ q \in Seq(Response) /\ q # <<>> /\ TypedResponses(q) /\ ~Has(q, "+") /\ p = Tail(q)
      /\ Tokens(c, ts, tc, s)
  BY WiredParts DEF Typed, PoppedResponse
<1>2. /\ p \in Seq(Response) /\ r \in Response /\ 1 \in DOMAIN q
      /\ \A i \in DOMAIN p : p[i] = q[i + 1] /\ i + 1 \in DOMAIN q
  BY <1>1, Tailed
<1>3. /\ \A kind : Has(q, kind) <=> Has(p, kind) \/ r.kind = kind
      /\ \A t : Refused(q, t) <=> Refused(p, t) \/ Refuses(r, t)
  BY <1>1, HasTail, RefusedTail
<1>4. TypedResponses(p) /\ RightTag(r) /\ ~Has(p, "+") /\ r.kind # "+"
  BY <1>1, <1>2, <1>3 DEF TypedResponses, RightTag
<1>5. x \in Tracked \cup {"IDLE"} => /\ Once(d, ts, tc, s, x) /\ ~Somewhere(d, ts, tc, s, x)
                                    /\ Somewhere(c, ts, tc, s, x)
  BY <1>1, FirstResponse
<1>6. \A t \in Tracked \cup {"IDLE"} : t # x => Alike(c, ts, tc, s, d, ts, tc, s, t)
  <2> SUFFICES ASSUME NEW t \in Tracked \cup {"IDLE"}, t # x PROVE Alike(c, ts, tc, s, d, ts, tc, s, t)
    OBVIOUS
  <2>1. r \notin Responses(t)
    BY DEF Responses
  <2>2. Same(About(q, t), About(p, t))
    BY <1>1, <2>1, SameTail DEF About
  <2>3. Ordered(d, t) = Ordered(c, t) /\ Queued(d, tc, t) = Queued(c, tc, t)
    BY DEF PoppedResponse, Ordered, Queued
  <2> QED
    BY <2>2, <2>3, SameSelf DEF Alike
<1>7. \A t \in Tracked \cup {"IDLE"} :
        /\ Once(d, ts, tc, s, t)
        /\ Somewhere(d, ts, tc, s, t) <=> Somewhere(c, ts, tc, s, t) /\ t # x
  <2> SUFFICES ASSUME NEW t \in Tracked \cup {"IDLE"}
               PROVE  /\ Once(d, ts, tc, s, t)
                      /\ Somewhere(d, ts, tc, s, t) <=> Somewhere(c, ts, tc, s, t) /\ t # x
    OBVIOUS
  <2>1. CASE t = x
    BY <1>5, <2>1
  <2>2. CASE t # x
    <3>1. Once(c, ts, tc, s, t)
      BY <1>1 DEF Tokens
    <3> QED
      BY <1>6, <2>2, <3>1, AlikeKeeps
  <2> QED
    BY <2>1, <2>2
<1> HIDE DEF p, q, r, x
<1>8. /\ d.idleCommandRunning = c.idleCommandRunning /\ d.active = c.active \ {x}
      /\ d.logout = c.logout /\ d.online = c.online /\ d.deleting = c.deleting /\ d.aborted = c.aborted
  BY DEF PoppedResponse, x, q, r
<1>9. Tokens(d, ts, tc, s)
  <2>1. "DELETE" \in Tracked
    BY DEF Tracked
  <2>2. /\ Somewhere(c, ts, tc, s, "IDLE") => c.idleCommandRunning
        /\ \A t \in Tracked :
            /\ Somewhere(c, ts, tc, s, t) => t \in c.active \/ c.logout
            /\ c.online /\ t \in c.active => Somewhere(c, ts, tc, s, t)
        /\ Somewhere(c, ts, tc, s, "DELETE") => c.deleting = "performed"
        /\ Has(tc, "CLOSED") \/ Has(q, "CLOSED") => c.aborted
    BY <1>1 DEF Tokens, q
  <2>3. Has(tc, "CLOSED") \/ Has(p, "CLOSED") => d.aborted
    BY <1>3, <1>8, <2>2
  <2>4. Somewhere(d, ts, tc, s, "IDLE") => d.idleCommandRunning
    BY <1>7, <1>8, <2>2
  <2>5. Somewhere(d, ts, tc, s, "DELETE") => d.deleting = "performed"
    BY <1>7, <1>8, <2>1, <2>2
  <2>6. \A t \in Tracked :
            /\ Somewhere(d, ts, tc, s, t) => t \in d.active \/ d.logout
            /\ d.online /\ t \in d.active => Somewhere(d, ts, tc, s, t)
    BY <1>7, <1>8, <2>2
  <2> QED
    BY <1>7, <2>3, <2>4, <2>5, <2>6 DEF Tokens, p
<1>10. Wired(d, ts, tc, s)
  <2>1. d.waitForInitialIdle => \A i \in DOMAIN p : p[i] # Say("OK", "IDLE")
    <3>1. c.waitForInitialIdle => \A i \in DOMAIN q : q[i] # Say("OK", "IDLE")
      BY WiredParts DEF q
    <3> QED
      BY <1>2, <3>1 DEF PoppedResponse
  <2>2. /\ Has(ts, "IDLE") \/ Refused(tc, "IDLE") \/ Refused(p, "IDLE") =>
                   d.waitForInitialIdle /\ ~Has(tc, "+")
    <3>1. Has(ts, "IDLE") \/ Refused(tc, "IDLE") \/ Refused(q, "IDLE") =>
                   c.waitForInitialIdle /\ ~Has(tc, "+")
      BY WiredParts DEF q
    <3> QED
      BY <1>3, <3>1 DEF PoppedResponse
  <2>3. /\ d.idling = c.idling /\ d.cmdQueue = c.cmdQueue
        /\ d.waitForInitialIdle = c.waitForInitialIdle
        /\ d.waitingForContinuation = c.waitingForContinuation
        /\ d.literalCommandTag = c.literalCommandTag
    BY DEF PoppedResponse
  <2>4. /\ ts \in Seq(Line) /\ tc \in Seq(Response) /\ Idles(ts) /\ Served(s)
        /\ TypedResponses(tc) /\ DoneFollows(ts)
        /\ s.idling /\ ts # <<>> => ts[1].kind = "DONE"
        /\ (ts = <<>> /\ s.idling) \/ Ends(ts, "IDLE") => d.idling
        /\ PlusOnce(tc) /\ SizeOnce(ts) /\ SizesOf(ts, d.literalCommandTag)
        /\ Has(tc, "+") => d.waitForInitialIdle \/ d.waitingForContinuation
        /\ s.idling /\ d.waitForInitialIdle => Has(tc, "+")
        /\ d.waitForInitialIdle => EndsLater(tc)
        /\ Has(ts, "size") => d.waitingForContinuation /\ ~Has(tc, "+")
    BY <2>3, WiredParts
  <2>5. /\ \A t \in Tracked : Refused(tc, t) =>
             /\ d.waitingForContinuation /\ d.literalCommandTag = t
             /\ ~Has(tc, "+") /\ ~Has(ts, "size")
        /\ IF d.waitingForContinuation
           THEN /\ d.cmdQueue # <<>> /\ d.cmdQueue[1].kind = "LITERAL" /\ d.cmdQueue[1].numberSent
                /\ d.literalCommandTag = d.cmdQueue[1].tag
           ELSE d.literalCommandTag = NoTag
    BY <2>3, WiredParts
  <2> QED
    BY <1>4, <1>9, <2>1, <2>2, <2>4, <2>5, WiredParts DEF p
<1>11. Expected(c, tc, r)
  <2>1. r.kind = "CLOSED" => c.aborted
    BY <1>1, <1>3 DEF Tokens, q
  <2>2. x \in Tracked => x \in c.active \/ c.logout
    BY <1>1, <1>5 DEF Tokens
  <2>3. x = "IDLE" => c.idleCommandRunning
    BY <1>1, <1>5 DEF Tokens
  <2>4. Refuses(r, "IDLE") => c.waitForInitialIdle /\ ~Has(tc, "+")
    BY <1>3, WiredParts DEF q
  <2>5. r = Say("OK", "IDLE") => ~c.waitForInitialIdle
    BY <1>2, WiredParts DEF q, r
  <2> QED
    BY <1>2, <1>4, <2>1, <2>2, <2>3, <2>4, <2>5 DEF Expected, x, r
<1> QED
  BY <1>5, <1>10, <1>11 DEF q, r, x

\* Closing, as soon as a finished KeepMailboxOpenTask has been removed
Nearly(c) ==
    /\ "DELETE" \in c.active => c.deleting = "performed"
    /\ c.deleting = "performed" => /\ c.aborted /\ (~c.tagClose \/ ~c.present)
                                   /\ c.isRunning = "RUNNING" => ~c.present \/ c.finished

\* What holds while responses are handled
Open(c, ts, tc, s) ==
    /\ Typed(c) /\ Good(c) /\ Nearly(c) /\ Late(c) /\ c.online /\ c.failed = {}
    /\ Wired(c, ts, tc, s)
    /\ MayExecute(c) => IsPosted(c, "executeCommands")

Gone(c) ==
    /\ Typed(c) /\ Good(c) /\ Nearly(c) /\ Late(c) /\ ~c.online /\ c.failed = {}
    /\ c.posted = <<>> /\ c.respQueue = <<>> /\ c.finished

Result(c, ts, tc, s) ==
    \/ Shape(c) /\ c.failed \cap KnownFailures # {}
    \/ Open(c, ts, tc, s)
    \/ Gone(c)

\* Closing implies what the removal of the mailbox needs.
LEMMA NearlyCloses ==
    ASSUME NEW c, Closing(c)
    PROVE  Nearly(c)
BY DEF Closing, Nearly

\* The fields which the removal of a finished mailbox changes
LEMMA RemovedFields ==
    ASSUME NEW c, Shape(c), NEW d, d = Removed(c)
    PROVE  /\ But(c, d, {"present", "launcher"})
           /\ c.finished => d.launcher = "none" /\ d.present = FALSE
           /\ ~c.finished => d = c
BY ZenonT(60) DEF Shape, But, Fields, Removed

\* The finished mailbox is removed.
LEMMA Removing ==
    ASSUME NEW c, Typed(c), Good(c), Nearly(c), Late(c), NEW d, d = Removed(c)
    PROVE  /\ Typed(d) /\ Good(d) /\ Closing(d) /\ Late(d) /\ But(c, d, {"present", "launcher"})
           /\ c.finished => d.launcher = "none"
<1>1. /\ But(c, d, {"present", "launcher"})
      /\ c.finished => d.launcher = "none" /\ d.present = FALSE
      /\ ~c.finished => d = c
  <2>1. Shape(c)
    BY DEF Typed
  <2> QED
    BY <2>1, RemovedFields
<1>2. Duty(c) /\ Launch(c)
  BY DEF Good
<1>3. d.launcher \in Launcher
  <2>1. c.launcher \in Launcher /\ "none" \in Launcher
    BY DEF Typed, Launcher
  <2> QED
    BY <1>1, <2>1
<1>4. Typed(d)
  BY <1>1, <1>3 DEF Typed, But, Fields
<1>5. Order(d) /\ Stages(d) /\ Quiet(c, d)
  <2>1. {"present", "launcher"} \cap
          {"cmdQueue", "posted", "active", "idling", "mIdling", "waitForInitialIdle", "asked",
           "waitingForContinuation", "depending", "dependingAny", "requested"} = {}
    OBVIOUS
  <2> QED
    BY <1>1, <1>4, <2>1, Leaves
<1>6. Duty(d)
  BY <1>1, <1>2 DEF Duty, But, Fields
<1>7. Launch(d)
  <2>1. CASE c.finished
    <3>1. c.aborted /\ c.launcher # "alive" /\ ~c.mIdling /\ d.launcher = "none"
      BY <1>1, <1>2, <2>1 DEF Duty, Launch
    <3> QED
      BY <1>1, <1>2, <3>1 DEF Launch, But, Fields
  <2>2. CASE ~c.finished
    BY <1>1, <1>2, <2>2
  <2> QED
    BY <2>1, <2>2
<1>8. Closing(d)
  <2>1. CASE c.finished
    BY <1>1, <2>1 DEF Closing, Nearly, But, Fields
  <2>2. CASE ~c.finished
    BY <1>1, <2>2 DEF Closing, Nearly
  <2> QED
    BY <2>1, <2>2
<1>9. Late(d)
  BY <1>1 DEF Late, But, Fields
<1> QED
  BY <1>1, <1>4, <1>5, <1>6, <1>7, <1>8, <1>9 DEF Good

\* The handler of the event loop is no part of these.
LEMMA Handing ==
    ASSUME NEW b, Typed(b), Good(b), Closing(b), Late(b), NEW d, But(b, d, {"handler"})
    PROVE  Typed(d) /\ Good(d) /\ Closing(d) /\ Late(d)
<1>1. Typed(d)
  BY DEF Typed, But, Fields
<1>2. Order(d) /\ Stages(d)
  <2>1. {"handler"} \cap
          {"cmdQueue", "posted", "active", "idling", "mIdling", "waitForInitialIdle", "asked",
           "waitingForContinuation", "depending", "dependingAny", "requested"} = {}
    OBVIOUS
  <2> QED
    BY <1>1, <2>1, Leaves
<1>3. IsPosted(d, "terminate") <=> IsPosted(b, "terminate")
  BY DEF IsPosted, But, Fields
<1>4. Launch(d) /\ Duty(d)
  BY <1>3 DEF Good, Launch, Duty, Nothing, But, Fields
<1>5. Closing(d) /\ Late(d)
  BY DEF Closing, Late, But, Fields
<1> QED
  BY <1>1, <1>2, <1>4, <1>5 DEF Good

\* Nothing changes what is known of the wire.
SameWire(c, d) ==
    /\ d.cmdQueue = c.cmdQueue /\ d.respQueue = c.respQueue /\ d.idling = c.idling
    /\ d.waitForInitialIdle = c.waitForInitialIdle
    /\ d.waitingForContinuation = c.waitingForContinuation
    /\ d.literalCommandTag = c.literalCommandTag
    /\ d.idleCommandRunning = c.idleCommandRunning /\ d.active = c.active
    /\ d.logout = c.logout /\ d.online = c.online /\ d.deleting = c.deleting
    /\ d.aborted = c.aborted

\* Wired speaks of the fields of SameWire only.
LEMMA WireAlike ==
    ASSUME NEW c, NEW d, NEW ts, NEW tc, NEW s, Wired(c, ts, tc, s), SameWire(c, d)
    PROVE  Wired(d, ts, tc, s)
BY WireSame DEF SameWire

\* The turn of a response ends.
LEMMA Concluding ==
    ASSUME NEW c, NEW ts, NEW tc, NEW s, Result(c, ts, tc, s), NEW b, b = Removed(c),
           NEW d, d = [b EXCEPT !.handler = IF b.respQueue # <<>> THEN "responseReceived" ELSE "none"]
    PROVE  Safe(d, ts, tc, s)
<1>1. Shape(c)
  BY DEF Result, Open, Gone, Typed
<1>2. But(c, b, {"present", "launcher"})
  BY <1>1, RemovedFields
<1>3. /\ But(b, d, {"handler"})
      /\ d.handler = IF b.respQueue # <<>> THEN "responseReceived" ELSE "none"
  <2>1. Shape(b)
    BY <1>2 DEF But
  <2> QED
    BY <2>1, HandlerFields
<1>4. /\ d.cmdQueue = c.cmdQueue /\ d.respQueue = c.respQueue /\ d.idling = c.idling
      /\ d.mIdling = c.mIdling /\ d.posted = c.posted
      /\ d.waitForInitialIdle = c.waitForInitialIdle
      /\ d.waitingForContinuation = c.waitingForContinuation
      /\ d.literalCommandTag = c.literalCommandTag
      /\ d.idleCommandRunning = c.idleCommandRunning /\ d.active = c.active
      /\ d.logout = c.logout /\ d.online = c.online /\ d.deleting = c.deleting
      /\ d.aborted = c.aborted /\ d.failed = c.failed /\ d.launcher = b.launcher
  BY <1>2, <1>3 DEF But, Fields
<1>5. d.handler \in {"none", "executeCommands", "responseReceived"} /\ b.respQueue = d.respQueue
  BY <1>3 DEF But, Fields
<1>6. CASE c.failed \cap KnownFailures # {}
  BY <1>4, <1>6 DEF Safe, Fine
<1>7. CASE Open(c, ts, tc, s)
  <2>1. Typed(b) /\ Good(b) /\ Closing(b) /\ Late(b)
    BY <1>7, Removing DEF Open
  <2>2. Typed(d) /\ Good(d) /\ Closing(d) /\ Late(d)
    BY <1>3, <2>1, Handing
  <2>3. Wired(d, ts, tc, s)
    <3>1. Wired(c, ts, tc, s)
      BY <1>7 DEF Open
    <3>2. SameWire(c, d)
      BY <1>4 DEF SameWire
    <3> QED
      BY <3>1, <3>2, WireAlike
  <2>4. Awake(d)
    BY <1>3, <1>4, <1>5, <1>7 DEF Open, Awake, AwaitedBy, IsPosted, MayExecute
  <2> QED
    BY <1>4, <1>5, <1>7, <2>2, <2>3, <2>4 DEF Safe, Fine, Holds, Open
<1>8. CASE Gone(c)
  <2>1. Typed(b) /\ Good(b) /\ Closing(b) /\ Late(b) /\ b.launcher = "none"
    BY <1>8, Removing DEF Gone
  <2>2. Typed(d) /\ Good(d) /\ Closing(d) /\ Late(d)
    BY <1>3, <2>1, Handing
  <2>3. Over(d)
    BY <1>3, <1>4, <1>5, <1>8, <2>1 DEF Over, Gone
  <2> QED
    BY <1>4, <1>5, <1>8, <2>2, <2>3 DEF Safe, Fine, Holds, Gone
<1> QED
  BY <1>6, <1>7, <1>8 DEF Result

\* What a method which loses nothing makes of it
LEMMA OpenCalls ==
    ASSUME NEW c, NEW ts, NEW tc, NEW s, Typed(c), Late(c), c.online, c.failed = {},
           Wired(c, ts, tc, s), MayExecute(c) => IsPosted(c, "executeCommands"),
           NEW d, Typed(d), Good(d), Calls(c, d), Nearly(d)
    PROVE  Result(d, ts, tc, s)
<1>1. Late(d) /\ Wired(d, ts, tc, s)
  BY LateKept, WireCalls
<1>2. d.online /\ (d.failed = {} \/ d.failed \cap KnownFailures # {})
  BY DEF Calls, Steady
<1>3. MayExecute(d) => IsPosted(d, "executeCommands")
  <2>1. IsPosted(c, "executeCommands") => IsPosted(d, "executeCommands")
    BY DEF Calls, More, IsPosted
  <2>2. d.cmdQueue = c.cmdQueue /\ MayExecute(d) => MayExecute(c)
    BY DEF Calls, Steady, MayExecute
  <2> QED
    BY <2>1, <2>2 DEF Calls
<1> QED
  BY <1>1, <1>2, <1>3 DEF Result, Open, Typed

\* Where a response is handled: it is out of the queue.
Ready(c, ts, tc, s) ==
    /\ Typed(c) /\ Good(c) /\ Closing(c) /\ Late(c) /\ c.online /\ c.failed = {}
    /\ Wired(c, ts, tc, s)
    /\ MayExecute(c) => IsPosted(c, "executeCommands")

\* A response whose handler calls a method has a result which is safe.
LEMMA ReadyCalls ==
    ASSUME NEW c, NEW ts, NEW tc, NEW s, Ready(c, ts, tc, s), NEW d,
           Failing(c, d) \/ (Keeps(c, d) /\ Typed(d))
    PROVE  Result(d, ts, tc, s)
<1>1. CASE Failing(c, d)
  BY <1>1 DEF Failing, Result
<1>2. CASE Keeps(c, d) /\ Typed(d)
  <2>1. Nearly(d)
    BY <1>2, NearlyCloses DEF Keeps, Ready
  <2> QED
    BY <1>2, <2>1, OpenCalls DEF Keeps, Ready
<1> QED
  BY <1>1, <1>2

\* A method which changes nothing but what the lemma's set names
Plain(S) ==
    S \cap {"cmdQueue", "posted", "active", "idling", "mIdling", "waitForInitialIdle", "asked",
            "waitingForContinuation", "depending", "dependingAny", "requested"} = {}

\* Fields which neither tasks nor commands depend on
LEMMA PlainCalls ==
    ASSUME NEW c, Typed(c), Good(c), NEW d, Typed(d), NEW S, S \subseteq {"finished", "arrivals"},
           But(c, d, S)
    PROVE  Order(d) /\ Stages(d) /\ Calls(c, d)
<1>1. Plain(S)
  BY DEF Plain
<1>2. Order(d) /\ Stages(d) /\ Quiet(c, d)
  BY <1>1, Leaves DEF Plain
<1>3. Steady(c, d) /\ d.cmdQueue = c.cmdQueue /\ d.active = c.active
  BY DEF Steady, But, Fields
<1>4. Calls(c, d)
  BY <1>2, <1>3, CallsQuietly
<1> QED
  BY <1>2, <1>4

\* The field which the end of the mailbox changes
LEMMA FinishingFields ==
    ASSUME NEW c, Shape(c), NEW d, d = [c EXCEPT !.finished = TRUE]
    PROVE  But(c, d, {"finished"}) /\ d.finished = TRUE
BY DEF Shape, But, Fields

\* [CLOSED]
LEMMA Finishing ==
    ASSUME NEW c, Typed(c), Good(c), c.aborted, NEW d, d = [c EXCEPT !.finished = TRUE]
    PROVE  Keeps(c, d) /\ Typed(d)
<1>1. Shape(c)
  BY DEF Typed
<1>2. But(c, d, {"finished"}) /\ d.finished = TRUE
  BY <1>1, FinishingFields
<1>3. Typed(d)
  BY <1>2 DEF Typed, But, Fields
<1>4. Order(d) /\ Stages(d) /\ Calls(c, d)
  BY <1>2, <1>3, PlainCalls
<1>5. d.posted = c.posted
  BY <1>2 DEF But, Fields
<1>6. Launch(d) /\ Duty(d)
  BY <1>2, <1>5 DEF Good, Launch, Duty, Nothing, IsPosted, But, Fields
<1>7. Closing(c) => Closing(d)
  BY <1>2 DEF Closing, But, Fields
<1> QED
  BY <1>3, <1>4, <1>6, <1>7 DEF Keeps, Good

\* The field which new arrivals change
LEMMA ArrivalFields ==
    ASSUME NEW c, Shape(c), NEW all, NEW d, d = [c EXCEPT !.arrivals = all]
    PROVE  But(c, d, {"arrivals"}) /\ d.arrivals = all
BY DEF Shape, But, Fields

\* New arrivals are asked for, or have been.
LEMMA ArrivalsKept ==
    ASSUME NEW c, Typed(c), Good(c), NEW all, all \subseteq Arrivals,
           Calm(c) \/ all \subseteq c.arrivals, NEW d, d = [c EXCEPT !.arrivals = all]
    PROVE  Keeps(c, d) /\ Typed(d)
<1>1. Shape(c)
  BY DEF Typed
<1>2. But(c, d, {"arrivals"}) /\ d.arrivals = all
  BY <1>1, ArrivalFields
<1>3. Typed(d)
  BY <1>2 DEF Typed, But, Fields
<1>4. Order(d) /\ Stages(d) /\ Calls(c, d)
  BY <1>2, <1>3, PlainCalls
<1>5. d.posted = c.posted
  BY <1>2 DEF But, Fields
<1>6. Duty(d)
  BY <1>2 DEF Good, Duty, But, Fields
<1>7. Launch(d)
  BY <1>2, <1>5 DEF Good, Launch, Calm, Nothing, IsPosted, But, Fields
<1>8. Closing(c) => Closing(d)
  BY <1>2 DEF Closing, But, Fields
<1> QED
  BY <1>3, <1>4, <1>6, <1>7, <1>8 DEF Keeps, Good

\* EXISTS
LEMMA Arriving ==
    ASSUME NEW c, Typed(c), Good(c), NEW f \in Arrivals, NEW d, d = Arrived(c, f)
    PROVE  Keeps(c, d) /\ Typed(d)
<1> DEFINE a == breakOrCancelPossibleIdle(c)
           b == queueCommand(a, Cmd(f, "ATOM"))
<1>1. d = [b EXCEPT !.arrivals = b.arrivals \cup {f}]
  BY DEF Arrived
<1>2. a = breakOrCancelPossibleIdle(c) /\ b = queueCommand(a, Cmd(f, "ATOM"))
  OBVIOUS
<1> HIDE DEF a, b
<1>3. Keeps(c, a) /\ Typed(a) /\ Calm(a) /\ Good(a)
  BY <1>2, Break DEF Keeps
<1>4. f \in Tag \ (Tracked \cup {"IDLE"})
  BY OwnCommands DEF Tag, OwnTags
<1>5. ~a.mIdling
  BY <1>3 DEF Calm
<1>6. /\ Keeps(a, b) /\ Typed(b) /\ Unmoved(a, b) /\ ~b.mIdling /\ b.delayedEnter = a.delayedEnter
  BY <1>2, <1>3, <1>4, <1>5, SayCommand
<1>7. Calm(b) /\ Good(b) /\ b.arrivals \cup {f} \subseteq Arrivals
  <2>1. b.launcher = a.launcher /\ b.arrivals \subseteq Arrivals
    BY <1>6 DEF Unmoved, Typed
  <2> QED
    BY <1>3, <1>6, <2>1 DEF Calm, Keeps
<1>8. Keeps(b, d) /\ Typed(d)
  BY <1>1, <1>6, <1>7, ArrivalsKept
<1>9. Keeps(a, d)
  BY <1>3, <1>6, <1>8, KeepsTwice
<1> QED
  BY <1>3, <1>8, <1>9, KeepsTwice

\* The answer to UID FETCH of new arrivals
LEMMA ArrivalsFetched ==
    ASSUME NEW c, Typed(c), Good(c), Closing(c), Late(c), NEW f, NEW d, d = ArrivalsAnswered(c, f)
    PROVE  Failing(c, d) \/ (Keeps(c, d) /\ Typed(d))
<1> DEFINE b == [c EXCEPT !.arrivals = c.arrivals \ {f}]
<1>1. d = slotTaskDeleted(b, NoTag) /\ b = [c EXCEPT !.arrivals = c.arrivals \ {f}]
  BY DEF ArrivalsAnswered
<1> HIDE DEF b
<1>2. c.arrivals \ {f} \subseteq Arrivals /\ c.arrivals \ {f} \subseteq c.arrivals
  BY DEF Typed
<1>3. Keeps(c, b) /\ Typed(b)
  BY <1>1, <1>2, ArrivalsKept
<1>4. Good(b) /\ Closing(b) /\ Late(b)
  BY <1>3, LateKept DEF Keeps
<1>5. NoTag \notin b.active
  BY <1>3, OwnCommands DEF Typed
<1>6. Failing(b, d) \/ (Keeps(b, d) /\ Typed(d))
  BY <1>1, <1>3, <1>4, <1>5, Deleting
<1>7. Failing(b, d) => Failing(c, d)
  BY <1>3 DEF Failing, Keeps, Calls, Steady
<1>8. Keeps(b, d) => Keeps(c, d)
  BY <1>3, KeepsTwice
<1> QED
  BY <1>6, <1>7, <1>8

ClosedFields == {"tagClose", "deleting", "active"}
Condemns(b, d, act) ==
    But(b, d, ClosedFields) /\ d.tagClose = FALSE /\ d.deleting = "performed" /\ d.active = act
Closes(b, act) == [b EXCEPT !.tagClose = FALSE, !.deleting = "performed", !.active = act]

\* The fields which the answer to CLOSE changes
LEMMA ClosingFields ==
    ASSUME NEW b, Shape(b), NEW act, NEW d, d = Closes(b, act)
    PROVE  Condemns(b, d, act)
BY ZenonT(60) DEF Shape, But, Fields, ClosedFields, Closes, Condemns

\* The answer to CLOSE
LEMMA Closed ==
    ASSUME NEW c, NEW ts, NEW tc, NEW s, Ready(c, ts, tc, s), c.tagClose, c.present,
           NEW d, d = CloseAnswered(c)
    PROVE  Result(d, ts, tc, s)
<1> DEFINE b == queueCommand(c, Cmd("DELETE", "ATOM"))
           a == [b EXCEPT !.tagClose = FALSE, !.deleting = "performed", !.active = b.active \cup {"DELETE"}]
<1>1. d = terminate(a) /\ b = queueCommand(c, Cmd("DELETE", "ATOM"))
  BY DEF CloseAnswered
<1>2. a = Closes(b, b.active \cup {"DELETE"})
  BY DEF Closes
<1> HIDE DEF a, b
<1>3. Typed(c) /\ Good(c) /\ Closing(c) /\ Late(c) /\ Shape(c)
  BY DEF Ready, Typed
<1>4. c.deleting # "no" /\ c.deleting # "performed" /\ "DELETE" \notin c.active
  BY <1>3 DEF Good, Duty, Closing
<1>5. Calm(c) /\ (c.aborted \/ ~c.idleCommandRunning)
  BY <1>3, <1>4 DEF Calm, Good, Launch
<1>6. \A i \in DOMAIN c.posted : c.posted[i].event = "slotTaskDeleted" => c.posted[i].task # "DELETE"
  BY <1>3, <1>4 DEF Late
<1>7. Shape(b)
  BY <1>1, <1>3, QueueFields DEF But
<1>8. But(b, a, ClosedFields) /\ a.tagClose = FALSE /\ a.deleting = "performed"
      /\ a.active = b.active \cup {"DELETE"}
  <2>1. Condemns(b, a, b.active \cup {"DELETE"})
    BY <1>2, <1>7, ClosingFields
  <2> QED
    BY <2>1 DEF Condemns
<1>9. But(b, a, {"obtaining", "tagClose", "deleting", "active"})
  BY <1>8 DEF But, ClosedFields
<1>10. /\ Good(a) /\ Typed(a) /\ Calls(c, a)
       /\ But(c, a, {"obtaining", "tagClose", "deleting", "active", "cmdQueue", "posted",
                     "mIdling", "delayedEnter", "renewal"})
  <2>1. "DELETE" \in {"SELECT", "DELETE"} /\ "DELETE" # "SELECT"
        /\ (~c.logout \/ ("DELETE" = "DELETE" /\ c.deleting # "performed"))
    BY <1>4
  <2> QED
    BY <1>1, <1>3, <1>4, <1>5, <1>6, <1>8, <1>9, <2>1, Final
<1>11. a.aborted = c.aborted /\ a.idleCommandRunning = c.idleCommandRunning /\ a.present = c.present
       /\ a.failed = c.failed
  BY <1>10 DEF But, Fields
<1>12. Late(a) /\ Ending(a)
  BY <1>3, <1>8, <1>10, LateKept DEF Ending
<1>13. \/ Failing(a, d)
       \/ Keeps(a, d) /\ Typed(d) /\ (a.aborted => d = a) /\ (~a.aborted => Closing(d))
  BY <1>1, <1>5, <1>10, <1>11, <1>12, Terminating
<1>14. CASE Failing(a, d)
  BY <1>14 DEF Failing, Result
<1>15. CASE Keeps(a, d) /\ Typed(d) /\ (a.aborted => d = a) /\ (~a.aborted => Closing(d))
  <2>1. Nearly(d)
    <3>1. CASE a.aborted
      BY <1>8, <1>10, <1>15, <3>1 DEF Nearly, Good, Duty
    <3>2. CASE ~a.aborted
      BY <1>15, <3>2, NearlyCloses
    <3> QED
      BY <3>1, <3>2
  <2>2. Calls(c, d) /\ Good(d)
    BY <1>3, <1>10, <1>15, CallsTwice DEF Keeps
  <2> QED
    BY <1>3, <1>15, <2>1, <2>2, OpenCalls DEF Ready
<1> QED
  BY <1>13, <1>14, <1>15

Dropped(c) == [c EXCEPT !.respQueue = Tail(@)]

\* The response is out of the queue.
LEMMA Dropping ==
    ASSUME NEW c, Typed(c), Good(c), Closing(c), Late(c), c.respQueue # <<>>, NEW b, b = Dropped(c)
    PROVE  /\ Typed(b) /\ Good(b) /\ Closing(b) /\ Late(b) /\ But(c, b, {"respQueue"})
           /\ b.respQueue = Tail(c.respQueue)
<1>1. Shape(c) /\ Tail(c.respQueue) \in Seq(Response)
  BY Tailed DEF Typed
<1>2. But(c, b, {"respQueue"}) /\ b.respQueue = Tail(c.respQueue)
  BY <1>1 DEF Shape, But, Fields, Dropped
<1>3. Typed(b)
  BY <1>1, <1>2 DEF Typed, But, Fields
<1>4. Order(b) /\ Stages(b)
  <2>1. {"respQueue"} \cap
          {"cmdQueue", "posted", "active", "idling", "mIdling", "waitForInitialIdle", "asked",
           "waitingForContinuation", "depending", "dependingAny", "requested"} = {}
    OBVIOUS
  <2> QED
    BY <1>2, <1>3, <2>1, Leaves
<1>5. b.posted = c.posted
  BY <1>2 DEF But, Fields
<1>6. Launch(b) /\ Duty(b)
  BY <1>2, <1>5 DEF Good, Launch, Duty, Nothing, IsPosted, But, Fields
<1>7. Closing(b) /\ Late(b)
  BY <1>2 DEF Closing, Late, But, Fields
<1> QED
  BY <1>2, <1>3, <1>4, <1>6, <1>7 DEF Good

Finishes(b, act, ans) == [b EXCEPT !.active = act, !.answered = ans]
Finished(b, a, act) == But(b, a, {"active", "answered"}) /\ a.active = act

\* The fields which the answer to a task changes
LEMMA FinishesFields ==
    ASSUME NEW b, Shape(b), NEW act, NEW ans, NEW a, a = Finishes(b, act, ans)
    PROVE  Finished(b, a, act)
BY ZenonT(60) DEF Shape, But, Fields, Finishes, Finished

TellsOf(a, d, t) ==
    /\ Typed(d) /\ But(a, d, {"posted"}) /\ More(a.posted, d.posted)
    /\ \A i \in DOMAIN d.posted : \/ i \in DOMAIN a.posted
                                  \/ d.posted[i].event = "slotTaskDeleted" /\ d.posted[i].task = t

\* The deletion of a task is posted, and it alone.
LEMMA Telling ==
    ASSUME NEW a, Typed(a), NEW t \in Tag, NEW d, d = Post(a, "slotTaskDeleted", t)
    PROVE  TellsOf(a, d, t)
<1>1. "slotTaskDeleted" \in Events /\ t \in Tag \cup {NoTag}
  BY DEF Events
<1> QED
  BY <1>1, Posts DEF TellsOf

\* What a task which is finished leaves behind
LEMMA TaskEnds ==
    ASSUME NEW b, Typed(b), Good(b), Closing(b), Late(b), NEW t \in b.active,
           NEW d, d = TaskHandles(b, t)
    PROVE  /\ Typed(d) /\ Good(d) /\ Closing(d) /\ Late(d)
           /\ But(b, d, {"active", "answered", "posted"}) /\ d.active = b.active \ {t}
           /\ More(b.posted, d.posted)
<1> DEFINE a == Finishes(b, b.active \ {t}, b.answered \cup {t})
<1>1. d = Post(a, "slotTaskDeleted", t) /\ a = Finishes(b, b.active \ {t}, b.answered \cup {t})
  BY DEF TaskHandles, Finishes
<1> HIDE DEF a
<1>2. Shape(b) /\ t \in Tag
  BY OwnCommands DEF Typed
<1>3. But(b, a, {"active", "answered"}) /\ a.active = b.active \ {t}
  <2>1. Finished(b, a, b.active \ {t})
    BY <1>1, <1>2, FinishesFields
  <2> QED
    BY <2>1 DEF Finished
<1>4. IsFiniteSet(a.active) /\ a.active \subseteq Tracked
  <2>1. IsFiniteSet(b.active) /\ b.active \subseteq Tracked
    BY DEF Typed
  <2> QED
    BY <1>3, <2>1, FS_Difference
<1>5. Typed(a)
  BY <1>3, <1>4 DEF Typed, But, Fields
<1>6. /\ Typed(d) /\ But(a, d, {"posted"}) /\ More(a.posted, d.posted)
      /\ \A i \in DOMAIN d.posted : \/ i \in DOMAIN a.posted
                                    \/ d.posted[i].event = "slotTaskDeleted" /\ d.posted[i].task = t
  <2>1. TellsOf(a, d, t)
    BY <1>1, <1>2, <1>5, Telling
  <2> QED
    BY <2>1 DEF TellsOf
<1>7. But(b, d, {"active", "answered", "posted"}) /\ d.active = b.active \ {t} /\ a.posted = b.posted
  BY <1>3, <1>6 DEF But, Fields
<1>8. \A i \in DOMAIN d.posted :
         \/ i \in DOMAIN b.posted /\ d.posted[i] = b.posted[i]
         \/ d.posted[i].event = "slotTaskDeleted" /\ d.posted[i].task = t
  BY <1>6, <1>7 DEF More
<1>9. /\ d.depending = b.depending /\ d.dependingAny = b.dependingAny /\ d.requested = b.requested
      /\ d.asked = b.asked /\ d.aborted = b.aborted /\ d.deleting = b.deleting
  BY <1>7 DEF But, Fields
<1>10. Waiting(d) = Waiting(b)
  BY <1>9 DEF Waiting
<1>11. Stages(d)
  <2>1. Stages(b)
    BY DEF Good
  <2>2. /\ t \notin Waiting(b) /\ t \notin d.active /\ (t \in Tasks => t \in b.asked)
    BY <1>7, <2>1 DEF Stages
  <2>3. \A i \in DOMAIN d.posted : d.posted[i].event = "slotTaskDeleted" =>
           /\ d.posted[i].task \notin Waiting(d) \cup d.active
           /\ d.posted[i].task \in Tasks => d.posted[i].task \in d.asked
    BY <1>7, <1>8, <1>9, <1>10, <2>1, <2>2 DEF Stages
  <2> QED
    BY <1>7, <1>9, <1>10, <2>1, <2>3 DEF Stages
<1>12. Order(d)
  <2>1. /\ d.cmdQueue = b.cmdQueue /\ d.idling = b.idling /\ d.mIdling = b.mIdling
        /\ d.waitForInitialIdle = b.waitForInitialIdle
        /\ d.waitingForContinuation = b.waitingForContinuation
    BY <1>7 DEF But, Fields
  <2> QED
    BY <2>1, OrderSame DEF Good
<1>13. Duty(d)
  BY <1>7 DEF Good, Duty, But, Fields
<1>14. Launch(d)
  <2>1. IsPosted(d, "terminate") => IsPosted(b, "terminate")
    BY <1>8 DEF IsPosted
  <2>2. Nothing(b) => Nothing(d)
    BY <1>7 DEF Nothing, But, Fields
  <2> QED
    BY <1>7, <2>1, <2>2 DEF Good, Launch, But, Fields
<1>15. Closing(d)
  BY <1>7 DEF Closing, But, Fields
<1>16. Late(d)
  <2>1. t = "SELECT" => b.aborted
    BY DEF Good, Duty
  <2>2. t = "DELETE" => b.deleting = "performed"
    BY DEF Closing
  <2> QED
    BY <1>8, <1>9, <2>1, <2>2 DEF Late
<1> QED
  BY <1>6, <1>7, <1>11, <1>12, <1>13, <1>14, <1>15, <1>16 DEF Good

\* A task takes its response.
LEMMA TaskTakes ==
    ASSUME NEW c, NEW ts, NEW tc, NEW s, Typed(c), Good(c), Closing(c), Late(c), c.online, c.failed = {},
           Wired(c, ts, tc, s), MayExecute(c) => IsPosted(c, "executeCommands"), c.respQueue # <<>>,
           c.respQueue[1].tag \in c.active, NEW d, d = TaskHandles(Dropped(c), c.respQueue[1].tag)
    PROVE  Result(d, ts, tc, s)
<1> DEFINE b == Dropped(c)
           t == c.respQueue[1].tag
<1>1. b = Dropped(c) /\ d = TaskHandles(b, t)
  OBVIOUS
<1> HIDE DEF b
<1>2. /\ Typed(b) /\ Good(b) /\ Closing(b) /\ Late(b) /\ But(c, b, {"respQueue"})
      /\ b.respQueue = Tail(c.respQueue)
  BY <1>1, Dropping
<1>3. b.active = c.active /\ b.posted = c.posted
  BY <1>2 DEF But, Fields
<1>4. /\ Typed(d) /\ Good(d) /\ Closing(d) /\ Late(d)
      /\ But(b, d, {"active", "answered", "posted"}) /\ d.active = b.active \ {t}
      /\ More(b.posted, d.posted)
  BY <1>1, <1>2, <1>3, TaskEnds
<1>5. /\ d.cmdQueue = c.cmdQueue /\ d.idling = c.idling
      /\ d.waitForInitialIdle = c.waitForInitialIdle
      /\ d.waitingForContinuation = c.waitingForContinuation
      /\ d.literalCommandTag = c.literalCommandTag
      /\ d.idleCommandRunning = c.idleCommandRunning
      /\ d.logout = c.logout /\ d.online = c.online /\ d.deleting = c.deleting /\ d.aborted = c.aborted
      /\ d.failed = c.failed /\ d.respQueue = b.respQueue
  BY <1>2, <1>4, ZenonT(60) DEF But, Fields
<1>6. PoppedResponse(c, d)
  BY <1>2, <1>3, <1>4, <1>5 DEF PoppedResponse
<1>7. Wired(d, ts, tc, s)
  BY <1>6, WiredPopped
<1>8. MayExecute(d) => IsPosted(d, "executeCommands")
  <2>1. SUFFICES ASSUME MayExecute(d) PROVE IsPosted(d, "executeCommands")
    OBVIOUS
  <2>2. MayExecute(c)
    BY <1>5, <2>1 DEF MayExecute
  <2>3. PICK i \in DOMAIN c.posted : c.posted[i].event = "executeCommands"
    BY <2>2 DEF IsPosted
  <2>4. i \in DOMAIN d.posted /\ d.posted[i] = c.posted[i]
    BY <1>3, <1>4, <2>3 DEF More
  <2> QED
    BY <2>3, <2>4 DEF IsPosted
<1> QED
  BY <1>4, <1>5, <1>7, <1>8, NearlyCloses DEF Result, Open

\* Any other response: its handler finds this.
LEMMA Unclaimed ==
    ASSUME NEW c, NEW ts, NEW tc, NEW s, Typed(c), Good(c), Closing(c), Late(c), c.online, c.failed = {},
           Wired(c, ts, tc, s), MayExecute(c) => IsPosted(c, "executeCommands"), c.respQueue # <<>>,
           c.respQueue[1].tag \notin c.active, NEW b, b = Dropped(c)
    PROVE  /\ Ready(b, ts, tc, s) /\ Expected(b, tc, c.respQueue[1])
           /\ c.respQueue[1].tag = "IDLE" => ~Somewhere(b, ts, tc, s, "IDLE")
<1>1. /\ Typed(b) /\ Good(b) /\ Closing(b) /\ Late(b) /\ But(c, b, {"respQueue"})
      /\ b.respQueue = Tail(c.respQueue)
  BY Dropping
<1>2. /\ b.cmdQueue = c.cmdQueue /\ b.idling = c.idling
      /\ b.waitForInitialIdle = c.waitForInitialIdle
      /\ b.waitingForContinuation = c.waitingForContinuation
      /\ b.literalCommandTag = c.literalCommandTag
      /\ b.idleCommandRunning = c.idleCommandRunning /\ b.active = c.active /\ b.posted = c.posted
      /\ b.logout = c.logout /\ b.online = c.online /\ b.deleting = c.deleting /\ b.aborted = c.aborted
      /\ b.failed = c.failed
  BY <1>1 DEF But, Fields
<1>3. PoppedResponse(c, b)
  BY <1>1, <1>2 DEF PoppedResponse
<1>4. /\ Wired(b, ts, tc, s) /\ Expected(c, tc, c.respQueue[1])
      /\ c.respQueue[1].tag = "IDLE" => ~Somewhere(b, ts, tc, s, "IDLE")
  BY <1>3, WiredPopped
<1>5. Expected(b, tc, c.respQueue[1])
  BY <1>2, <1>4 DEF Expected
<1>6. MayExecute(b) => IsPosted(b, "executeCommands")
  BY <1>2 DEF MayExecute, IsPosted
<1> QED
  BY <1>1, <1>2, <1>4, <1>5, <1>6 DEF Ready

\* What an answer to IDLE may change
OfIdle == {"mIdling", "renewal", "idling", "idleCommandRunning", "tagIdle", "waitForInitialIdle",
           "posted", "launcher", "shouldRunIdle", "delayedEnter"}

IdleIsOver(b, z) ==
    /\ But(b, z, OfIdle)
    /\ z.mIdling = FALSE /\ z.idleCommandRunning = FALSE /\ z.tagIdle = FALSE
    /\ z.idling \in BOOLEAN /\ (z.idling <=> b.idling /\ ~b.mIdling)
    /\ z.launcher \in {b.launcher, "none"} /\ z.delayedEnter \in {b.delayedEnter, "stopped"}

\* When the launcher thinks that IDLE runs and it is answered, no command is queued.
LEMMA AnsweredIdle ==
    ASSUME NEW b, NEW ts, NEW tc, NEW s, Typed(b), Good(b), ~Somewhere(b, ts, tc, s, "IDLE"), b.mIdling
    PROVE  b.cmdQueue = <<>> /\ b.idling
<1> DEFINE q == b.cmdQueue
<1>1. ASSUME q # <<>> PROVE FALSE
  <2>1. q \in Seq(Command) /\ Len(q) \in DOMAIN q /\ q[Len(q)] \in Command
    BY <1>1 DEF Typed
  <2>2. q[Len(q)].kind = "IDLE"
    BY <1>1 DEF Good, Order, EndsInIdle
  <2>3. q[Len(q)].tag = "IDLE" /\ ~q[Len(q)].numberSent
    BY <2>1, <2>2 DEF Good, Order
  <2>4. q[Len(q)] \in Commands("IDLE")
    BY <2>1, <2>2, <2>3 DEF Commands
  <2>5. Len(q) \in Queued(b, tc, "IDLE")
    BY <2>1, <2>3, <2>4 DEF Queued, Ordered, At
  <2> QED
    BY <2>5 DEF Somewhere
<1> QED
  BY <1>1 DEF Good, Order, EndsInIdle

\* The order of the commands when IDLE is over
LEMMA OrderAfterIdle ==
    ASSUME NEW b, NEW z, Order(b), IdleIsOver(b, z), ~z.waitForInitialIdle,
           b.mIdling => b.cmdQueue = <<>> /\ b.idling
    PROVE  Order(z)
<1>1. /\ z.cmdQueue = b.cmdQueue /\ z.waitingForContinuation = b.waitingForContinuation
      /\ z.mIdling = FALSE /\ z.idling \in BOOLEAN /\ (z.idling <=> b.idling /\ ~b.mIdling)
  BY DEF IdleIsOver, But, Fields, OfIdle
<1>2. CASE b.mIdling
  <2>1. z.cmdQueue = <<>> /\ ~z.idling /\ DOMAIN z.cmdQueue = {}
    BY <1>1, <1>2
  <2>2. z.mIdling <=> EndsInIdle(z)
    BY <1>1, <2>1 DEF EndsInIdle
  <2> QED
    BY <1>1, <2>1, <2>2 DEF Order
<1>3. CASE ~b.mIdling
  <2>1. z.idling = b.idling /\ ~b.mIdling
    BY <1>1, <1>3 DEF Order
  <2>2. z.mIdling <=> EndsInIdle(z)
    BY <1>1, <2>1 DEF EndsInIdle, Order
  <2> QED
    BY <1>1, <2>1, <2>2, ZenonT(60) DEF Order
<1> QED
  BY <1>2, <1>3

\* The client when IDLE is over
LEMMA GoodAfterIdle ==
    ASSUME NEW b, NEW z, Typed(b), Good(b), IdleIsOver(b, z), z.posted \in Seq(Posted), Quiet(b, z),
           ~z.waitForInitialIdle, b.mIdling => b.cmdQueue = <<>> /\ b.idling
    PROVE  Typed(z) /\ Good(z)
<1>1. Typed(z)
  <2>1. z.launcher \in Launcher
    BY DEF IdleIsOver, Typed, Launcher
  <2> QED
    BY <2>1, ZenonT(60) DEF Typed, IdleIsOver, But, Fields, OfIdle
<1>2. Order(z)
  BY OrderAfterIdle DEF Good
<1>3. /\ z.depending = b.depending /\ z.dependingAny = b.dependingAny /\ z.requested = b.requested
      /\ z.asked = b.asked /\ z.active = b.active /\ z.aborted = b.aborted /\ z.deleting = b.deleting
      /\ z.arrivals = b.arrivals
  BY DEF IdleIsOver, But, Fields, OfIdle
<1>4. Stages(z)
  BY <1>3, StagesKept DEF Good
<1>5. Duty(z)
  BY DEF Good, Duty, IdleIsOver, But, Fields, OfIdle
<1>6. Launch(z)
  <2>1. IsPosted(z, "terminate") => IsPosted(b, "terminate")
    BY ToTerminateKept
  <2>2. Nothing(b) => Nothing(z)
    BY <1>3 DEF Nothing
  <2>3. /\ b.mIdling \/ (b.launcher = "alive" /\ b.delayedEnter # "stopped") => Nothing(b)
        /\ b.aborted => b.launcher # "alive"
        /\ b.launcher = "alive" /\ IsPosted(b, "terminate") => b.delayedEnter # "due"
        /\ b.launcher = "alive" /\ b.deleting # "no" => b.delayedEnter = "stopped"
    BY DEF Good, Launch
  <2>4. /\ z.mIdling = FALSE /\ z.idleCommandRunning = FALSE /\ z.tagIdle = FALSE
        /\ z.launcher \in {b.launcher, "none"} /\ z.delayedEnter \in {b.delayedEnter, "stopped"}
    BY DEF IdleIsOver
  <2> QED
    BY <1>3, <2>1, <2>2, <2>3, <2>4 DEF Launch
<1> QED
  BY <1>1, <1>2, <1>4, <1>5, <1>6 DEF Good

\* The wire when IDLE is over: nothing speaks of it any more.
LEMMA WiredAfterIdle ==
    ASSUME NEW b, NEW ts, NEW tc, NEW s, NEW z, Typed(b), Wired(b, ts, tc, s),
           ~Somewhere(b, ts, tc, s, "IDLE"), IdleIsOver(b, z), ~z.waitForInitialIdle,
           ~b.waitForInitialIdle \/ ~Has(tc, "+")
    PROVE  Wired(z, ts, tc, s)
<1>1. /\ z.cmdQueue = b.cmdQueue /\ z.respQueue = b.respQueue
      /\ z.waitingForContinuation = b.waitingForContinuation
      /\ z.literalCommandTag = b.literalCommandTag
      /\ z.active = b.active /\ z.logout = b.logout /\ z.online = b.online
      /\ z.deleting = b.deleting /\ z.aborted = b.aborted
  BY DEF IdleIsOver, But, Fields, OfIdle
<1>2. /\ ts \in Seq(Line) /\ tc \in Seq(Response) /\ Idles(ts) /\ b.respQueue \in Seq(Response)
  BY WiredParts DEF Typed
<1>3. /\ Sent(ts, "IDLE") = {} /\ About(tc, "IDLE") = {} /\ About(b.respQueue, "IDLE") = {} /\ ~s.idling
  BY DEF Somewhere, Done
<1>4. ~Has(ts, "IDLE") /\ ~Refused(tc, "IDLE") /\ ~Refused(b.respQueue, "IDLE")
  BY <1>2, <1>3, NoIdleLine, RefusedAbout
<1>5. ~Ends(ts, "IDLE")
  <2>1. ts # <<>> => Len(ts) \in DOMAIN ts
    BY <1>2
  <2> QED
    BY <1>4, <2>1 DEF Ends, Has
<1>6. \A t : /\ Once(z, ts, tc, s, t) <=> Once(b, ts, tc, s, t)
             /\ Somewhere(z, ts, tc, s, t) <=> Somewhere(b, ts, tc, s, t)
  <2>1. \A t : Ordered(z, t) = Ordered(b, t) /\ Queued(z, tc, t) = Queued(b, tc, t)
    BY <1>1 DEF Ordered, Queued
  <2> QED
    BY <1>1, <2>1 DEF Once, Somewhere
<1>7. Tokens(z, ts, tc, s)
  <2>1. Tokens(b, ts, tc, s)
    BY WiredParts
  <2> QED
    BY <1>1, <1>6, <2>1 DEF Tokens
<1>8. Has(tc, "+") => z.waitForInitialIdle \/ z.waitingForContinuation
  BY <1>1, WiredParts
<1>9. /\ Served(s) /\ TypedResponses(tc) /\ TypedResponses(z.respQueue) /\ ~Has(z.respQueue, "+")
      /\ DoneFollows(ts) /\ PlusOnce(tc) /\ SizeOnce(ts) /\ SizesOf(ts, z.literalCommandTag)
      /\ Has(ts, "size") => z.waitingForContinuation /\ ~Has(tc, "+")
      /\ \A t \in Tracked : Refused(tc, t) =>
           /\ z.waitingForContinuation /\ z.literalCommandTag = t
           /\ ~Has(tc, "+") /\ ~Has(ts, "size")
      /\ IF z.waitingForContinuation
         THEN /\ z.cmdQueue # <<>> /\ z.cmdQueue[1].kind = "LITERAL" /\ z.cmdQueue[1].numberSent
              /\ z.literalCommandTag = z.cmdQueue[1].tag
         ELSE z.literalCommandTag = NoTag
  BY <1>1, WiredParts
<1>10. ~Refused(z.respQueue, "IDLE")
  BY <1>1, <1>4
<1> QED
  BY <1>2, <1>3, <1>4, <1>5, <1>7, <1>8, <1>9, <1>10, WiredParts

\* IDLE is over: nothing else has changed.
LEMMA ReadyAfterIdle ==
    ASSUME NEW b, NEW ts, NEW tc, NEW s, NEW z, Ready(b, ts, tc, s), ~Somewhere(b, ts, tc, s, "IDLE"),
           IdleIsOver(b, z), ~z.waitForInitialIdle, ~b.waitForInitialIdle \/ ~Has(tc, "+"),
           z.posted \in Seq(Posted), Quiet(b, z), Undeleted(b, z),
           MayExecute(b) \/ b.waitForInitialIdle => IsPosted(z, "executeCommands")
    PROVE  Ready(z, ts, tc, s)
<1>1. Typed(b) /\ Good(b) /\ Closing(b) /\ Late(b) /\ Wired(b, ts, tc, s)
  BY DEF Ready
<1>2. b.mIdling => b.cmdQueue = <<>> /\ b.idling
  BY <1>1, AnsweredIdle
<1>3. Typed(z) /\ Good(z)
  BY <1>1, <1>2, GoodAfterIdle
<1>4. Wired(z, ts, tc, s)
  BY <1>1, WiredAfterIdle
<1>5. Closing(z) /\ z.online /\ z.failed = {}
  BY DEF Ready, Closing, IdleIsOver, But, Fields, OfIdle
<1>6. Late(z)
  <2>1. z.aborted = b.aborted /\ z.deleting = b.deleting
    BY DEF IdleIsOver, But, Fields, OfIdle
  <2>2. \A i \in DOMAIN z.posted : z.posted[i].event = "slotTaskDeleted" =>
          i \in DOMAIN b.posted /\ z.posted[i] = b.posted[i]
    BY DEF Quiet, Undeleted, More
  <2> QED
    BY <1>1, <2>1, <2>2 DEF Late
<1>7. MayExecute(z) => MayExecute(b) \/ b.waitForInitialIdle
  BY DEF MayExecute, IdleIsOver, But, Fields, OfIdle
<1> QED
  BY <1>3, <1>4, <1>5, <1>6, <1>7 DEF Ready

\* Two clients with the same fields are the same.
LEMMA SameFields ==
    ASSUME NEW a, NEW b, Shape(a), Shape(b), \A f \in Fields : a[f] = b[f]
    PROVE  a = b
BY DEF Shape

\* idleCommandCompleted(), as far as its assertions hold
Ends1(b) == [b EXCEPT !.mIdling = FALSE, !.renewal = "stopped"]
Ends2(b) == [b EXCEPT !.idling = FALSE]
Ends3(b) == [b EXCEPT !.idleCommandRunning = FALSE]

\* The fields which the end of IDLE changes, one after another
LEMMA EndsFields ==
    ASSUME NEW b, Shape(b)
    PROVE  /\ But(b, Ends1(b), {"mIdling", "renewal"}) /\ Ends1(b).mIdling = FALSE
           /\ But(b, Ends2(b), {"idling"}) /\ Ends2(b).idling = FALSE
           /\ But(b, Ends3(b), {"idleCommandRunning"}) /\ Ends3(b).idleCommandRunning = FALSE
BY ZenonT(60) DEF Shape, But, Fields, Ends1, Ends2, Ends3

\* idleCommandCompleted(): what its assertions and assignments come to
LEMMA Completing ==
    ASSUME NEW b, Shape(b), b.mIdling \in BOOLEAN, b.idling \in BOOLEAN, b.idleCommandRunning,
           b.mIdling => ~b.waitForInitialIdle /\ b.idling, NEW w, w = idleCommandCompleted(b)
    PROVE  /\ But(b, w, {"mIdling", "renewal", "idling", "idleCommandRunning"})
           /\ w.mIdling = FALSE /\ w.idleCommandRunning = FALSE
           /\ w.idling \in BOOLEAN /\ (w.idling <=> b.idling /\ ~b.mIdling)
<1> DEFINE a == Ends1(b)
           x == Ends2(a)
<1>1. But(b, a, {"mIdling", "renewal"}) /\ a.mIdling = FALSE
  BY EndsFields
<1> HIDE DEF a
<1>2. But(a, x, {"idling"}) /\ x.idling = FALSE
  <2>1. Shape(a)
    BY <1>1 DEF But
  <2> QED
    BY <2>1, EndsFields
<1>3. a.waitForInitialIdle = b.waitForInitialIdle /\ a.idling = b.idling
  BY <1>1 DEF But, Fields
<1>4. CASE b.mIdling
  <2>1. idleMagicallyTerminatedByServer(a) = x
    BY <1>3, <1>4 DEF idleMagicallyTerminatedByServer, Check, Ends2
  <2>2. w = Ends3(x)
    BY <1>4, <2>1 DEF idleCommandCompleted, Check, Ends1, Ends3, a
  <2> HIDE DEF x
  <2>3. But(x, w, {"idleCommandRunning"}) /\ w.idleCommandRunning = FALSE
    <3>1. Shape(x)
      BY <1>2 DEF But
    <3> QED
      BY <2>2, <3>1, EndsFields
  <2> QED
    BY <1>1, <1>2, <1>4, <2>3 DEF But, Fields
<1>5. CASE ~b.mIdling
  <2>1. w = Ends3(b)
    BY <1>5 DEF idleCommandCompleted, Check, Ends3
  <2>2. But(b, w, {"idleCommandRunning"}) /\ w.idleCommandRunning = FALSE
    BY <2>1, EndsFields
  <2> QED
    BY <1>5, <2>2 DEF But, Fields
<1> QED
  BY <1>4, <1>5

\* IDLE may start again, or not.
StartsAgain(w) == IF canRunIdleRightNow(w) THEN enterIdleLater(w) ELSE w
Untagged(w) == [w EXCEPT !.tagIdle = FALSE]

\* The field which forgetting the tag of IDLE changes
LEMMA UntaggedFields ==
    ASSUME NEW w, Shape(w), NEW z, z = Untagged(w)
    PROVE  But(w, z, {"tagIdle"}) /\ z.tagIdle = FALSE
BY DEF Shape, But, Fields, Untagged

\* The field which enterIdleLater() changes
LEMMA EnterFields ==
    ASSUME NEW w, Shape(w), w.mIdling = FALSE, NEW e, e = enterIdleLater(w)
    PROVE  But(w, e, {"delayedEnter"}) /\ e.delayedEnter = "started"
BY DEF Shape, But, Fields, enterIdleLater

\* The tag of IDLE may be forgotten before IDLE is planned again.
LEMMA StartsUntagged ==
    ASSUME NEW w, Shape(w), w.mIdling = FALSE, NEW z, z = Untagged(w), NEW e,
           e = Untagged(StartsAgain(w))
    PROVE  e = StartsAgain(z) /\ (canRunIdleRightNow(z) <=> canRunIdleRightNow(w))
<1>1. But(w, z, {"tagIdle"}) /\ z.tagIdle = FALSE
  BY UntaggedFields
<1>2. canRunIdleRightNow(z) <=> canRunIdleRightNow(w)
  BY <1>1 DEF But, Fields, canRunIdleRightNow
<1>3. CASE canRunIdleRightNow(w)
  <2> DEFINE v == enterIdleLater(w)
             y == enterIdleLater(z)
  <2>1. e = Untagged(v) /\ v = enterIdleLater(w) /\ StartsAgain(z) = y /\ y = enterIdleLater(z)
    BY <1>2, <1>3 DEF StartsAgain
  <2> HIDE DEF v, y
  <2>2. But(w, v, {"delayedEnter"}) /\ v.delayedEnter = "started"
    BY <2>1, EnterFields
  <2>3. But(v, e, {"tagIdle"}) /\ e.tagIdle = FALSE
    BY <2>1, <2>2, UntaggedFields DEF But
  <2>4. Shape(z) /\ z.mIdling = FALSE
    BY <1>1 DEF But, Fields
  <2>5. But(z, y, {"delayedEnter"}) /\ y.delayedEnter = "started"
    BY <2>1, <2>4, EnterFields
  <2>6. \A f \in Fields : e[f] = y[f]
    <3> SUFFICES ASSUME NEW f \in Fields PROVE e[f] = y[f]
      OBVIOUS
    <3>1. CASE f = "tagIdle"
      <4>1. e[f] = FALSE /\ f \in Fields \ {"delayedEnter"}
        BY <2>3, <3>1
      <4>2. y[f] = z[f]
        BY <2>5, <4>1 DEF But
      <4> QED
        BY <1>1, <3>1, <4>1, <4>2
    <3>2. CASE f = "delayedEnter"
      <4>1. f \in Fields \ {"tagIdle"} /\ y[f] = "started" /\ v[f] = "started"
        BY <2>2, <2>5, <3>2
      <4> QED
        BY <2>3, <4>1 DEF But
    <3>3. CASE f \notin {"tagIdle", "delayedEnter"}
      <4>1. f \in Fields \ {"tagIdle"} /\ f \in Fields \ {"delayedEnter"}
        BY <3>3
      <4>2. e[f] = v[f] /\ v[f] = w[f] /\ y[f] = z[f] /\ z[f] = w[f]
        BY <1>1, <2>2, <2>3, <2>5, <4>1 DEF But
      <4> QED
        BY <4>2
    <3> QED
      BY <3>1, <3>2, <3>3
  <2>7. Shape(e) /\ Shape(y)
    BY <2>3, <2>5 DEF But
  <2> QED
    BY <1>2, <2>1, <2>6, <2>7, SameFields
<1>4. CASE ~canRunIdleRightNow(w)
  BY <1>2, <1>4 DEF StartsAgain
<1> QED
  BY <1>3, <1>4

\* When IDLE is over a mailbox which is waited for is left.
LEMMA IdleThenLeave ==
    ASSUME NEW z, NEW ts, NEW tc, NEW s, Ready(z, ts, tc, s), ~z.idleCommandRunning,
           NEW e, Keeps(z, e), Typed(e),
           NEW d, d = IF isReadyToTerminate(e) THEN terminate(e) ELSE e
    PROVE  Result(d, ts, tc, s)
<1>1. Typed(z) /\ Good(z) /\ Late(z)
  BY DEF Ready
<1>2. Good(e) /\ Late(e) /\ ~e.idleCommandRunning
  BY <1>1, LateKept DEF Keeps, Calls, Steady
<1>3. CASE isReadyToTerminate(e)
  <2>1. d = terminate(e)
    BY <1>3
  <2>2. Failing(e, d) \/ (Keeps(e, d) /\ Typed(d))
    BY <1>2, <2>1, Terminating
  <2>3. Failing(e, d) => Failing(z, d)
    BY DEF Failing, Keeps, Calls, Steady
  <2>4. Keeps(e, d) => Keeps(z, d)
    BY <1>1, KeepsTwice
  <2> QED
    BY <2>2, <2>3, <2>4, ReadyCalls
<1>4. CASE ~isReadyToTerminate(e)
  BY <1>4, ReadyCalls
<1> QED
  BY <1>3, <1>4

\* OK for IDLE
LEMMA AnsweredWell ==
    ASSUME NEW b, NEW ts, NEW tc, NEW s, Ready(b, ts, tc, s), ~Somewhere(b, ts, tc, s, "IDLE"),
           b.idleCommandRunning, ~b.waitForInitialIdle, NEW d, d = IdleAnswered(b, "OK")
    PROVE  Result(d, ts, tc, s)
<1> DEFINE w == idleCommandCompleted(b)
           z == Untagged(w)
           e == Untagged(StartsAgain(w))
<1>1. /\ w = idleCommandCompleted(b) /\ z = Untagged(w) /\ e = Untagged(StartsAgain(w))
      /\ d = IF isReadyToTerminate(e) THEN terminate(e) ELSE e
  BY DEF IdleAnswered, Untagged, StartsAgain
<1> HIDE DEF w, z, e
<1>2. Typed(b) /\ Good(b) /\ Shape(b) /\ b.mIdling \in BOOLEAN /\ b.idling \in BOOLEAN
  BY DEF Ready, Typed, Good, Order
<1>3. b.mIdling => b.cmdQueue = <<>> /\ b.idling
  BY <1>2, AnsweredIdle
<1>4. /\ But(b, w, {"mIdling", "renewal", "idling", "idleCommandRunning"})
      /\ w.mIdling = FALSE /\ w.idleCommandRunning = FALSE
      /\ w.idling \in BOOLEAN /\ (w.idling <=> b.idling /\ ~b.mIdling)
  <2>1. b.mIdling => ~b.waitForInitialIdle /\ b.idling
    BY <1>3
  <2> QED
    BY <1>1, <1>2, <2>1, Completing
<1>5. But(w, z, {"tagIdle"}) /\ z.tagIdle = FALSE /\ Shape(w)
  <2>1. Shape(w)
    BY <1>4 DEF But
  <2> QED
    BY <1>1, <2>1, UntaggedFields
<1>6. IdleIsOver(b, z) /\ z.posted = b.posted /\ ~z.waitForInitialIdle
  BY <1>4, <1>5 DEF IdleIsOver, But, Fields, OfIdle
<1>7. Ready(z, ts, tc, s)
  <2>1. z.posted \in Seq(Posted) /\ Quiet(b, z) /\ Undeleted(b, z)
    BY <1>2, <1>6, Sizes DEF Typed, Quiet, More, Undeleted
  <2>2. MayExecute(b) \/ b.waitForInitialIdle => IsPosted(z, "executeCommands")
    BY <1>6 DEF Ready, IsPosted
  <2> QED
    BY <1>6, <2>1, <2>2, ReadyAfterIdle
<1>8. e = StartsAgain(z) /\ (canRunIdleRightNow(z) <=> canRunIdleRightNow(w))
  BY <1>1, <1>4, <1>5, StartsUntagged
<1>9. Typed(z) /\ Good(z) /\ ~z.idleCommandRunning
  BY <1>6, <1>7 DEF Ready, IdleIsOver
<1>10. Keeps(z, e) /\ Typed(e)
  <2>1. CASE canRunIdleRightNow(z)
    <3>1. e = enterIdleLater(z)
      BY <1>8, <2>1 DEF StartsAgain
    <3>2. Nothing(z)
      BY <2>1 DEF canRunIdleRightNow, Nothing
    <3>3. z.launcher = "alive" => z.deleting = "no"
      <4>1. z.launcher = b.launcher /\ z.deleting = b.deleting
        BY <1>4, <1>5 DEF But, Fields
      <4> QED
        BY <1>2, <4>1 DEF Good, Launch
    <3> QED
      BY <1>9, <3>1, <3>2, <3>3, EnterLater
  <2>2. CASE ~canRunIdleRightNow(z)
    BY <1>8, <1>9, <2>2, KeepsSame DEF StartsAgain
  <2> QED
    BY <2>1, <2>2
<1> QED
  BY <1>1, <1>7, <1>9, <1>10, IdleThenLeave

\* An assertion is checked.
LEMMA CheckFields ==
    ASSUME NEW c, Shape(c), NEW assertion, NEW holds \in BOOLEAN, NEW d, d = Check(c, assertion, holds)
    PROVE  /\ But(c, d, {"failed"}) /\ c.failed \subseteq d.failed
           /\ holds => d = c
           /\ ~holds => assertion \in d.failed
<1>1. CASE holds
  BY <1>1 DEF Check, But
<1>2. CASE ~holds
  <2>1. d = Check(c, assertion, FALSE)
    BY <1>2 DEF Check
  <2>2. But(c, d, {"failed"}) /\ d.failed = c.failed \cup {assertion}
    BY <2>1, FailingFields
  <2> QED
    BY <1>2, <2>2
<1> QED
  BY <1>1, <1>2

\* What has failed stays so.
LEMMA TerminateRecords ==
    ASSUME NEW c, Shape(c), c.launcher \in Launcher, NEW d, d = terminate(c)
    PROVE  Shape(d) /\ c.failed \subseteq d.failed
<1> DEFINE quiet == c.depending = <<>> /\ c.dependingAny = <<>> /\ c.requested = <<>> /\ c.running = {}
           a == abort(c)
           q == Check(a, "terminate", quiet)
           e == [q EXCEPT !.shouldRunIdle = FALSE, !.isRunning = "NOT_ANYMORE",
                          !.finished = ~(c.obtaining /\ SaysClosed)]
           f == queueCommand(e, Cmd("SELECT", "ATOM"))
<1>1. d = IF c.aborted THEN c
          ELSE IF c.obtaining
          THEN [f EXCEPT !.obtaining = FALSE, !.active = @ \cup {"SELECT"}]
          ELSE Check(e, "terminate dependentTasks", c.deleting # "waiting")
  BY DEF terminate
<1>2. But(c, a, {"launcher", "delayedEnter", "renewal", "aborted"})
  BY AbortFields
<1>3. quiet \in BOOLEAN
  OBVIOUS
<1> HIDE DEF a, quiet
<1>4. But(a, q, {"failed"}) /\ a.failed \subseteq q.failed
  <2>1. Shape(a) /\ q = Check(a, "terminate", quiet)
    BY <1>2 DEF But
  <2> HIDE DEF q
  <2> QED
    BY <1>3, <2>1, CheckFields
<1> HIDE DEF q
<1>5. But(q, e, {"shouldRunIdle", "isRunning", "finished"}) /\ Shape(e)
  BY <1>4, ZenonT(60) DEF But, Shape, Fields
<1>6. c.failed \subseteq e.failed
  BY <1>2, <1>4, <1>5 DEF But, Fields
<1> HIDE DEF e
<1>7. But(e, f, {"cmdQueue", "posted"})
  BY <1>5, QueueFields
<1> HIDE DEF f
<1>8. CASE c.aborted
  BY <1>1, <1>8
<1>9. CASE ~c.aborted /\ c.obtaining
  <2>1. But(f, d, {"obtaining", "active"})
    BY <1>1, <1>7, <1>9 DEF But, Shape, Fields
  <2> QED
    BY <1>6, <1>7, <2>1 DEF But, Fields
<1>10. CASE ~c.aborted /\ ~c.obtaining
  <2>1. d = Check(e, "terminate dependentTasks", c.deleting # "waiting")
    BY <1>1, <1>10
  <2>2. But(e, d, {"failed"}) /\ e.failed \subseteq d.failed
    BY <1>5, <2>1, CheckFields
  <2> QED
    BY <1>6, <2>2 DEF But
<1> QED
  BY <1>8, <1>9, <1>10

\* idleCommandFailed(), and what its caller does
Refuse1(c) == [c EXCEPT !.idleCommandRunning = FALSE]
Refuse2(c) == [c EXCEPT !.waitForInitialIdle = FALSE, !.idling = FALSE]
Refuse3(c) == [c EXCEPT !.shouldRunIdle = FALSE, !.launcher = "none", !.mIdling = FALSE]

\* The fields which a refused IDLE changes, one after another
LEMMA RefuseFields ==
    ASSUME NEW c, Shape(c)
    PROVE  /\ But(c, Refuse1(c), {"idleCommandRunning"}) /\ Refuse1(c).idleCommandRunning = FALSE
           /\ But(c, Refuse2(c), {"waitForInitialIdle", "idling"})
           /\ Refuse2(c).waitForInitialIdle = FALSE /\ Refuse2(c).idling = FALSE
           /\ But(c, Refuse3(c), {"shouldRunIdle", "launcher", "mIdling"})
           /\ Refuse3(c).launcher = "none" /\ Refuse3(c).mIdling = FALSE
<1>1. But(c, Refuse1(c), {"idleCommandRunning"}) /\ Refuse1(c).idleCommandRunning = FALSE
  BY DEF Shape, But, Fields, Refuse1
<1>2. /\ But(c, Refuse2(c), {"waitForInitialIdle", "idling"})
      /\ Refuse2(c).waitForInitialIdle = FALSE /\ Refuse2(c).idling = FALSE
  BY ZenonT(60) DEF Shape, But, Fields, Refuse2
<1>3. /\ But(c, Refuse3(c), {"shouldRunIdle", "launcher", "mIdling"})
      /\ Refuse3(c).launcher = "none" /\ Refuse3(c).mIdling = FALSE
  BY ZenonT(60) DEF Shape, But, Fields, Refuse3
<1> QED
  BY <1>1, <1>2, <1>3

\* The fields which the death of the launcher changes
LEMMA DieFields ==
    ASSUME NEW c, Shape(c), NEW d, d = die(c)
    PROVE  /\ But(c, d, {"launcher", "delayedEnter", "renewal"})
           /\ d.delayedEnter \in {c.delayedEnter, "stopped"}
BY ZenonT(60) DEF Shape, But, Fields, die

\* idleCommandFailed(): what its assertions and assignments come to
LEMMA RefusingIdle ==
    ASSUME NEW b, Typed(b), b.waitForInitialIdle, NEW e, e = Untagged(Refuse3(idleCommandFailed(b)))
    PROVE  /\ But(b, e, OfIdle \cup {"failed"}) /\ b.failed \subseteq e.failed
           /\ b.mIdling /\ b.idleCommandRunning => e.failed = b.failed
           /\ ~(b.mIdling /\ b.idleCommandRunning) => "idleCommandFailed" \in e.failed
           /\ e.mIdling = FALSE /\ e.idleCommandRunning = FALSE /\ e.tagIdle = FALSE /\ e.idling = FALSE
           /\ e.waitForInitialIdle = FALSE /\ e.launcher = "none"
           /\ e.delayedEnter \in {b.delayedEnter, "stopped"}
           /\ e.posted \in Seq(Posted) /\ Quiet(b, e) /\ Undeleted(b, e) /\ IsPosted(e, "executeCommands")
<1> DEFINE runs == b.mIdling /\ b.idleCommandRunning
           q == Check(b, "idleCommandFailed", runs)
           x == Refuse1(q)
           y == Refuse2(x)
           p == Post(y, "executeCommands", NoTag)
           k == die(p)
           g == Refuse3(k)
<1>1. But(b, q, {"failed"}) /\ b.failed \subseteq q.failed
      /\ (b.mIdling /\ b.idleCommandRunning => q = b)
      /\ (~(b.mIdling /\ b.idleCommandRunning) => "idleCommandFailed" \in q.failed)
  <2>1. Shape(b) /\ runs \in BOOLEAN /\ q = Check(b, "idleCommandFailed", runs)
    BY DEF Typed
  <2>2. runs <=> b.mIdling /\ b.idleCommandRunning
    OBVIOUS
  <2> HIDE DEF q, runs
  <2>3. /\ But(b, q, {"failed"}) /\ b.failed \subseteq q.failed
        /\ runs => q = b
        /\ ~runs => "idleCommandFailed" \in q.failed
    BY <2>1, CheckFields
  <2> QED
    BY <2>2, <2>3
<1> HIDE DEF q
<1>2. But(q, x, {"idleCommandRunning"}) /\ x.idleCommandRunning = FALSE
  BY <1>1, RefuseFields DEF But
<1> HIDE DEF x
<1>3. But(x, y, {"waitForInitialIdle", "idling"}) /\ y.waitForInitialIdle = FALSE /\ y.idling = FALSE
  BY <1>2, RefuseFields DEF But
<1>4. x.waitForInitialIdle = b.waitForInitialIdle
  BY <1>1, <1>2 DEF But, Fields
<1>5. idleContinuationWontCome(x) = p
  BY <1>4 DEF idleContinuationWontCome, Check, Refuse2
<1>6. e = Untagged(g)
  BY <1>5 DEF idleCommandFailed, Refuse1, x, q
<1> HIDE DEF y
<1>7. Typed(y) /\ y.posted = b.posted
  BY <1>1, <1>2, <1>3, ZenonT(60) DEF Typed, But, Fields
<1>8. /\ Typed(p) /\ But(y, p, {"posted"}) /\ More(y.posted, p.posted) /\ IsPosted(p, "executeCommands")
      /\ \A i \in DOMAIN p.posted : \/ i \in DOMAIN y.posted
                                    \/ p.posted[i].event = "executeCommands" /\ p.posted[i].task = NoTag
  <2>1. "executeCommands" \in Events /\ NoTag \in Tag \cup {NoTag}
        /\ p = Post(y, "executeCommands", NoTag)
    BY DEF Events
  <2> HIDE DEF p
  <2> QED
    BY <1>7, <2>1, Posts
<1> HIDE DEF p
<1>9. But(p, k, {"launcher", "delayedEnter", "renewal"}) /\ k.delayedEnter \in {p.delayedEnter, "stopped"}
  BY <1>8, DieFields DEF But
<1> HIDE DEF k
<1>10. But(k, g, {"shouldRunIdle", "launcher", "mIdling"}) /\ g.launcher = "none" /\ g.mIdling = FALSE
  BY <1>9, RefuseFields DEF But
<1> HIDE DEF g
<1>11. But(g, e, {"tagIdle"}) /\ e.tagIdle = FALSE
  BY <1>6, <1>10, UntaggedFields DEF But
<1>12. But(b, x, {"failed", "idleCommandRunning"}) /\ But(b, y, {"failed", "idleCommandRunning", "waitForInitialIdle", "idling"})
  BY <1>1, <1>2, <1>3 DEF But
<1>13. But(y, e, {"posted", "launcher", "delayedEnter", "renewal", "shouldRunIdle", "mIdling", "tagIdle"})
  BY <1>8, <1>9, <1>10, <1>11 DEF But
<1>14. But(b, e, OfIdle \cup {"failed"})
  BY <1>12, <1>13 DEF But, OfIdle
<1>15. e.failed = q.failed /\ e.posted = p.posted /\ e.delayedEnter = k.delayedEnter
       /\ p.delayedEnter = b.delayedEnter /\ e.idleCommandRunning = FALSE /\ e.idling = FALSE
       /\ e.waitForInitialIdle = FALSE /\ e.launcher = "none" /\ e.mIdling = FALSE
  <2>1. e.failed = y.failed /\ y.failed = x.failed /\ x.failed = q.failed
    BY <1>2, <1>3, <1>13 DEF But, Fields
  <2>2. e.posted = p.posted /\ e.delayedEnter = k.delayedEnter /\ e.launcher = "none" /\ e.mIdling = FALSE
    BY <1>9, <1>10, <1>11 DEF But, Fields
  <2>3. p.delayedEnter = y.delayedEnter /\ y.delayedEnter = b.delayedEnter
    BY <1>8, <1>12 DEF But, Fields
  <2>4. e.idleCommandRunning = FALSE /\ e.idling = FALSE /\ e.waitForInitialIdle = FALSE
    BY <1>2, <1>3, <1>13 DEF But, Fields
  <2> QED
    BY <2>1, <2>2, <2>3, <2>4
<1>16. Quiet(b, e) /\ Undeleted(b, e) /\ IsPosted(e, "executeCommands") /\ e.posted \in Seq(Posted)
  BY <1>7, <1>8, <1>15, SMTT(30) DEF Quiet, Undeleted, IsPosted, Typed
<1> QED
  BY <1>1, <1>9, <1>11, <1>14, <1>15, <1>16

\* NO for IDLE
LEMMA AnsweredBadly ==
    ASSUME NEW b, NEW ts, NEW tc, NEW s, Ready(b, ts, tc, s), ~Somewhere(b, ts, tc, s, "IDLE"),
           b.idleCommandRunning, b.waitForInitialIdle, ~Has(tc, "+"), NEW d, d = IdleAnswered(b, "NO")
    PROVE  Result(d, ts, tc, s)
<1> DEFINE e == Untagged(Refuse3(idleCommandFailed(b)))
<1>1. /\ e = Untagged(Refuse3(idleCommandFailed(b)))
      /\ d = IF isReadyToTerminate(e) THEN terminate(e) ELSE e
  BY DEF IdleAnswered, Untagged, Refuse3
<1> HIDE DEF e
<1>2. Typed(b) /\ Good(b) /\ b.failed = {} /\ b.mIdling \in BOOLEAN
  BY DEF Ready, Good, Order
<1>3. /\ But(b, e, OfIdle \cup {"failed"}) /\ b.failed \subseteq e.failed
      /\ b.mIdling /\ b.idleCommandRunning => e.failed = b.failed
      /\ ~(b.mIdling /\ b.idleCommandRunning) => "idleCommandFailed" \in e.failed
      /\ e.mIdling = FALSE /\ e.idleCommandRunning = FALSE /\ e.tagIdle = FALSE /\ e.idling = FALSE
      /\ e.waitForInitialIdle = FALSE /\ e.launcher = "none"
      /\ e.delayedEnter \in {b.delayedEnter, "stopped"}
      /\ e.posted \in Seq(Posted) /\ Quiet(b, e) /\ Undeleted(b, e) /\ IsPosted(e, "executeCommands")
  BY <1>1, <1>2, RefusingIdle
<1>4. CASE b.mIdling
  <2>1. But(b, e, OfIdle)
    BY <1>3, <1>4 DEF But, Fields, OfIdle
  <2>2. IdleIsOver(b, e)
    BY <1>3, <1>4, <2>1 DEF IdleIsOver
  <2>3. Ready(e, ts, tc, s)
    BY <1>3, <2>2, ReadyAfterIdle
  <2>4. Keeps(e, e) /\ Typed(e) /\ ~e.idleCommandRunning
    BY <1>3, <2>3, KeepsSame DEF Ready
  <2> QED
    BY <1>1, <2>3, <2>4, IdleThenLeave
<1>5. CASE ~b.mIdling
  <2>1. "idleCommandFailed" \in e.failed /\ Shape(e) /\ e.launcher \in Launcher
    BY <1>3, <1>5 DEF But, Launcher
  <2>2. CASE isReadyToTerminate(e)
    <3>1. d = terminate(e)
      BY <1>1, <2>2
    <3>2. Shape(d) /\ e.failed \subseteq d.failed
      BY <2>1, <3>1, TerminateRecords
    <3> QED
      BY <2>1, <3>2 DEF Result, KnownFailures
  <2>3. CASE ~isReadyToTerminate(e)
    BY <1>1, <2>1, <2>3 DEF Result, KnownFailures
  <2> QED
    BY <2>2, <2>3
<1> QED
  BY <1>4, <1>5

\* The parser is killed.
LEMMA KillFields ==
    ASSUME NEW b, Shape(b), NEW reason, NEW d, d = Kill(b, reason)
    PROVE  Shape(d) /\ reason \in d.failed
BY ZenonT(60) DEF Shape, Fields, Kill

\* A response which nobody takes changes nothing.
LEMMA Unchanged ==
    ASSUME NEW b, NEW ts, NEW tc, NEW s, Ready(b, ts, tc, s)
    PROVE  Result(b, ts, tc, s)
BY KeepsSame, ReadyCalls DEF Ready

LoggedOff(b) == [b EXCEPT !.online = FALSE, !.posted = <<>>, !.respQueue = <<>>]

\* The fields which the end of the connection changes
LEMMA LoggedOffFields ==
    ASSUME NEW b, Shape(b), NEW d, d = LoggedOff(b)
    PROVE  /\ But(b, d, {"online", "posted", "respQueue"})
           /\ d.online = FALSE /\ d.posted = <<>> /\ d.respQueue = <<>>
BY ZenonT(60) DEF Shape, But, Fields, LoggedOff

\* The connection has been logged out of.
LEMMA LoggingOff ==
    ASSUME NEW b, Typed(b), Good(b), Closing(b), Late(b), b.logout, b.failed = {},
           NEW d, d = LoggedOff(b)
    PROVE  Gone(d)
<1>1. /\ But(b, d, {"online", "posted", "respQueue"})
      /\ d.online = FALSE /\ d.posted = <<>> /\ d.respQueue = <<>>
  BY LoggedOffFields DEF Typed
<1>2. Typed(d)
  <2>1. <<>> \in Seq(Posted) /\ <<>> \in Seq(Response)
    OBVIOUS
  <2> QED
    BY <1>1, <2>1 DEF Typed, But, Fields
<1>3. Order(d)
  <2>1. /\ d.cmdQueue = b.cmdQueue /\ d.idling = b.idling /\ d.mIdling = b.mIdling
        /\ d.waitForInitialIdle = b.waitForInitialIdle
        /\ d.waitingForContinuation = b.waitingForContinuation
    BY <1>1 DEF But, Fields
  <2> QED
    BY <2>1, OrderSame DEF Good
<1>4. ~IsPosted(d, "terminate") /\ DOMAIN d.posted = {}
  BY <1>1 DEF IsPosted
<1>5. Launch(d) /\ Duty(d)
  BY <1>1, <1>4 DEF Good, Launch, Duty, Nothing, But, Fields
<1>6. Stages(d)
  <2>1. /\ d.depending = b.depending /\ d.dependingAny = b.dependingAny /\ d.requested = b.requested
        /\ d.asked = b.asked /\ d.active = b.active
    BY <1>1 DEF But, Fields
  <2> QED
    BY <1>4, <2>1 DEF Good, Stages, Waiting
<1>7. Nearly(d) /\ Late(d) /\ d.failed = {} /\ d.finished
  <2>1. Late(d)
    BY <1>4 DEF Late
  <2>2. b.finished /\ Nearly(b)
    BY NearlyCloses DEF Good, Duty
  <2> QED
    BY <1>1, <2>1, <2>2 DEF Nearly, But, Fields
<1> QED
  BY <1>1, <1>2, <1>3, <1>5, <1>6, <1>7 DEF Gone, Good

\* What no task takes
LEMMA ModelTakes ==
    ASSUME NEW b, NEW ts, NEW tc, NEW s, Ready(b, ts, tc, s), NEW r, NEW d, d = ModelHandles(b, r)
    PROVE  Result(d, ts, tc, s)
<1>1. /\ Typed(b) /\ Good(b) /\ Closing(b) /\ Late(b) /\ b.failed = {} /\ Shape(b)
  BY DEF Ready, Typed
<1>2. \/ d = b
      \/ d = LoggedOff(b) /\ b.logout
      \/ d = Kill(b, "CantHappen") \/ d = Kill(b, "UnexpectedResponse")
  BY DEF ModelHandles, LoggedOff
<1>3. CASE d = b
  BY <1>3, Unchanged
<1>4. CASE d = LoggedOff(b) /\ b.logout
  BY <1>1, <1>4, LoggingOff DEF Result
<1>5. CASE d = Kill(b, "CantHappen") \/ d = Kill(b, "UnexpectedResponse")
  BY <1>1, <1>5, KillFields DEF Result, KnownFailures
<1> QED
  BY <1>2, <1>3, <1>4, <1>5

\* KeepMailboxOpenTask takes what it has asked for.
LEMMA KeepsTaking ==
    ASSUME NEW b, NEW ts, NEW tc, NEW s, Ready(b, ts, tc, s), NEW r, Expected(b, tc, r),
           r.tag = "IDLE" => ~Somewhere(b, ts, tc, s, "IDLE"),
           KeepTakes(b, r), NEW d, d = KeepHandles(b, r)
    PROVE  Result(d, ts, tc, s)
<1>1. /\ Typed(b) /\ Good(b) /\ Closing(b) /\ Late(b)
  BY DEF Ready
<1>2. r \in Response /\ RightTag(r)
  BY DEF Expected
<1>3. CASE r.kind = "CLOSED"
  <2>1. d = [b EXCEPT !.finished = TRUE] /\ b.aborted
    BY <1>3 DEF KeepHandles, Tagged, Expected
  <2>2. Keeps(b, d) /\ Typed(d)
    BY <1>1, <2>1, Finishing
  <2> QED
    BY <2>2, ReadyCalls
<1>4. CASE r.kind = "EXISTS"
  <2>1. d = b \/ d = Arrived(b, r.tag)
    BY <1>4 DEF KeepHandles, Tagged
  <2>2. CASE d = b
    BY <2>2, Unchanged
  <2>3. CASE d = Arrived(b, r.tag)
    <3>1. r.tag \in Arrivals
      BY <1>2, <1>4 DEF RightTag
    <3>2. Keeps(b, d) /\ Typed(d)
      BY <1>1, <2>3, <3>1, Arriving
    <3> QED
      BY <3>2, ReadyCalls
  <2> QED
    BY <2>1, <2>2, <2>3
<1>5. CASE Tagged(r) /\ r.tag = "IDLE"
  <2>1. d = IdleAnswered(b, r.kind) /\ r.kind \in {"OK", "NO"}
    BY <1>5 DEF KeepHandles, Tagged
  <2>2. b.idleCommandRunning /\ ~Somewhere(b, ts, tc, s, "IDLE")
    BY <1>5, <2>1 DEF Expected
  <2>3. CASE r.kind = "OK"
    <3>1. r = Say("OK", "IDLE")
      BY <1>2, <1>5, <2>3 DEF Response, Say
    <3>2. ~b.waitForInitialIdle
      BY <3>1 DEF Expected
    <3> QED
      BY <2>1, <2>2, <2>3, <3>2, AnsweredWell
  <2>4. CASE r.kind = "NO"
    <3>1. b.waitForInitialIdle /\ ~Has(tc, "+")
      BY <1>5, <2>4 DEF Expected, Refuses
    <3> QED
      BY <2>1, <2>2, <2>4, <3>1, AnsweredBadly
  <2> QED
    BY <2>1, <2>3, <2>4
<1>6. CASE Tagged(r) /\ r.tag = "CLOSE"
  <2>1. d = CloseAnswered(b)
    BY <1>6 DEF KeepHandles, Tagged
  <2>2. b.present /\ b.tagClose
    <3>1. "CLOSE" \notin b.arrivals
      BY <1>1, OwnCommands DEF Typed, OwnTags
    <3> QED
      BY <1>6, <3>1 DEF KeepTakes, Tagged
  <2> QED
    BY <2>1, <2>2, Closed
<1>7. CASE Tagged(r) /\ r.tag \notin {"IDLE", "CLOSE"}
  <2>1. d = ArrivalsAnswered(b, r.tag)
    BY <1>7 DEF KeepHandles, Tagged
  <2>2. Failing(b, d) \/ (Keeps(b, d) /\ Typed(d))
    BY <1>1, <2>1, ArrivalsFetched
  <2> QED
    BY <2>2, ReadyCalls
<1> QED
  BY <1>3, <1>4, <1>5, <1>6, <1>7 DEF KeepTakes

\* A response is handled.
LEMMA ResponseHandled ==
    ASSUME NEW c, NEW ts, NEW tc, NEW s, Typed(c), Good(c), Closing(c), Late(c), c.online, c.failed = {},
           Wired(c, ts, tc, s), MayExecute(c) => IsPosted(c, "executeCommands"), c.respQueue # <<>>,
           NEW d, d = Handled(Dropped(c), c.respQueue[1])
    PROVE  Result(d, ts, tc, s)
<1> DEFINE b == Dropped(c)
           r == c.respQueue[1]
<1>1. b = Dropped(c) /\ r = c.respQueue[1] /\ d = Handled(b, r)
  OBVIOUS
<1> HIDE DEF b, r
<1>2. Typed(b) /\ But(c, b, {"respQueue"})
  BY <1>1, Dropping
<1>3. b.active = c.active /\ b.arrivals = c.arrivals
  BY <1>2 DEF But, Fields
<1>4. r \in Response /\ RightTag(r)
  <2>1. c.respQueue \in Seq(Response) /\ TypedResponses(c.respQueue)
    BY WiredParts DEF Typed
  <2>2. 1 \in DOMAIN c.respQueue /\ r \in Response
    BY <1>1, <2>1, Tailed
  <2> QED
    BY <1>1, <2>1, <2>2 DEF TypedResponses, RightTag
<1>5. c.active \subseteq Tracked /\ c.arrivals \subseteq Arrivals
  BY DEF Typed
<1>6. CASE KeepTakes(b, r)
  <2>1. r.tag \notin c.active
    BY <1>3, <1>4, <1>5, <1>6, OwnCommands DEF KeepTakes, Tagged, RightTag
  <2>2. /\ Ready(b, ts, tc, s) /\ Expected(b, tc, r)
        /\ r.tag = "IDLE" => ~Somewhere(b, ts, tc, s, "IDLE")
    BY <1>1, <2>1, Unclaimed
  <2>3. d = KeepHandles(b, r)
    BY <1>1, <1>6 DEF Handled
  <2> QED
    BY <1>6, <2>2, <2>3, KeepsTaking
<1>7. CASE ~KeepTakes(b, r) /\ Tagged(r) /\ r.tag \in b.active
  <2>1. d = TaskHandles(b, r.tag)
    BY <1>1, <1>7 DEF Handled
  <2> QED
    BY <1>1, <1>3, <1>7, <2>1, TaskTakes
<1>8. CASE ~KeepTakes(b, r) /\ ~(Tagged(r) /\ r.tag \in b.active)
  <2>1. r.tag \notin c.active
    BY <1>3, <1>4, <1>5, <1>8, OwnCommands DEF Tagged, RightTag
  <2>2. Ready(b, ts, tc, s)
    BY <1>1, <2>1, Unclaimed
  <2>3. d = ModelHandles(b, r)
    BY <1>1, <1>8 DEF Handled
  <2> QED
    BY <2>2, <2>3, ModelTakes
<1> QED
  BY <1>6, <1>7, <1>8

\* The step responseReceived()
LEMMA ResponseStep ==
    ASSUME HandoverInv, responseReceived
    PROVE  HandoverInv'
<1> DEFINE c == Taken
           d == client'
           r == client.respQueue[1]
           h == Handled(Dropped(c), r)
           b == Removed(h)
<1>1. Handling("responseReceived") /\ Unwired
  BY DEF responseReceived, Unwired
<1>2. /\ Typed(c) /\ Good(c) /\ Closing(c) /\ Late(c) /\ c.online /\ c.failed = {}
      /\ Wired(c, toServer, toClient, server) /\ c.respQueue = client.respQueue
      /\ MayExecute(c) => IsPosted(c, "executeCommands")
  BY <1>1, Turn
<1>3. c.posted \in Seq(Posted) /\ c.respQueue \in Seq(Response) /\ c.cmdQueue \in Seq(Command) /\ Shape(c)
  BY <1>2 DEF Typed
<1>4. Head(client.respQueue) = r
  BY <1>2
<1>5. /\ c.respQueue = <<>> => d = [c EXCEPT !.handler = "none"]
      /\ c.respQueue # <<>> =>
           d = [b EXCEPT !.handler = IF b.respQueue # <<>> THEN "responseReceived" ELSE "none"]
  BY <1>2, <1>4 DEF responseReceived, Dropped
<1>6. r = c.respQueue[1] /\ h = Handled(Dropped(c), c.respQueue[1]) /\ b = Removed(h)
  BY <1>2
<1> HIDE DEF c, d, r, h, b
<1>7. CASE c.respQueue = <<>>
  <2>1. But(c, d, {"handler"}) /\ d.handler = "none"
    BY <1>3, <1>5, <1>7, HandlerFields
  <2>2. Typed(d) /\ Good(d) /\ Closing(d) /\ Late(d)
    BY <1>2, <2>1, Handing
  <2>3. /\ d.cmdQueue = c.cmdQueue /\ d.respQueue = c.respQueue /\ d.idling = c.idling
        /\ d.posted = c.posted /\ d.failed = c.failed
        /\ d.waitForInitialIdle = c.waitForInitialIdle
        /\ d.waitingForContinuation = c.waitingForContinuation
        /\ d.literalCommandTag = c.literalCommandTag
        /\ d.idleCommandRunning = c.idleCommandRunning /\ d.active = c.active
        /\ d.logout = c.logout /\ d.online = c.online /\ d.deleting = c.deleting
        /\ d.aborted = c.aborted
    BY <2>1 DEF But, Fields
  <2>4. Wired(d, toServer, toClient, server)
    BY <1>2, <2>3, WireAlike DEF SameWire
  <2>5. Awake(d)
    BY <1>2, <1>7, <2>3 DEF Awake, AwaitedBy, IsPosted, MayExecute
  <2>6. Safe(d, toServer, toClient, server)
    BY <1>2, <2>1, <2>2, <2>3, <2>4, <2>5 DEF Safe, Fine, Holds
  <2> QED
    BY <1>1, <2>6, Unwire DEF d
<1>8. CASE c.respQueue # <<>>
  <2>1. Result(h, toServer, toClient, server)
    BY <1>2, <1>6, <1>8, ResponseHandled
  <2>2. d = [b EXCEPT !.handler = IF b.respQueue # <<>> THEN "responseReceived" ELSE "none"]
    BY <1>5, <1>8
  <2>3. Safe(d, toServer, toClient, server)
    BY <1>6, <2>1, <2>2, Concluding
  <2> QED
    BY <1>1, <2>3, Unwire DEF d
<1> QED
  BY <1>7, <1>8

-----------------------------------------------------------------------------
(* The invariant is inductive                                               *)

\* A connection at rest
Fresh(c) ==
    /\ c.cmdQueue = <<>> /\ c.respQueue = <<>> /\ c.posted = <<>> /\ c.handler = "none"
    /\ c.idling = FALSE /\ c.mIdling = FALSE /\ c.waitForInitialIdle = FALSE
    /\ c.waitingForContinuation = FALSE /\ c.literalCommandTag = NoTag
    /\ c.launcher = "alive" /\ c.idleCommandRunning = FALSE /\ c.tagIdle = FALSE /\ c.tagClose = FALSE
    /\ c.depending = <<>> /\ c.dependingAny = <<>> /\ c.requested = <<>>
    /\ c.fetching = {} /\ c.running = {} /\ c.active = {} /\ c.arrivals = {}
    /\ c.deleting = "no" /\ c.aborted = FALSE /\ c.isRunning = "RUNNING" /\ c.finished = FALSE
    /\ c.logout = FALSE /\ c.online = TRUE /\ c.failed = {}

\* The connection starts at rest.
LEMMA InitFresh ==
    ASSUME Init
    PROVE  Shape(client) /\ Fresh(client)
<1>1. Shape(client)
  BY DEF Init, Shape, Fields
<1>2. Fresh(client)
  BY DEF Init, Fresh
<1> QED
  BY <1>1, <1>2

\* At rest the invariant holds.
LEMMA FreshHolds ==
    ASSUME NEW c, Shape(c), Fresh(c), NEW ts, ts = <<>>, NEW tc, tc = <<>>, NEW s, Served(s),
           s.idling = FALSE, s.working = {}
    PROVE  Safe(c, ts, tc, s)
<1>1. /\ <<>> \in Seq(Command) /\ <<>> \in Seq(Response) /\ <<>> \in Seq(Posted) /\ <<>> \in Seq(Tasks)
      /\ <<>> \in Seq(Line) /\ DOMAIN <<>> = {} /\ ToSet(<<>>) = {}
  BY DEF ToSet
<1>2. Typed(c)
  BY <1>1, FS_EmptySet DEF Typed, Fresh, Launcher
<1>3. Order(c)
  BY <1>1 DEF Fresh, Order, EndsInIdle
<1>4. Launch(c) /\ Duty(c)
  BY <1>1 DEF Fresh, Launch, Duty, Nothing, IsPosted
<1>5. Stages(c)
  BY <1>1 DEF Fresh, Stages, Waiting, NoDup
<1>6. Closing(c) /\ Late(c)
  BY <1>1 DEF Fresh, Closing, Late
<1>7. \A t : /\ Ordered(c, t) = {} /\ Queued(c, tc, t) = {} /\ Sent(ts, t) = {} /\ About(tc, t) = {}
             /\ About(c.respQueue, t) = {} /\ ~Done(s, t)
  BY <1>1 DEF Fresh, Ordered, Queued, Sent, About, At, Done
<1>8. Tokens(c, ts, tc, s)
  <2>1. \A t : Once(c, ts, tc, s, t) /\ ~Somewhere(c, ts, tc, s, t)
    BY <1>7, NoneSingle DEF Once, Somewhere
  <2> QED
    BY <1>1, <2>1 DEF Tokens, Has, Fresh
<1>9. Wired(c, ts, tc, s)
  <2>1. /\ \A t : ~Refused(<<>>, t)
        /\ \A kind : ~Has(<<>>, kind) /\ ~Ends(<<>>, kind)
        /\ TypedResponses(<<>>) /\ Idles(<<>>) /\ DoneFollows(<<>>) /\ PlusOnce(<<>>) /\ SizeOnce(<<>>)
        /\ \A tag : SizesOf(<<>>, tag)
    BY <1>1 DEF Refused, Has, Ends, TypedResponses, Idles, DoneFollows, PlusOnce, SizeOnce, SizesOf
  <2>2. /\ c.respQueue = <<>> /\ c.cmdQueue = <<>> /\ ~c.waitForInitialIdle /\ ~c.waitingForContinuation
        /\ c.literalCommandTag = NoTag
    BY DEF Fresh
  <2> QED
    BY <1>1, <1>8, <2>1, <2>2, WiredParts
<1>10. Awake(c)
  BY DEF Fresh, Awake, MayExecute
<1> QED
  BY <1>2, <1>3, <1>4, <1>5, <1>6, <1>9, <1>10 DEF Safe, Fine, Holds, Good, Fresh

\* The invariant holds initially.
LEMMA Starting ==
    ASSUME Init
    PROVE  HandoverInv
<1>1. toServer = <<>> /\ toClient = <<>> /\ server.idling = FALSE /\ server.working = {} /\ Served(server)
  BY DEF Init, Served
<1>2. Safe(client, toServer, toClient, server)
  BY <1>1, InitFresh, FreshHolds
<1> QED
  BY <1>1, <1>2 DEF HandoverInv, IdlingServerGetsDone

\* Every step keeps the invariant.
LEMMA Stepping ==
    ASSUME HandoverInv, [Next]_vars
    PROVE  HandoverInv'
<1>1. CASE ClientStep
  BY <1>1, ExecuteStep, ResponseStep, ActivateStep, TaskDeletedStep, TerminateStep DEF ClientStep
<1>2. CASE handleReadyRead
  BY <1>2, ReadStep
<1>3. CASE Timeout
  BY <1>3, ElapseStep, EnterStep, RenewStep, FetchStep DEF Timeout
<1>4. CASE User
  BY <1>4, AddTaskStep, RequestStep, SwitchStep, DeleteStep, OfflineStep DEF User
<1>5. CASE ServerActs
  BY <1>5, ServerStep
<1>6. CASE Ended \/ UNCHANGED vars
  <2>1. UNCHANGED vars
    BY <1>6 DEF Ended
  <2> QED
    BY <2>1 DEF vars, HandoverInv, IdlingServerGetsDone
<1> QED
  BY <1>1, <1>2, <1>3, <1>4, <1>5, <1>6 DEF Next

\* What the client, the wire and the server have to do with each other holds in every state,
\* for any number of tasks and new arrivals and any limits.
THEOREM HandoverInvariant == Spec => []HandoverInv
<1>1. Init => HandoverInv
  BY Starting
<1>2. HandoverInv /\ [Next]_vars => HandoverInv'
  BY Stepping
<1> QED
  BY <1>1, <1>2, PTL DEF Spec

-----------------------------------------------------------------------------
(* What follows from it                                                     *)

\* The invariant while no assertion has failed
LEMMA WhileSound ==
    ASSUME HandoverInv, Sound
    PROVE  /\ Holds(client, toServer, toClient, server)
           /\ Typed(client) /\ Good(client)
           /\ client.online => Awake(client) /\ Wired(client, toServer, toClient, server)
BY DEF HandoverInv, Safe, Sound, Holds

\* As EndsInIdle, but the last command of IDLE need not be looked for
LEMMA LastOfIdle ==
    ASSUME NEW c, c.cmdQueue \in Seq(Command), Order(c)
    PROVE  EndsInIdle(c) <=> WillIdle(c)
<1> DEFINE q == c.cmdQueue
           ofIdle == {i \in DOMAIN q : q[i].kind \in {"IDLE", "IDLE_DONE"}}
<1>1. DOMAIN q = 1 .. Len(q) /\ Len(q) \in Nat /\ (q = <<>> <=> Len(q) = 0)
  OBVIOUS
<1>2. WillIdle(c) <=> IF ofIdle = {} THEN c.idling
                      ELSE \E i \in ofIdle : q[i].kind = "IDLE" /\ \A j \in ofIdle : j <= i
  BY DEF WillIdle, Order
<1>3. /\ c.idling /\ q # <<>> => q[1].kind = "IDLE_DONE"
      /\ \A i \in DOMAIN q : i + 1 \in DOMAIN q => (q[i].kind = "IDLE" <=> q[i + 1].kind = "IDLE_DONE")
  BY DEF Order
<1>4. EndsInIdle(c) <=> IF q = <<>> THEN c.idling ELSE q[Len(q)].kind = "IDLE"
  BY DEF EndsInIdle, Order
<1>5. \A i \in ofIdle : i \in DOMAIN q /\ q[i].kind \in {"IDLE", "IDLE_DONE"}
  OBVIOUS
<1>6. \A i \in DOMAIN q : q[i].kind \in {"IDLE", "IDLE_DONE"} => i \in ofIdle
  OBVIOUS
<1> HIDE DEF q, ofIdle
<1>7. CASE q = <<>>
  <2>1. ofIdle = {}
    BY <1>1, <1>5, <1>7
  <2> QED
    BY <1>2, <1>4, <1>7, <2>1
<1>8. CASE q # <<>> /\ q[Len(q)].kind = "IDLE"
  <2>1. Len(q) \in ofIdle /\ \A j \in ofIdle : j <= Len(q)
    BY <1>1, <1>5, <1>6, <1>8
  <2> QED
    BY <1>2, <1>4, <1>8, <2>1
<1>9. CASE q # <<>> /\ q[Len(q)].kind # "IDLE"
  <2>1. 1 \in DOMAIN q
    BY <1>1, <1>9
  <2>2. ofIdle = {} => ~c.idling
    BY <1>3, <1>6, <1>9, <2>1
  <2>3. ASSUME NEW i \in ofIdle, q[i].kind = "IDLE", \A j \in ofIdle : j <= i PROVE FALSE
    <3>1. i \in 1 .. Len(q) /\ i # Len(q)
      BY <1>1, <1>5, <1>9, <2>3
    <3>0. \A n \in Nat : \A k \in 1 .. n : k # n => k + 1 \in 1 .. n /\ ~(k + 1 <= k)
      OBVIOUS
    <3>2. i \in DOMAIN q /\ i + 1 \in DOMAIN q /\ ~(i + 1 <= i)
      BY <1>1, <3>0, <3>1
    <3>3. q[i + 1].kind = "IDLE_DONE"
      BY <1>3, <2>3, <3>2
    <3>4. i + 1 \in ofIdle
      BY <1>6, <3>2, <3>3
    <3> QED
      BY <2>3, <3>2, <3>4
  <2> QED
    BY <1>2, <1>4, <1>9, <2>2, <2>3
<1> QED
  BY <1>7, <1>8, <1>9

\* IDLE never stands in the way of a task, a new arrival or another command, and IdleLauncher
\* and Parser agree about it: finishIdle() and executeACommand() are never out of step.
THEOREM IdleAlwaysGivesWay == Spec => []IdleGivesWay
<1>1. HandoverInv => IdleGivesWay
  <2> SUFFICES ASSUME HandoverInv PROVE IdleGivesWay
    OBVIOUS
  <2>1. IdlingServerGetsDone
    BY DEF HandoverInv
  <2>2. ASSUME Sound PROVE client.mIdling <=> WillIdle(client)
    <3>1. client.cmdQueue \in Seq(Command) /\ Order(client)
      BY <2>2, WhileSound DEF Typed, Good
    <3> QED
      BY <3>1, LastOfIdle DEF Order
  <2>3. ASSUME Sound, client.mIdling PROVE Nothing(client)
    BY <2>3, WhileSound DEF Good, Launch
  <2> QED
    BY <2>1, <2>2, <2>3 DEF IdleGivesWay, LauncherKnowsParser, Nothing
<1> QED
  BY <1>1, HandoverInvariant, PTL

\* The queues of commands and of responses never stand still with nobody told: whatever resets
\* a flag which has stopped them posts the event which makes them go on.
THEOREM NeverALostWakeup == Spec => []NoLostWakeup
<1>1. HandoverInv => NoLostWakeup
  BY WhileSound DEF NoLostWakeup, Awake, AwaitedBy, Awaited, IsPosted
<1> QED
  BY <1>1, HandoverInvariant, PTL

\* Only the assertions and exceptions which are known to fail do: no other one is reached, in
\* whatever order the tasks, the timers, the user and the server come.
THEOREM AssertionsAlwaysHold == Spec => []AssertionsHold
<1>1. HandoverInv => AssertionsHold
  BY DEF HandoverInv, Safe, Fine, AssertionsHold, Sound
<1> QED
  BY <1>1, HandoverInvariant, PTL

\* SELECT is queued when no command about the old mailbox is under way, and IDLE neither runs
\* nor is queued.
THEOREM SelectAlwaysAlone == Spec => []SelectComesAlone
<1>1. HandoverInv => SelectComesAlone
  <2> SUFFICES ASSUME HandoverInv, Sound, client.online, "SELECT" \in client.active
               PROVE  /\ client.running = {} /\ client.active \cap (Tasks \ AnyTasks) = {}
                      /\ ~server.idling
                      /\ "IDLE" \notin KindsOf(client.cmdQueue) \cup KindsOf(toServer)
    BY DEF SelectComesAlone
  <2>1. Typed(client) /\ Order(client) /\ Duty(client) /\ Wired(client, toServer, toClient, server)
    BY WhileSound DEF Good
  <2>2. client.running = {} /\ client.active \cap (Tasks \ AnyTasks) = {} /\ ~client.idleCommandRunning
    BY <2>1 DEF Duty
  <2>3. ~Somewhere(client, toServer, toClient, server, "IDLE")
    BY <2>1, <2>2, WiredParts DEF Tokens
  <2>4. ~server.idling /\ Sent(toServer, "IDLE") = {} /\ Queued(client, toClient, "IDLE") = {}
    BY <2>3 DEF Somewhere, Done
  <2>5. ~Has(toServer, "IDLE")
    BY <2>1, <2>4, WiredParts, NoIdleLine
  <2>6. ASSUME NEW i \in DOMAIN client.cmdQueue, client.cmdQueue[i].kind = "IDLE" PROVE FALSE
    <3>1. client.cmdQueue[i] \in Command
      BY <2>1 DEF Typed
    <3>2. client.cmdQueue[i].tag = "IDLE" /\ ~client.cmdQueue[i].numberSent
      BY <2>1, <2>6 DEF Order
    <3>3. client.cmdQueue[i] \in Commands("IDLE")
      BY <2>6, <3>1, <3>2 DEF Commands
    <3>4. i \in Queued(client, toClient, "IDLE")
      BY <3>2, <3>3 DEF Queued, Ordered, At
    <3> QED
      BY <2>4, <3>4
  <2> QED
    BY <2>2, <2>4, <2>5, <2>6 DEF KindsOf, Has
<1> QED
  BY <1>1, HandoverInvariant, PTL

\* How many elements a set of at most one has
LEMMA SingleSize ==
    ASSUME NEW S, Single(S)
    PROVE  /\ S = {} => Cardinality(S) = 0
           /\ S # {} => Cardinality(S) = 1
<1>1. S = {} => Cardinality(S) = 0
  BY FS_EmptySet
<1>2. ASSUME S # {} PROVE Cardinality(S) = 1
  <2>1. PICK x \in S : TRUE
    BY <1>2
  <2>2. S = {x}
    BY <2>1 DEF Single
  <2> QED
    BY <2>2, FS_Singleton
<1> QED
  BY <1>1, <1>2

\* One of five places
Places(q, t) == {i \in DOMAIN q : q[i].tag = t}
PlacesOfLine(ts, t) == {i \in DOMAIN ts : ts[i].tag = t /\ ts[i].kind # "size"}

\* The places which the property counts are those of the invariant.
LEMMA PlacesAre ==
    ASSUME NEW c, NEW ts, NEW tc, NEW s, Typed(c), Good(c), Wired(c, ts, tc, s), NEW t \in Tracked
    PROVE  /\ Places(c.cmdQueue, t) = Ordered(c, t) /\ PlacesOfLine(ts, t) = Sent(ts, t)
           /\ Places(tc, t) = About(tc, t) /\ Places(c.respQueue, t) = About(c.respQueue, t)
<1>1. t # "IDLE" /\ t \in Tag
  BY OwnCommands
<1>2. /\ c.cmdQueue \in Seq(Command) /\ ts \in Seq(Line) /\ tc \in Seq(Response)
      /\ c.respQueue \in Seq(Response) /\ Idles(ts)
  BY WiredParts DEF Typed
<1>3. Places(c.cmdQueue, t) = Ordered(c, t)
  <2>1. \A i \in DOMAIN c.cmdQueue : c.cmdQueue[i] \in Command
    BY <1>2
  <2>2. \A i \in DOMAIN c.cmdQueue : c.cmdQueue[i].kind = "IDLE_DONE" => c.cmdQueue[i].tag = "IDLE"
    BY DEF Good, Order
  <2> QED
    BY <1>1, <2>1, <2>2 DEF Places, Ordered, At, Commands
<1>4. PlacesOfLine(ts, t) = Sent(ts, t)
  <2>1. \A i \in DOMAIN ts : ts[i] \in Line /\ (ts[i].kind = "DONE" => ts[i].tag = "IDLE")
    BY <1>2 DEF Idles
  <2> QED
    BY <1>1, <2>1 DEF PlacesOfLine, Sent, At, Lines
<1>5. Places(tc, t) = About(tc, t) /\ Places(c.respQueue, t) = About(c.respQueue, t)
  <2>1. /\ \A i \in DOMAIN tc : tc[i] \in Response
        /\ \A i \in DOMAIN c.respQueue : c.respQueue[i] \in Response
    BY <1>2
  <2> QED
    BY <2>1 DEF Places, About, At, Responses
<1> QED
  BY <1>3, <1>4, <1>5

\* A command which is refused does not count in the queue.
LEMMA QueuedSize ==
    ASSUME NEW c, NEW ts, NEW tc, NEW s, Typed(c), Good(c), Wired(c, ts, tc, s), NEW t \in Tracked,
           Single(Ordered(c, t))
    PROVE  Queued(c, tc, t) = IF Refused(tc, t) THEN {} ELSE Ordered(c, t)
<1>1. CASE Refused(tc, t)
  <2>1. /\ c.cmdQueue # <<>> /\ c.cmdQueue[1].kind = "LITERAL" /\ c.cmdQueue[1].numberSent
        /\ t = c.cmdQueue[1].tag
    BY <1>1, WiredParts
  <2>2. 1 \in DOMAIN c.cmdQueue /\ c.cmdQueue[1] \in Command
    BY <2>1, Tailed DEF Typed
  <2>3. 1 \in Ordered(c, t)
    BY <2>1, <2>2 DEF Ordered, At, Commands
  <2>4. Ordered(c, t) = {1}
    BY <2>3 DEF Single
  <2> QED
    BY <1>1, <2>1, <2>4 DEF Queued
<1>2. CASE ~Refused(tc, t)
  BY <1>2 DEF Queued
<1> QED
  BY <1>1, <1>2

\* An active task has its command, or the answer to it, at exactly one place.
LEMMA OnePlace ==
    ASSUME NEW c, NEW ts, NEW tc, NEW s, Typed(c), Good(c), Wired(c, ts, tc, s), c.online,
           NEW t \in c.active
    PROVE  1 = (IF Refused(tc, t) THEN 0 ELSE Cardinality(Places(c.cmdQueue, t)))
               + Cardinality(PlacesOfLine(ts, t)) + Cardinality({t} \cap s.working)
               + Cardinality(Places(tc, t)) + Cardinality(Places(c.respQueue, t))
<1>1. t \in Tracked /\ t # "IDLE"
  BY OwnCommands DEF Typed
<1>2. Once(c, ts, tc, s, t) /\ Somewhere(c, ts, tc, s, t)
  BY <1>1, WiredParts DEF Tokens
<1> DEFINE O == Ordered(c, t)
           Q == Queued(c, tc, t)
           S == Sent(ts, t)
           W == {t} \cap s.working
           A == About(tc, t)
           R == About(c.respQueue, t)
<1>3. Single(O) /\ Single(S) /\ Single(A) /\ Single(R)
  BY <1>2 DEF Once
<1>4. Q = IF Refused(tc, t) THEN {} ELSE O
  BY <1>1, <1>3, QueuedSize
<1>5. Done(s, t) <=> W # {}
  BY <1>1 DEF Done
<1>6. Single(W) /\ Single(Q)
  BY <1>3, <1>4, NoneSingle DEF Single
<1>7. /\ Q # {} => S = {} /\ W = {} /\ A = {} /\ R = {}
      /\ S # {} => W = {} /\ A = {} /\ R = {}
      /\ W # {} => A = {} /\ R = {}
      /\ A # {} => R = {}
      /\ Q # {} \/ S # {} \/ W # {} \/ A # {} \/ R # {}
  BY <1>2, <1>5 DEF Once, Somewhere
<1>8. /\ Places(c.cmdQueue, t) = O /\ PlacesOfLine(ts, t) = S
      /\ Places(tc, t) = A /\ Places(c.respQueue, t) = R
  BY <1>1, PlacesAre
<1> HIDE DEF O, Q, S, W, A, R
<1>9. (IF Refused(tc, t) THEN 0 ELSE Cardinality(O)) = Cardinality(Q)
  BY <1>4, FS_EmptySet
<1>10. /\ Cardinality(Q) = IF Q = {} THEN 0 ELSE 1
       /\ Cardinality(S) = IF S = {} THEN 0 ELSE 1
       /\ Cardinality(W) = IF W = {} THEN 0 ELSE 1
       /\ Cardinality(A) = IF A = {} THEN 0 ELSE 1
       /\ Cardinality(R) = IF R = {} THEN 0 ELSE 1
  BY <1>3, <1>6, SingleSize
<1>11. Cardinality(Q) + Cardinality(S) + Cardinality(W) + Cardinality(A) + Cardinality(R) = 1
  BY <1>7, <1>10
<1> QED
  BY <1>8, <1>9, <1>11 DEF W

\* Every running task has its command, or the answer to it, in one place between queue and Model.
THEOREM AlwaysOneCommand == Spec => []OneCommandEach
<1>1. HandoverInv => OneCommandEach
  <2> SUFFICES ASSUME HandoverInv, Sound, client.online, NEW t \in client.active
               PROVE  1 = (IF Say("NO", t) \in ToSet(toClient) THEN 0 ELSE Occurrences(client.cmdQueue, t))
                          + Cardinality({i \in DOMAIN toServer :
                                           toServer[i].tag = t /\ toServer[i].kind # "size"})
                          + Cardinality({t} \cap server.working)
                          + Occurrences(toClient, t) + Occurrences(client.respQueue, t)
    BY DEF OneCommandEach
  <2>1. Typed(client) /\ Good(client) /\ Wired(client, toServer, toClient, server)
    BY WhileSound
  <2>2. Say("NO", t) \in ToSet(toClient) <=> Refused(toClient, t)
    <3>1. \A i \in DOMAIN toClient : toClient[i] \in Response
      BY <2>1, WiredParts
    <3> QED
      BY <3>1 DEF Say, ToSet, Refused, Refuses, Response
  <2> QED
    BY <2>1, <2>2, OnePlace DEF Occurrences, Places, PlacesOfLine
<1> QED
  BY <1>1, HandoverInvariant, PTL
===============================================================================
