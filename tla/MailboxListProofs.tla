--------------------------- MODULE MailboxListProofs ---------------------------
(***************************************************************************)
(* LoadingIsAwaited holds in every reachable state of MailboxList, for     *)
(* every set of names and every bound.                                     *)
(***************************************************************************)
EXTENDS MailboxList, FiniteSetTheorems, WellFoundedInduction, TLAPS

-----------------------------------------------------------------------------
(* Finite sets, and sequences of whatever                                   *)

\* A set of natural numbers that is not empty has a least one.
LEMMA LeastOf ==
    ASSUME NEW S \in SUBSET Nat, S # {}
    PROVE  \E k \in S : \A j \in S : k <= j
<1>1. IsWellFoundedOn(OpToRel(<, Nat), Nat)
    BY NatLessThanWellFounded
<1>2. PICK k \in S : \A j \in S : <<j, k>> \notin OpToRel(<, Nat)
    BY <1>1, WFMin
<1>3. ASSUME NEW j \in S, j < k PROVE FALSE
    <2>1. <<j, k>> \in OpToRel(<, Nat)
        BY <1>3 DEF OpToRel
    <2> QED
        BY <1>2, <2>1
<1> QED
    BY <1>3

\* What a function makes of a finite set is finite, and no larger.
LEMMA ImageIsFinite ==
    ASSUME NEW S, IsFiniteSet(S), NEW f, DOMAIN f = S,
           f = [x \in S |-> f[x]]
    PROVE  /\ IsFiniteSet({f[x] : x \in S})
           /\ Cardinality({f[x] : x \in S}) <= Cardinality(S)
<1> DEFINE T == {f[x] : x \in S}
<1>1. f \in [S -> T]
    OBVIOUS
<1>2. f \in Surjection(S, T)
    BY <1>1 DEF Surjection
<1> HIDE DEF T
<1>3. IsFiniteSet(T) /\ Cardinality(T) <= Cardinality(S)
    BY <1>2, FS_Surjection
<1> QED
    BY <1>3 DEF T

IsSeq(s) == s \in Seq({s[k] : k \in 1 .. Len(s)})

\* What is made for each number up to n is a sequence.
LEMMA MadeSeq ==
    ASSUME NEW n \in Nat, NEW f, f = [k \in 1 .. n |-> f[k]]
    PROVE  IsSeq(f) /\ Len(f) = n /\ DOMAIN f = 1 .. n
<1> DEFINE S == {f[k] : k \in 1 .. n}
<1>1. f \in [1 .. n -> S]
    OBVIOUS
<1>2. f \in Seq(S) /\ Len(f) = n /\ DOMAIN f = 1 .. n
    <2> HIDE DEF S
    <2> QED
        BY <1>1
<1> QED
    BY <1>2 DEF IsSeq

\* What is in a set of sequences is a sequence.
LEMMA SeqIsSeq ==
    ASSUME NEW S, NEW s \in Seq(S)
    PROVE  IsSeq(s)
<1>1. Len(s) \in Nat /\ s = [k \in 1 .. Len(s) |-> s[k]]
    OBVIOUS
<1> QED
    BY <1>1, MadeSeq

\* Sequences have lengths, and numbers up to them.
LEMMA SeqFacts ==
    ASSUME NEW s, IsSeq(s)
    PROVE  /\ Len(s) \in Nat /\ DOMAIN s = 1 .. Len(s)
           /\ s = [k \in 1 .. Len(s) |-> s[k]]
           /\ s # <<>> <=> Len(s) >= 1
           /\ IsFiniteSet(DOMAIN s) /\ Cardinality(DOMAIN s) = Len(s)
<1>1. /\ Len(s) \in Nat /\ DOMAIN s = 1 .. Len(s)
      /\ s = [k \in 1 .. Len(s) |-> s[k]]
      /\ s # <<>> <=> Len(s) >= 1
    <2> DEFINE S == {s[k] : k \in 1 .. Len(s)}
    <2>1. s \in Seq(S)
        BY DEF IsSeq
    <2> HIDE DEF S
    <2> QED
        BY <2>1
<1>2. IsFiniteSet(1 .. Len(s)) /\ Cardinality(1 .. Len(s)) = Len(s)
    BY <1>1, FS_Interval
<1> QED
    BY <1>1, <1>2

\* One more at the end.
LEMMA AppendFacts ==
    ASSUME NEW s, IsSeq(s), NEW x
    PROVE  /\ IsSeq(Append(s, x)) /\ Len(Append(s, x)) = Len(s) + 1
           /\ \A k \in 1 .. Len(s) : Append(s, x)[k] = s[k]
           /\ Append(s, x)[Len(s) + 1] = x
           /\ DOMAIN Append(s, x) = 1 .. Len(s) + 1
<1> DEFINE S == {s[k] : k \in 1 .. Len(s)}
           T == S \cup {x}
<1>1. s \in Seq(S)
    BY DEF IsSeq
<1> HIDE DEF S
<1>2. s \in Seq(T) /\ x \in T
    BY <1>1
<1> HIDE DEF T
<1>3. Append(s, x) \in Seq(T)
    BY <1>2
<1>4. IsSeq(Append(s, x))
    BY <1>3, SeqIsSeq
<1> QED
    BY <1>2, <1>4

\* One less at the beginning.
LEMMA TailFacts ==
    ASSUME NEW s, IsSeq(s), s # <<>>
    PROVE  /\ IsSeq(Tail(s)) /\ Len(Tail(s)) = Len(s) - 1
           /\ Head(s) = s[1] /\ 1 \in DOMAIN s
           /\ \A k \in 1 .. Len(s) - 1 : Tail(s)[k] = s[k + 1]
           /\ DOMAIN Tail(s) = 1 .. Len(s) - 1
<1> DEFINE S == {s[k] : k \in 1 .. Len(s)}
<1>1. s \in Seq(S)
    BY DEF IsSeq
<1> HIDE DEF S
<1>2. Tail(s) \in Seq(S)
    BY <1>1
<1>3. IsSeq(Tail(s))
    BY <1>2, SeqIsSeq
<1> QED
    BY <1>1, <1>3

\* One after the other.
LEMMA CatFacts ==
    ASSUME NEW s, IsSeq(s), NEW t, IsSeq(t)
    PROVE  /\ IsSeq(s \o t) /\ Len(s \o t) = Len(s) + Len(t)
           /\ DOMAIN (s \o t) = 1 .. Len(s) + Len(t)
           /\ \A k \in 1 .. Len(s) : (s \o t)[k] = s[k]
           /\ \A k \in 1 .. Len(t) : (s \o t)[Len(s) + k] = t[k]
<1> DEFINE S == {s[k] : k \in 1 .. Len(s)}
           T == {t[k] : k \in 1 .. Len(t)}
<1>1. s \in Seq(S) /\ t \in Seq(T)
    BY DEF IsSeq
<1> HIDE DEF S, T
<1> DEFINE U == S \cup T
<1>2. s \in Seq(U) /\ t \in Seq(U)
    BY <1>1
<1> HIDE DEF U
<1>3. (s \o t) \in Seq(U)
    BY <1>2
<1>4. IsSeq(s \o t)
    BY <1>3, SeqIsSeq
<1>5. Len(s \o t) = Len(s) + Len(t) /\ Len(s) \in Nat /\ Len(t) \in Nat
    BY <1>2
<1>6. \A k \in 1 .. Len(s) : (s \o t)[k] = s[k]
    BY <1>2
<1>7. \A k \in 1 .. Len(t) : (s \o t)[Len(s) + k] = t[k]
    BY <1>2
<1> QED
    BY <1>4, <1>5, <1>6, <1>7, SeqFacts

-----------------------------------------------------------------------------
(* What Kept() keeps: each of the places, once                              *)

PlaceOf(places, k) == CHOOSE i \in places : Cardinality({j \in places : j <= i}) = k

\* How many of the places there are up to i.
LEMMA RankFacts ==
    ASSUME NEW n \in Nat, NEW places \in SUBSET (1 .. n)
    PROVE  /\ \A i \in 0 .. n : Cardinality({j \in places : j <= i}) \in Nat
           /\ Cardinality({j \in places : j <= 0}) = 0
           /\ \A i \in 1 .. n : Cardinality({j \in places : j <= i}) =
                IF i \in places THEN Cardinality({j \in places : j <= i - 1}) + 1
                ELSE Cardinality({j \in places : j <= i - 1})
           /\ Cardinality({j \in places : j <= n}) = Cardinality(places)
           /\ Cardinality(places) \in Nat
<1> DEFINE upto(i) == {j \in places : j <= i}
<1>1. IsFiniteSet(places) /\ Cardinality(places) \in Nat
    <2>1. IsFiniteSet(1 .. n)
        BY FS_Interval
    <2> QED
        BY <2>1, FS_Subset, FS_CardinalityType
<1>2. \A i \in 0 .. n : IsFiniteSet(upto(i)) /\ Cardinality(upto(i)) \in Nat
    <2>1. TAKE i \in 0 .. n
    <2>2. upto(i) \in SUBSET places
        OBVIOUS
    <2> HIDE DEF upto
    <2> QED
        BY <1>1, <2>2, FS_Subset, FS_CardinalityType
<1>9. \A j \in places : j \in Nat /\ 1 <= j /\ j <= n
    OBVIOUS
<1>3. upto(0) = {} /\ upto(n) = places
    <2>1. \A j \in places : j <= n /\ ~(j <= 0)
        BY <1>9
    <2> QED
        BY <2>1
<1>4. ASSUME NEW i \in 1 .. n
      PROVE  Cardinality(upto(i)) =
                IF i \in places THEN Cardinality(upto(i - 1)) + 1 ELSE Cardinality(upto(i - 1))
    <2>1. i - 1 \in 0 .. n /\ i \notin upto(i - 1)
        OBVIOUS
    <2>2. upto(i) = IF i \in places THEN upto(i - 1) \cup {i} ELSE upto(i - 1)
        <3>1. \A j \in places : j <= i <=> j <= i - 1 \/ j = i
            BY <1>9
        <3> QED
            BY <3>1
    <2> HIDE DEF upto
    <2>3. IsFiniteSet(upto(i - 1))
        BY <1>2, <2>1
    <2> QED
        BY <2>1, <2>2, <2>3, FS_AddElement
<1>5. Cardinality(upto(0)) = 0
    BY <1>3, FS_EmptySet
<1> QED
    BY <1>1, <1>2, <1>3, <1>4, <1>5

\* There is one place of each rank.
LEMMA PlaceFacts ==
    ASSUME NEW n \in Nat, NEW places \in SUBSET (1 .. n)
    PROVE  /\ Cardinality(places) \in Nat
           /\ \A k \in 1 .. Cardinality(places) : PlaceOf(places, k) \in places
           /\ \A k, l \in 1 .. Cardinality(places) :
                PlaceOf(places, k) = PlaceOf(places, l) => k = l
           /\ \A i \in places : \E k \in 1 .. Cardinality(places) : PlaceOf(places, k) = i
<1> DEFINE rank(i) == Cardinality({j \in places : j <= i})
           m == Cardinality(places)
<1>1. /\ \A i \in 0 .. n : rank(i) \in Nat
      /\ rank(0) = 0 /\ rank(n) = m /\ m \in Nat
      /\ \A i \in 1 .. n : rank(i) = IF i \in places THEN rank(i - 1) + 1 ELSE rank(i - 1)
    BY RankFacts
<1>0. \A j \in places : j \in Nat /\ 1 <= j /\ j <= n
    OBVIOUS
<1>7. IsFiniteSet(places)
    <2>1. IsFiniteSet(1 .. n)
        BY FS_Interval
    <2> QED
        BY <2>1, FS_Subset
<1>2. ASSUME NEW i \in places, NEW l \in places, i < l
      PROVE  rank(i) < rank(l)
    <2> DEFINE low == {j \in places : j <= i}
               high == {j \in places : j <= l}
    <2>1. low \cup {l} \in SUBSET high /\ l \notin low
        <3>1. \A j \in places : j <= i => j <= l
            BY <1>0, <1>2
        <3>2. l \in Nat /\ i \in Nat /\ ~(l <= i) /\ l <= l
            BY <1>0, <1>2
        <3> QED
            BY <3>1, <3>2
    <2>7. low \in SUBSET places /\ high \in SUBSET places
        OBVIOUS
    <2> HIDE DEF low, high
    <2>2. IsFiniteSet(low) /\ IsFiniteSet(high)
        BY <1>7, <2>7, FS_Subset
    <2>3. Cardinality(low \cup {l}) = Cardinality(low) + 1
        BY <2>1, <2>2, FS_AddElement
    <2>4. Cardinality(low \cup {l}) <= Cardinality(high)
        BY <2>1, <2>2, FS_Subset
    <2>5. Cardinality(low) \in Nat /\ Cardinality(high) \in Nat
        BY <2>2, FS_CardinalityType
    <2>6. Cardinality(low) < Cardinality(high)
        BY <2>3, <2>4, <2>5
    <2> QED
        BY <2>6 DEF low, high
<1>3. PlaceOf(places, 1) = PlaceOf(places, 1) /\ \A k : PlaceOf(places, k) = CHOOSE i \in places : rank(i) = k
    BY DEF PlaceOf
<1> HIDE DEF rank, m
<1>4. ASSUME NEW k \in 1 .. m
      PROVE  \E i \in places : rank(i) = k
    <2> DEFINE Enough == {i \in 0 .. n : rank(i) >= k}
    <2>1. n \in Enough
        BY <1>1
    <2>2. PICK i \in Enough : \A j \in Enough : i <= j
        <3>1. Enough \in SUBSET Nat /\ Enough # {}
            BY <2>1
        <3> HIDE DEF Enough
        <3> QED
            BY <3>1, LeastOf
    <2>3. i # 0
        BY <1>1
    <2>4. i - 1 \in 0 .. n /\ i - 1 \notin Enough
        BY <2>2, <2>3
    <2>5. rank(i - 1) < k
        BY <1>1, <2>4
    <2>6. i \in 1 .. n
        BY <2>3
    <2>7. rank(i) = k /\ i \in places
        BY <1>1, <2>4, <2>5, <2>6
    <2> QED
        BY <2>7
<1>5. \A k \in 1 .. m : PlaceOf(places, k) \in places /\ rank(PlaceOf(places, k)) = k
    BY <1>3, <1>4
<1>6. ASSUME NEW i \in places
      PROVE  rank(i) \in 1 .. m /\ PlaceOf(places, rank(i)) = i
    <2>1. i \in 1 .. n /\ i - 1 \in 0 .. n
        OBVIOUS
    <2>2. rank(i) >= 1
        BY <1>1, <2>1
    <2>3. rank(i) <= m
        <3> DEFINE low == {j \in places : j <= i}
        <3>1. low \in SUBSET places
            OBVIOUS
        <3> HIDE DEF low
        <3>3. Cardinality(low) <= Cardinality(places)
            BY <1>7, <3>1, FS_Subset
        <3> QED
            BY <3>3 DEF low, rank, m
    <2>4. rank(i) \in 1 .. m
        BY <1>1, <2>1, <2>2, <2>3
    <2>5. PlaceOf(places, rank(i)) \in places /\ rank(PlaceOf(places, rank(i))) = rank(i)
        BY <1>5, <2>4
    <2>6. \A l \in places : rank(l) = rank(i) => l = i
        <3>1. SUFFICES ASSUME NEW l \in places, rank(l) = rank(i), l # i PROVE FALSE
            OBVIOUS
        <3>2. rank(i) \in Nat /\ l \in 1 .. n
            BY <1>1, <2>1
        <3>3. CASE l < i
            <4>1. rank(l) < rank(i)
                BY <1>2, <3>3
            <4> QED
                BY <4>1, <3>1, <3>2
        <3>4. CASE i < l
            <4>1. rank(i) < rank(l)
                BY <1>2, <3>4
            <4> QED
                BY <4>1, <3>1, <3>2
        <3> QED
            BY <2>1, <3>1, <3>2, <3>3, <3>4
    <2> QED
        BY <2>4, <2>5, <2>6
<1> QED
    BY <1>1, <1>5, <1>6 DEF m

\* What is kept of a list.
LEMMA KeptFacts ==
    ASSUME NEW n \in Nat, NEW places \in SUBSET (1 .. n), NEW list
    PROVE  /\ IsSeq(Kept(list, places)) /\ Len(Kept(list, places)) = Cardinality(places)
           /\ DOMAIN Kept(list, places) = 1 .. Cardinality(places)
           /\ \A k \in DOMAIN Kept(list, places) :
                /\ PlaceOf(places, k) \in places
                /\ Kept(list, places)[k] = list[PlaceOf(places, k)]
           /\ \A k, l \in DOMAIN Kept(list, places) :
                PlaceOf(places, k) = PlaceOf(places, l) => k = l
           /\ \A i \in places : \E k \in DOMAIN Kept(list, places) : PlaceOf(places, k) = i
<1> DEFINE m == Cardinality(places)
<1>1. Kept(list, places) = [k \in 1 .. m |-> list[PlaceOf(places, k)]]
    BY DEF Kept, PlaceOf
<1>2. m \in Nat
    BY PlaceFacts
<1> HIDE DEF m
<1>3. Kept(list, places) = [k \in 1 .. m |-> Kept(list, places)[k]]
    BY <1>1
<1>4. /\ IsSeq(Kept(list, places)) /\ Len(Kept(list, places)) = m
      /\ DOMAIN Kept(list, places) = 1 .. m
    BY <1>2, <1>3, MadeSeq
<1> QED
    BY <1>1, <1>4, PlaceFacts DEF m

-----------------------------------------------------------------------------
(* The inductive invariant                                                  *)

IsMailbox(r) ==
    r = [name |-> r.name, status |-> r.status, childless |-> r.childless,
         children |-> r.children]

\* Places of the tree are numbers, so that Gone is none.
TreeShape(tree) ==
    /\ tree = [i \in DOMAIN tree |-> tree[i]]
    /\ DOMAIN tree \subseteq Nat /\ IsFiniteSet(DOMAIN tree)
    /\ \A i \in DOMAIN tree : IsMailbox(tree[i])

IsTask(t) ==
    /\ t = [tag |-> t.tag, kind |-> t.kind, name |-> t.name, item |-> t.item,
            phase |-> t.phase]
    /\ t.tag \in Nat /\ t.kind \in {"LIST", "CREATE", "DELETE"}
    /\ t.phase \in {"waiting", "sent", "listing", "offline"}

\* A tag tells which task is meant.
TasksShape(tasks) ==
    /\ IsSeq(tasks)
    /\ \A k \in DOMAIN tasks : IsTask(tasks[k])
    /\ \A k, l \in DOMAIN tasks : tasks[k].tag = tasks[l].tag => k = l

IsAnswer(r) ==
    /\ r.what \in {"data", "OK", "NO"}
    /\ r.what = "data" => IsSeq(r.list)

ClientShape(c) ==
    /\ c = [tree |-> c.tree, later |-> c.later, tasks |-> c.tasks, online |-> c.online,
            toServer |-> c.toServer, toClient |-> c.toClient,
            listResponses |-> c.listResponses]
    /\ TreeShape(c.tree) /\ IsSeq(c.later) /\ TasksShape(c.tasks)
    /\ IsSeq(c.toServer) /\ IsSeq(c.listResponses)
    /\ IsSeq(c.toClient) /\ \A k \in DOMAIN c.toClient : IsAnswer(c.toClient[k])

\* LoadingIsAwaited, of any state of the client: of a mailbox, and of all.
AwaitedIn(later, tasks, i) ==
    \/ \E k \in DOMAIN later : later[k].item = i
    \/ \E k \in DOMAIN tasks : tasks[k].kind = "LIST" /\ tasks[k].item = i
Awaited(c) ==
    \A i \in DOMAIN c.tree : c.tree[i].status = "LOADING" => AwaitedIn(c.later, c.tasks, i)

\* A task that the server has been told of, and has not answered.
Busy(tasks, tag) ==
    \E k \in DOMAIN tasks : tasks[k].tag = tag /\ tasks[k].phase \in {"sent", "listing"}

\* The command of each such task is in one place at most: on its way to the server, among the
\* LISTs it has begun, or answered on its way back.
Tag(r) == r.what # "data"
WireShape(tasks, toServer, listing, toClient) ==
    /\ \A k \in DOMAIN toServer : Busy(tasks, toServer[k].tag)
    /\ \A k \in DOMAIN listing : Busy(tasks, listing[k])
    /\ \A k \in DOMAIN toClient : Tag(toClient[k]) => Busy(tasks, toClient[k].tag)
    /\ \A k, l \in DOMAIN toServer : toServer[k].tag = toServer[l].tag => k = l
    /\ \A k, l \in DOMAIN listing : listing[k] = listing[l] => k = l
    /\ \A k, l \in DOMAIN toClient :
         Tag(toClient[k]) /\ Tag(toClient[l]) /\ toClient[k].tag = toClient[l].tag => k = l
    /\ \A k \in DOMAIN toServer : \A l \in DOMAIN listing : toServer[k].tag # listing[l]
    /\ \A k \in DOMAIN toServer : \A l \in DOMAIN toClient :
         Tag(toClient[l]) => toServer[k].tag # toClient[l].tag
    /\ \A k \in DOMAIN listing : \A l \in DOMAIN toClient :
         Tag(toClient[l]) => listing[k] # toClient[l].tag

\* All that is claimed of the client, given which LISTs the server has begun.
Sound(c, listing) ==
    /\ ClientShape(c) /\ Awaited(c)
    /\ WireShape(c.tasks, c.toServer, listing, c.toClient)

ServerShape ==
    /\ server = [names |-> server.names, listing |-> server.listing]
    /\ IsFiniteSet(server.names) /\ IsSeq(server.listing)

LoadInv == Sound(client, server.listing) /\ ServerShape /\ IsFiniteSet(DOMAIN cache)

-----------------------------------------------------------------------------
(* What happens to the tree                                                 *)

\* A field is set: of a mailbox, or of a task.
Marked(r, status) == [r EXCEPT !.status = status]
WithChildren(r, kids) == [r EXCEPT !.children = kids]
Orphan(t) == [t EXCEPT !.item = Gone]
InPhase(t, phase) == [t EXCEPT !.phase = phase]

\* A mailbox stays one, with another status.
LEMMA MarkedFacts ==
    ASSUME NEW r, IsMailbox(r), NEW status
    PROVE  IsMailbox(Marked(r, status)) /\ Marked(r, status).status = status
<1>1. r = [name |-> r.name, status |-> r.status, childless |-> r.childless,
           children |-> r.children]
    BY DEF IsMailbox
<1>2. Marked(r, status) = [name |-> r.name, status |-> status, childless |-> r.childless,
           children |-> r.children]
    BY <1>1 DEF Marked
<1> QED
    BY <1>2 DEF IsMailbox

\* A mailbox keeps its status when others are below it.
LEMMA WithChildrenFacts ==
    ASSUME NEW r, IsMailbox(r), NEW kids
    PROVE  IsMailbox(WithChildren(r, kids)) /\ WithChildren(r, kids).status = r.status
<1>1. r = [name |-> r.name, status |-> r.status, childless |-> r.childless,
           children |-> r.children]
    BY DEF IsMailbox
<1>2. WithChildren(r, kids) = [name |-> r.name, status |-> r.status,
           childless |-> r.childless, children |-> kids]
    BY <1>1 DEF WithChildren
<1> QED
    BY <1>2 DEF IsMailbox

\* A task whose mailbox is deleted stays what it is.
LEMMA OrphanFacts ==
    ASSUME NEW t, IsTask(t)
    PROVE  /\ IsTask(Orphan(t)) /\ Orphan(t).tag = t.tag /\ Orphan(t).kind = t.kind
           /\ Orphan(t).name = t.name /\ Orphan(t).phase = t.phase /\ Orphan(t).item = Gone
<1>1. t = [tag |-> t.tag, kind |-> t.kind, name |-> t.name, item |-> t.item,
           phase |-> t.phase]
    BY DEF IsTask
<1>2. Orphan(t) = [tag |-> t.tag, kind |-> t.kind, name |-> t.name, item |-> Gone,
           phase |-> t.phase]
    BY <1>1 DEF Orphan
<1> QED
    BY <1>2 DEF IsTask

\* A task stays what it is when it comes into another phase.
LEMMA InPhaseFacts ==
    ASSUME NEW t, IsTask(t), NEW phase \in {"waiting", "sent", "listing", "offline"}
    PROVE  /\ IsTask(InPhase(t, phase)) /\ InPhase(t, phase).tag = t.tag
           /\ InPhase(t, phase).kind = t.kind /\ InPhase(t, phase).name = t.name
           /\ InPhase(t, phase).item = t.item /\ InPhase(t, phase).phase = phase
<1>1. t = [tag |-> t.tag, kind |-> t.kind, name |-> t.name, item |-> t.item,
           phase |-> t.phase]
    BY DEF IsTask
<1>2. InPhase(t, phase) = [tag |-> t.tag, kind |-> t.kind, name |-> t.name, item |-> t.item,
           phase |-> phase]
    BY <1>1 DEF InPhase
<1> QED
    BY <1>2 DEF IsTask

\* A client with another tree and other tasks.
With(c, tree, tasks) ==
    [tree |-> tree, later |-> c.later, tasks |-> tasks, online |-> c.online,
     toServer |-> c.toServer, toClient |-> c.toClient, listResponses |-> c.listResponses]

\* It is a client if they are.
LEMMA WithFacts ==
    ASSUME NEW c, ClientShape(c), NEW tree, TreeShape(tree), NEW tasks, TasksShape(tasks)
    PROVE  /\ ClientShape(With(c, tree, tasks))
           /\ With(c, tree, tasks).tree = tree /\ With(c, tree, tasks).tasks = tasks
           /\ With(c, tree, tasks).later = c.later /\ With(c, tree, tasks).online = c.online
           /\ With(c, tree, tasks).toServer = c.toServer
           /\ With(c, tree, tasks).toClient = c.toClient
           /\ With(c, tree, tasks).listResponses = c.listResponses
<1> DEFINE d == With(c, tree, tasks)
<1>1. d = [tree |-> tree, later |-> c.later, tasks |-> tasks, online |-> c.online,
           toServer |-> c.toServer, toClient |-> c.toClient,
           listResponses |-> c.listResponses]
    BY DEF With
<1> HIDE DEF d
<1>2. /\ d.tree = tree /\ d.tasks = tasks
      /\ d.later = c.later /\ d.online = c.online /\ d.toServer = c.toServer
      /\ d.toClient = c.toClient /\ d.listResponses = c.listResponses
    BY <1>1
<1>3. ClientShape(d)
    BY <1>1, <1>2 DEF ClientShape
<1> QED
    BY <1>2, <1>3 DEF d

\* A status is set, of a mailbox that is there.
LEMMA SetStatusFacts ==
    ASSUME NEW c, ClientShape(c), NEW i, NEW status
    PROVE  /\ ClientShape(SetStatus(c, i, status))
           /\ DOMAIN SetStatus(c, i, status).tree = DOMAIN c.tree
           /\ \A j \in DOMAIN c.tree :
                SetStatus(c, i, status).tree[j].status = IF j = i THEN status ELSE c.tree[j].status
           /\ SetStatus(c, i, status).tasks = c.tasks
           /\ SetStatus(c, i, status).later = c.later
           /\ SetStatus(c, i, status).online = c.online
           /\ SetStatus(c, i, status).toServer = c.toServer
           /\ SetStatus(c, i, status).toClient = c.toClient
           /\ SetStatus(c, i, status).listResponses = c.listResponses
<1> DEFINE tree == [c.tree EXCEPT ![i].status = status]
           d == SetStatus(c, i, status)
<1>1. c = [tree |-> c.tree, later |-> c.later, tasks |-> c.tasks, online |-> c.online,
           toServer |-> c.toServer, toClient |-> c.toClient,
           listResponses |-> c.listResponses]
    BY DEF ClientShape
<1>2. d = With(c, tree, c.tasks)
    BY <1>1 DEF SetStatus, With
<1>3. TreeShape(c.tree) /\ TasksShape(c.tasks)
    BY DEF ClientShape
<1>4. tree = [j \in DOMAIN c.tree |->
                IF j = i THEN Marked(c.tree[j], status) ELSE c.tree[j]]
    BY <1>3 DEF TreeShape, Marked
<1>5. \A j \in DOMAIN c.tree :
        IsMailbox(Marked(c.tree[j], status)) /\ Marked(c.tree[j], status).status = status
    BY <1>3, MarkedFacts DEF TreeShape
<1>6. /\ DOMAIN tree = DOMAIN c.tree
      /\ \A j \in DOMAIN c.tree : tree[j].status = IF j = i THEN status ELSE c.tree[j].status
    BY <1>4, <1>5
<1>7. TreeShape(tree)
    BY <1>3, <1>4, <1>5 DEF TreeShape
<1> HIDE DEF tree, d
<1>8. /\ ClientShape(d) /\ d.tree = tree /\ d.tasks = c.tasks
      /\ d.later = c.later /\ d.online = c.online /\ d.toServer = c.toServer
      /\ d.toClient = c.toClient /\ d.listResponses = c.listResponses
    BY <1>2, <1>3, <1>7, WithFacts
<1> QED
    BY <1>6, <1>8 DEF d

\* The tasks are the same, but for those that have lost their mailbox.
SameTasks(tasks, others) ==
    /\ DOMAIN others = DOMAIN tasks
    /\ \A k \in DOMAIN tasks :
         /\ others[k].tag = tasks[k].tag /\ others[k].kind = tasks[k].kind
         /\ others[k].phase = tasks[k].phase /\ others[k].name = tasks[k].name
         /\ others[k].item \in {tasks[k].item, Gone}

\* Awaited(), of all but one.
AwaitedBut(c, x) ==
    \A i \in DOMAIN c.tree :
      c.tree[i].status = "LOADING" => i = x \/ AwaitedIn(c.later, c.tasks, i)

\* A mailbox that is gone is not in the tree.
LEMMA ButGone ==
    ASSUME NEW c, ClientShape(c)
    PROVE  /\ Gone \notin DOMAIN c.tree
           /\ Awaited(c) <=> AwaitedBut(c, Gone)
           /\ \A x : Awaited(c) => AwaitedBut(c, x)
<1>1. Gone \notin DOMAIN c.tree
    BY DEF ClientShape, TreeShape, Gone
<1> QED
    BY <1>1 DEF Awaited, AwaitedBut

\* What is below a mailbox is removed: who is still loading is still awaited.
LEMMA RemoveRowsFacts ==
    ASSUME NEW c, ClientShape(c), NEW x, AwaitedBut(c, x), NEW i, NEW keep
    PROVE  /\ ClientShape(RemoveRows(c, i, keep)) /\ AwaitedBut(RemoveRows(c, i, keep), x)
           /\ SameTasks(c.tasks, RemoveRows(c, i, keep).tasks)
           /\ RemoveRows(c, i, keep).later = c.later
           /\ RemoveRows(c, i, keep).online = c.online
           /\ RemoveRows(c, i, keep).toServer = c.toServer
           /\ RemoveRows(c, i, keep).toClient = c.toClient
           /\ RemoveRows(c, i, keep).listResponses = c.listResponses
<1> DEFINE dead == Subtrees(c.tree, Range(c.tree[i].children) \ Range(keep))
           tree == [j \in DOMAIN c.tree \ dead |->
                      IF j = i THEN WithChildren(c.tree[i], keep) ELSE c.tree[j]]
           tasks == [k \in DOMAIN c.tasks |->
                       IF c.tasks[k].item \in dead THEN Orphan(c.tasks[k]) ELSE c.tasks[k]]
           d == RemoveRows(c, i, keep)
<1>1. d = With(c, tree, tasks)
    <2>1. c = [tree |-> c.tree, later |-> c.later, tasks |-> c.tasks, online |-> c.online,
               toServer |-> c.toServer, toClient |-> c.toClient,
               listResponses |-> c.listResponses]
        BY DEF ClientShape
    <2>2. d = [c EXCEPT !.tree = tree, !.tasks = tasks]
        BY DEF RemoveRows, WithChildren, Orphan
    <2> HIDE DEF tree, tasks, d
    <2> QED
        BY <2>1, <2>2 DEF With
<1> HIDE DEF dead, d
<1>2. TreeShape(c.tree) /\ TasksShape(c.tasks)
    BY DEF ClientShape
<1>3. \A j \in DOMAIN c.tree :
        /\ IsMailbox(WithChildren(c.tree[j], keep))
        /\ WithChildren(c.tree[j], keep).status = c.tree[j].status
    BY <1>2, WithChildrenFacts DEF TreeShape
<1>4. \A k \in DOMAIN c.tasks :
        /\ IsTask(Orphan(c.tasks[k]))
        /\ Orphan(c.tasks[k]).tag = c.tasks[k].tag /\ Orphan(c.tasks[k]).kind = c.tasks[k].kind
        /\ Orphan(c.tasks[k]).name = c.tasks[k].name
        /\ Orphan(c.tasks[k]).phase = c.tasks[k].phase /\ Orphan(c.tasks[k]).item = Gone
    BY <1>2, OrphanFacts DEF TasksShape
<1>5. DOMAIN tree \subseteq DOMAIN c.tree /\ IsFiniteSet(DOMAIN tree)
    <2>1. DOMAIN tree \in SUBSET DOMAIN c.tree
        OBVIOUS
    <2>2. IsFiniteSet(DOMAIN c.tree)
        BY <1>2 DEF TreeShape
    <2> HIDE DEF tree
    <2> QED
        BY <2>1, <2>2, FS_Subset
<1>6. \A j \in DOMAIN tree : IsMailbox(tree[j]) /\ tree[j].status = c.tree[j].status
    BY <1>2, <1>3 DEF TreeShape
<1>7. TreeShape(tree)
    BY <1>2, <1>5, <1>6 DEF TreeShape
<1>8. SameTasks(c.tasks, tasks) /\ \A k \in DOMAIN tasks : IsTask(tasks[k])
    BY <1>2, <1>4 DEF SameTasks, TasksShape
<1>9. TasksShape(tasks)
    <2>1. IsSeq(c.tasks)
        BY <1>2 DEF TasksShape
    <2>2. Len(c.tasks) \in Nat /\ DOMAIN c.tasks = 1 .. Len(c.tasks)
        BY <2>1, SeqFacts
    <2>3. tasks = [k \in 1 .. Len(c.tasks) |-> tasks[k]]
        BY <2>2
    <2>4. IsSeq(tasks)
        BY <2>2, <2>3, MadeSeq
    <2> QED
        BY <1>2, <1>8, <2>4 DEF SameTasks, TasksShape
<1>10. ASSUME NEW j \in DOMAIN tree, tree[j].status = "LOADING"
       PROVE  j = x \/ AwaitedIn(c.later, tasks, j)
    <2>1. j \in DOMAIN c.tree /\ c.tree[j].status = "LOADING" /\ j \notin dead
        BY <1>6, <1>10
    <2>2. j = x \/ AwaitedIn(c.later, c.tasks, j)
        BY <2>1 DEF AwaitedBut
    <2> QED
        BY <2>1, <2>2 DEF AwaitedIn
<1> HIDE DEF tree, tasks
<1>11. /\ ClientShape(d) /\ d.tree = tree /\ d.tasks = tasks
       /\ d.later = c.later /\ d.online = c.online /\ d.toServer = c.toServer
       /\ d.toClient = c.toClient /\ d.listResponses = c.listResponses
    BY <1>1, <1>7, <1>9, WithFacts
<1>12. AwaitedBut(d, x)
    BY <1>10, <1>11 DEF AwaitedBut
<1> QED
    BY <1>8, <1>11, <1>12 DEF d

\* The objects that are made are as many as asked for, and each has a number.
LEMMA NewItemsFacts ==
    ASSUME NEW c, ClientShape(c), NEW n \in Nat
    PROVE  IsSeq(NewItems(c, n)) /\ \A k \in DOMAIN NewItems(c, n) : NewItems(c, n)[k] \in Nat
<1> DEFINE item == [k \in DOMAIN c.later |-> c.later[k].item]
           posted == {item[k] : k \in DOMAIN c.later}
           used == DOMAIN c.tree \cup {c.later[k].item : k \in DOMAIN c.later}
           u == Cardinality(used)
           m == u + n
           numbers == [i \in 1 .. m |-> i]
           places == DOMAIN numbers \ used
           kept == Kept(numbers, places)
<1>1. IsFiniteSet(posted)
    <2>1. DOMAIN item = DOMAIN c.later /\ item = [k \in DOMAIN c.later |-> item[k]]
        OBVIOUS
    <2>2. IsFiniteSet(DOMAIN c.later)
        BY SeqFacts DEF ClientShape
    <2> HIDE DEF item
    <2> QED
        BY <2>1, <2>2, ImageIsFinite
<1>2. used = DOMAIN c.tree \cup posted
    OBVIOUS
<1> HIDE DEF posted, item, used
<1>3. IsFiniteSet(used) /\ u \in Nat
    BY <1>1, <1>2, FS_Union, FS_CardinalityType DEF ClientShape, TreeShape
<1> HIDE DEF u
<1>11. m \in Nat /\ m = u + n
    BY <1>3
<1> HIDE DEF m
<1>4. DOMAIN numbers = 1 .. m /\ places \in SUBSET (1 .. m)
    OBVIOUS
<1>5. Cardinality(places) \in Nat /\ Cardinality(places) >= n
    <2> DEFINE all == 1 .. m
    <2>8. m \in Int
        BY <1>11
    <2>1. IsFiniteSet(all) /\ Cardinality(all) = IF 1 > m THEN 0 ELSE m - 1 + 1
        BY <2>8, FS_Interval
    <2>2. places = all \ used
        BY <1>4
    <2>3. Cardinality(all) = m
        BY <1>11, <2>1
    <2> HIDE DEF all, places
    <2>4. IsFiniteSet(places) /\ Cardinality(places) = Cardinality(all) - Cardinality(all \cap used)
        BY <2>1, <2>2, FS_Difference
    <2>5. Cardinality(all \cap used) <= u
        BY <1>3, FS_Intersection DEF u
    <2>6. Cardinality(places) \in Nat /\ IsFiniteSet(all \cap used)
        BY <1>3, <2>1, <2>4, FS_CardinalityType, FS_Intersection
    <2>7. Cardinality(all \cap used) \in Nat
        BY <2>6, FS_CardinalityType
    <2> QED
        BY <1>3, <1>11, <2>3, <2>4, <2>5, <2>6, <2>7
<1>6. IsSeq(kept) /\ Len(kept) = Cardinality(places) /\ \A k \in 1 .. Len(kept) : kept[k] \in Nat
    <2>1. \A i \in places : numbers[i] \in Nat
        BY <1>4
    <2>2. places \in SUBSET (1 .. m) /\ m \in Nat
        BY <1>4, <1>11
    <2> HIDE DEF numbers, places
    <2>3. /\ IsSeq(kept) /\ Len(kept) = Cardinality(places)
          /\ DOMAIN kept = 1 .. Cardinality(places)
          /\ \A k \in DOMAIN kept :
               PlaceOf(places, k) \in places /\ kept[k] = numbers[PlaceOf(places, k)]
        BY <2>2, KeptFacts
    <2> QED
        BY <2>1, <2>3
<1>7. NewItems(c, n) = SubSeq(kept, 1, n)
    BY DEF NewItems, used, u, m
<1> HIDE DEF kept, places, numbers
<1>8. kept \in Seq(Nat)
    <2>1. kept = [k \in 1 .. Len(kept) |-> kept[k]] /\ Len(kept) \in Nat
        BY <1>6, SeqFacts
    <2>2. kept \in [1 .. Len(kept) -> Nat]
        BY <1>6, <2>1
    <2> QED
        BY <2>1, <2>2
<1>9. SubSeq(kept, 1, n) \in Seq(Nat)
    BY <1>8, <1>6, <1>5
<1>10. IsSeq(SubSeq(kept, 1, n))
    BY <1>9, SeqIsSeq
<1> QED
    BY <1>7, <1>9, <1>10

\* Rows are inserted: what is new is not loading.
LEMMA InsertRowsFacts ==
    ASSUME NEW c, ClientShape(c), NEW x, AwaitedBut(c, x), NEW i, NEW kids, NEW new, NEW records,
           IsSeq(new), \A k \in DOMAIN new : new[k] \in Nat
    PROVE  /\ ClientShape(InsertRows(c, i, kids, new, records))
           /\ AwaitedBut(InsertRows(c, i, kids, new, records), x)
           /\ InsertRows(c, i, kids, new, records).tasks = c.tasks
           /\ InsertRows(c, i, kids, new, records).later = c.later
           /\ InsertRows(c, i, kids, new, records).online = c.online
           /\ InsertRows(c, i, kids, new, records).toServer = c.toServer
           /\ InsertRows(c, i, kids, new, records).toClient = c.toClient
           /\ InsertRows(c, i, kids, new, records).listResponses = c.listResponses
<1> DEFINE record(j) == records[CHOOSE k \in DOMAIN new : new[k] = j]
           tree == [j \in DOMAIN c.tree \cup Range(new) |->
                      IF j \in Range(new) THEN Item(record(j))
                      ELSE IF j = i THEN WithChildren(c.tree[i], kids)
                      ELSE c.tree[j]]
           d == InsertRows(c, i, kids, new, records)
<1>1. TreeShape(c.tree) /\ TasksShape(c.tasks)
    BY DEF ClientShape
<1>2. d = With(c, tree, c.tasks)
    <2>1. c = [tree |-> c.tree, later |-> c.later, tasks |-> c.tasks, online |-> c.online,
               toServer |-> c.toServer, toClient |-> c.toClient,
               listResponses |-> c.listResponses]
        BY DEF ClientShape
    <2>2. d = [c EXCEPT !.tree = tree]
        BY DEF InsertRows, WithChildren
    <2> HIDE DEF tree, d
    <2> QED
        BY <2>1, <2>2 DEF With
<1>3. IsFiniteSet(Range(new)) /\ Range(new) \subseteq Nat
    <2>1. /\ IsFiniteSet(DOMAIN new) /\ new = [k \in DOMAIN new |-> new[k]]
        BY SeqFacts
    <2>2. IsFiniteSet({new[k] : k \in DOMAIN new})
        BY <2>1, ImageIsFinite
    <2> QED
        BY <2>2 DEF Range
<1>4. \A r : IsMailbox(Item(r)) /\ Item(r).status = "NONE"
    BY DEF Item, IsMailbox
<1>5. \A j \in DOMAIN c.tree :
        /\ IsMailbox(WithChildren(c.tree[j], kids))
        /\ WithChildren(c.tree[j], kids).status = c.tree[j].status
    BY <1>1, WithChildrenFacts DEF TreeShape
<1>6. ASSUME NEW j \in DOMAIN tree
      PROVE  /\ IsMailbox(tree[j])
             /\ tree[j].status # "NONE" =>
                  j \in DOMAIN c.tree /\ tree[j].status = c.tree[j].status
    <2>1. CASE j \in Range(new)
        BY <1>4, <2>1
    <2>2. CASE j \notin Range(new)
        BY <1>1, <1>5, <2>2 DEF TreeShape
    <2> QED
        BY <2>1, <2>2
<1>7. DOMAIN tree = DOMAIN c.tree \cup Range(new) /\ tree = [j \in DOMAIN tree |-> tree[j]]
    OBVIOUS
<1> HIDE DEF tree, d
<1>8. TreeShape(tree)
    <2>1. IsFiniteSet(DOMAIN c.tree \cup Range(new)) /\ DOMAIN tree \subseteq Nat
        BY <1>1, <1>3, <1>7, FS_Union DEF TreeShape
    <2> QED
        BY <1>6, <1>7, <2>1 DEF TreeShape
<1>9. /\ ClientShape(d) /\ d.tree = tree /\ d.tasks = c.tasks
      /\ d.later = c.later /\ d.online = c.online /\ d.toServer = c.toServer
      /\ d.toClient = c.toClient /\ d.listResponses = c.listResponses
    BY <1>1, <1>2, <1>8, WithFacts
<1>10. AwaitedBut(d, x)
    BY <1>6, <1>9 DEF AwaitedBut
<1> QED
    BY <1>9, <1>10 DEF d

\* The wires and what is posted are left alone.
SameAround(c, d) ==
    /\ SameTasks(c.tasks, d.tasks) /\ d.later = c.later /\ d.online = c.online
    /\ d.toServer = c.toServer /\ d.toClient = c.toClient

\* What is below a mailbox is replaced: it is not loading any more.
LEMMA ReplaceFacts ==
    ASSUME NEW c, ClientShape(c), NEW i, AwaitedBut(c, i), NEW records, IsSeq(records)
    PROVE  /\ ClientShape(replaceChildMailboxes(c, i, records))
           /\ Awaited(replaceChildMailboxes(c, i, records))
           /\ i \in DOMAIN replaceChildMailboxes(c, i, records).tree =>
                replaceChildMailboxes(c, i, records).tree[i].status = "DONE"
           /\ SameAround(c, replaceChildMailboxes(c, i, records))
           /\ replaceChildMailboxes(c, i, records).listResponses = c.listResponses
<1> DEFINE emptied == RemoveRows(c, i, <<>>)
           new == NewItems(emptied, Len(records))
           filled == InsertRows(emptied, i, new, new, records)
           d == SetStatus(filled, i, "DONE")
<1>1. replaceChildMailboxes(c, i, records) = d
    BY DEF replaceChildMailboxes
<1>2. /\ ClientShape(emptied) /\ AwaitedBut(emptied, i)
      /\ SameAround(c, emptied) /\ emptied.listResponses = c.listResponses
    BY RemoveRowsFacts DEF SameAround
<1> HIDE DEF emptied
<1>3. Len(records) \in Nat
    BY SeqFacts
<1>4. IsSeq(new) /\ \A k \in DOMAIN new : new[k] \in Nat
    BY <1>2, <1>3, NewItemsFacts
<1> HIDE DEF new
<1>5. /\ ClientShape(filled) /\ AwaitedBut(filled, i)
      /\ filled.tasks = emptied.tasks /\ filled.later = emptied.later
      /\ filled.online = emptied.online /\ filled.toServer = emptied.toServer
      /\ filled.toClient = emptied.toClient /\ filled.listResponses = emptied.listResponses
    BY <1>2, <1>4, InsertRowsFacts
<1> HIDE DEF filled
<1>6. /\ ClientShape(d) /\ DOMAIN d.tree = DOMAIN filled.tree
      /\ \A j \in DOMAIN filled.tree :
           d.tree[j].status = IF j = i THEN "DONE" ELSE filled.tree[j].status
      /\ d.tasks = filled.tasks /\ d.later = filled.later
      /\ d.online = filled.online /\ d.toServer = filled.toServer
      /\ d.toClient = filled.toClient /\ d.listResponses = filled.listResponses
    BY <1>5, SetStatusFacts
<1> HIDE DEF d
<1>7. Awaited(d)
    <2>1. SUFFICES ASSUME NEW j \in DOMAIN d.tree, d.tree[j].status = "LOADING"
                   PROVE  AwaitedIn(d.later, d.tasks, j)
        BY DEF Awaited
    <2>2. j # i /\ j \in DOMAIN filled.tree /\ filled.tree[j].status = "LOADING"
        BY <1>6, <2>1
    <2>3. AwaitedIn(filled.later, filled.tasks, j)
        BY <1>5, <2>2 DEF AwaitedBut
    <2> QED
        BY <1>6, <2>3
<1>8. SameAround(c, d) /\ d.listResponses = c.listResponses
    BY <1>2, <1>5, <1>6 DEF SameAround
<1> QED
    BY <1>1, <1>6, <1>7, <1>8

-----------------------------------------------------------------------------
(* What LIST says is taken into the tree                                    *)

\* A client of its parts.
ClientOf(tree, later, tasks, online, toServer, toClient, listResponses) ==
    [tree |-> tree, later |-> later, tasks |-> tasks, online |-> online,
     toServer |-> toServer, toClient |-> toClient, listResponses |-> listResponses]

\* It is one if they are what they should be.
LEMMA ClientOfFacts ==
    ASSUME NEW tree, TreeShape(tree), NEW later, IsSeq(later), NEW tasks, TasksShape(tasks),
           NEW online, NEW toServer, IsSeq(toServer), NEW toClient, IsSeq(toClient),
           \A k \in DOMAIN toClient : IsAnswer(toClient[k]),
           NEW listResponses, IsSeq(listResponses),
           NEW d, d = ClientOf(tree, later, tasks, online, toServer, toClient, listResponses)
    PROVE  /\ ClientShape(d)
           /\ d.tree = tree /\ d.later = later /\ d.tasks = tasks /\ d.online = online
           /\ d.toServer = toServer /\ d.toClient = toClient
           /\ d.listResponses = listResponses
<1>1. d = [tree |-> tree, later |-> later, tasks |-> tasks, online |-> online,
           toServer |-> toServer, toClient |-> toClient, listResponses |-> listResponses]
    BY DEF ClientOf
<1>2. /\ d.tree = tree /\ d.later = later /\ d.tasks = tasks /\ d.online = online
      /\ d.toServer = toServer /\ d.toClient = toClient
      /\ d.listResponses = listResponses
    BY <1>1
<1> QED
    BY <1>1, <1>2 DEF ClientShape

\* The client consists of its parts.
LEMMA ClientParts ==
    ASSUME NEW c, ClientShape(c)
    PROVE  /\ c = [tree |-> c.tree, later |-> c.later, tasks |-> c.tasks, online |-> c.online,
                   toServer |-> c.toServer, toClient |-> c.toClient,
                   listResponses |-> c.listResponses]
           /\ TreeShape(c.tree) /\ IsSeq(c.later) /\ TasksShape(c.tasks)
           /\ IsSeq(c.toServer) /\ IsSeq(c.listResponses)
           /\ IsSeq(c.toClient) /\ \A k \in DOMAIN c.toClient : IsAnswer(c.toClient[k])
BY DEF ClientShape

\* Other responses have been collected.
LEMMA HeardFacts ==
    ASSUME NEW c, ClientShape(c), NEW list, IsSeq(list),
           NEW d, d = [c EXCEPT !.listResponses = list]
    PROVE  /\ ClientShape(d) /\ d.tree = c.tree /\ d.tasks = c.tasks
           /\ d.later = c.later /\ d.online = c.online /\ d.toServer = c.toServer
           /\ d.toClient = c.toClient /\ d.listResponses = list
<1>1. d = ClientOf(c.tree, c.later, c.tasks, c.online, c.toServer, c.toClient, list)
    <2>1. c = [tree |-> c.tree, later |-> c.later, tasks |-> c.tasks, online |-> c.online,
               toServer |-> c.toServer, toClient |-> c.toClient,
               listResponses |-> c.listResponses]
        BY ClientParts
    <2> QED
        BY <2>1 DEF ClientOf
<1> QED
    BY <1>1, ClientParts, ClientOfFacts

\* Who is sorted is in a sequence.
LEMMA SortedIsSeq ==
    ASSUME NEW S, IsFiniteSet(S)
    PROVE  IsSeq(Sorted(S))
<1> DEFINE n == Cardinality(S)
           r(k) == CHOOSE r \in S : Cardinality({q \in S : Before(q.name, r.name)}) = k - 1
           f == [k \in 1 .. n |-> r(k)]
<1>1. n \in Nat
    BY FS_CardinalityType
<1>2. f = Sorted(S)
    BY DEF Sorted
<1> HIDE DEF n, r
<1>3. f = [k \in 1 .. n |-> f[k]]
    OBVIOUS
<1> HIDE DEF f
<1>4. IsSeq(f)
    BY <1>1, <1>3, MadeSeq
<1> QED
    BY <1>2, <1>4

\* Some of a sequence: finitely many, at places of it.
LEMMA SomeOfSeq ==
    ASSUME NEW list, IsSeq(list), NEW places \in SUBSET DOMAIN list
    PROVE  /\ IsFiniteSet({list[k] : k \in places})
           /\ Len(list) \in Nat /\ places \in SUBSET (1 .. Len(list))
<1>1. /\ IsFiniteSet(DOMAIN list) /\ DOMAIN list = 1 .. Len(list) /\ Len(list) \in Nat
    BY SeqFacts
<1> DEFINE f == [k \in places |-> list[k]]
<1>2. IsFiniteSet(places)
    BY <1>1, FS_Subset
<1>3. DOMAIN f = places /\ f = [k \in places |-> f[k]]
    OBVIOUS
<1>4. {list[k] : k \in places} = {f[k] : k \in places}
    OBVIOUS
<1> HIDE DEF f
<1>5. IsFiniteSet({f[k] : k \in places})
    BY <1>2, <1>3, ImageIsFinite
<1> QED
    BY <1>1, <1>4, <1>5

\* What is kept of a sequence is one.
LEMMA KeptIsSeq ==
    ASSUME NEW list, IsSeq(list), NEW places \in SUBSET DOMAIN list
    PROVE  IsSeq(Kept(list, places))
BY SomeOfSeq, KeptFacts

\* One of each name is a sequence, too.
LEMMA UniqueIsSeq ==
    ASSUME NEW list, IsSeq(list)
    PROVE  IsSeq(Unique(list))
<1> DEFINE places == {k \in DOMAIN list : \A j \in 1 .. (k - 1) : list[j].name # list[k].name}
<1>1. places \in SUBSET DOMAIN list
    OBVIOUS
<1>2. Unique(list) = Sorted({list[k] : k \in places})
    BY DEF Unique
<1> HIDE DEF places
<1> QED
    BY <1>1, <1>2, SomeOfSeq, SortedIsSeq

\* The answer about a mailbox is a sequence.
LEMMA RecordsIsSeq ==
    ASSUME NEW c, ClientShape(c), NEW n
    PROVE  IsSeq(Records(c, n))
<1> DEFINE list == c.listResponses
           places == Taken(list, n) \ Own(list, n)
<1>1. IsSeq(list)
    BY ClientParts
<1>2. places \in SUBSET DOMAIN list
    BY DEF Taken
<1>3. Records(c, n) = Unique(Kept(list, places))
    BY DEF Records
<1> HIDE DEF list, places
<1> QED
    BY <1>1, <1>2, <1>3, KeptIsSeq, UniqueIsSeq

\* finalizeList() ends the loading of the mailbox that was listed, and no other's.
LEMMA FinalizeListFacts ==
    ASSUME NEW c, ClientShape(c), Awaited(c), NEW t
    PROVE  /\ ClientShape(finalizeList(c, t)) /\ Awaited(finalizeList(c, t))
           /\ t.item \in DOMAIN finalizeList(c, t).tree =>
                finalizeList(c, t).tree[t.item].status = "DONE"
           /\ SameAround(c, finalizeList(c, t))
<1> DEFINE list == c.listResponses
           others == DOMAIN list \ (Taken(list, t.name) \cup Own(list, t.name))
           kept == Kept(list, others)
           rest == [c EXCEPT !.listResponses = kept]
           records == Records(c, t.name)
           d == replaceChildMailboxes(rest, t.item, records)
<1>1. finalizeList(c, t) = d
    BY DEF finalizeList
<1>2. IsSeq(kept)
    <2>1. IsSeq(list) /\ others \in SUBSET DOMAIN list
        BY ClientParts
    <2> HIDE DEF list, others
    <2> QED
        BY <2>1, KeptIsSeq
<1> HIDE DEF kept
<1>3. /\ ClientShape(rest) /\ rest.tree = c.tree /\ rest.tasks = c.tasks
      /\ rest.later = c.later /\ rest.online = c.online /\ rest.toServer = c.toServer
      /\ rest.toClient = c.toClient
    BY <1>2, HeardFacts
<1> HIDE DEF rest
<1>4. AwaitedBut(rest, t.item)
    BY <1>3 DEF Awaited, AwaitedBut
<1>5. IsSeq(records)
    BY RecordsIsSeq
<1> HIDE DEF records
<1>6. /\ ClientShape(d) /\ Awaited(d) /\ SameAround(rest, d)
      /\ t.item \in DOMAIN d.tree => d.tree[t.item].status = "DONE"
    BY <1>3, <1>4, <1>5, ReplaceFacts
<1> QED
    BY <1>1, <1>3, <1>6 DEF SameAround

\* Nothing around is disturbed when only the tree and what was collected change.
LEMMA TreeAlone ==
    ASSUME NEW c, ClientShape(c), NEW d, d.tasks = c.tasks, d.later = c.later,
           d.online = c.online, d.toServer = c.toServer, d.toClient = c.toClient
    PROVE  SameAround(c, d)
BY DEF SameAround, SameTasks

\* What was created is put into the tree.
LEMMA FinalizeIncrementalListFacts ==
    ASSUME NEW c, ClientShape(c), Awaited(c), NEW n
    PROVE  /\ ClientShape(finalizeIncrementalList(c, n))
           /\ Awaited(finalizeIncrementalList(c, n))
           /\ SameAround(c, finalizeIncrementalList(c, n))
<1> DEFINE list == c.listResponses
           own == Kept(list, Own(list, n))
           kept == Kept(list, DOMAIN list \ Own(list, n))
           rest == [c EXCEPT !.listResponses = kept]
           above == findParentMailboxByName(c.tree, n)
           kids == c.tree[above].children
           place == Cardinality({k \in DOMAIN kids :
                        \A j \in 1 .. k : Before(c.tree[kids[j]].name, n)}) + 1
           new == NewItems(c, 1)
           inserted == InsertAt(kids, place, new[1])
           filled == InsertRows(rest, above, inserted, new, own)
           d == finalizeIncrementalList(c, n)
<1>1. d = IF Len(own) # 1 THEN rest ELSE filled
    BY DEF finalizeIncrementalList
<1>2. IsSeq(kept)
    <2>1. IsSeq(list)
        BY ClientParts
    <2> HIDE DEF list
    <2> QED
        BY <2>1, KeptIsSeq
<1>3. IsSeq(new) /\ \A k \in DOMAIN new : new[k] \in Nat
    BY NewItemsFacts
<1> HIDE DEF list, kept, own, above, inserted, new, d
<1>4. /\ ClientShape(rest) /\ rest.tree = c.tree /\ rest.tasks = c.tasks
      /\ rest.later = c.later /\ rest.online = c.online /\ rest.toServer = c.toServer
      /\ rest.toClient = c.toClient
    BY <1>2, HeardFacts
<1> HIDE DEF rest
<1>5. Awaited(rest) /\ AwaitedBut(rest, Gone)
    <2>1. Awaited(rest)
        BY <1>4 DEF Awaited
    <2> QED
        BY <1>4, <2>1, ButGone
<1>6. /\ ClientShape(filled) /\ AwaitedBut(filled, Gone)
      /\ filled.tasks = rest.tasks /\ filled.later = rest.later
      /\ filled.online = rest.online /\ filled.toServer = rest.toServer
      /\ filled.toClient = rest.toClient
    BY <1>3, <1>4, <1>5, InsertRowsFacts
<1> HIDE DEF filled
<1>7. Awaited(filled)
    BY <1>6, ButGone
<1>8. ClientShape(d) /\ Awaited(d)
    BY <1>1, <1>4, <1>5, <1>6, <1>7
<1>9. SameAround(c, d)
    <2>1. CASE d = rest
        BY <1>4, <2>1, TreeAlone
    <2>2. CASE d = filled
        BY <1>4, <1>6, <2>2, TreeAlone
    <2> QED
        BY <1>1, <2>1, <2>2
<1> QED
    BY <1>8, <1>9 DEF d

\* What was deleted is taken out of the tree.
LEMMA RemoveMailboxFacts ==
    ASSUME NEW c, ClientShape(c), Awaited(c), NEW n
    PROVE  /\ ClientShape(RemoveMailbox(c, n)) /\ Awaited(RemoveMailbox(c, n))
           /\ SameAround(c, RemoveMailbox(c, n))
<1> DEFINE found == findMailboxByName(c.tree, n)
           above == CHOOSE i \in DOMAIN c.tree : found \in Range(c.tree[i].children)
           keep == SelectSeq(c.tree[above].children, LAMBDA k : k # found)
           removed == RemoveRows(c, above, keep)
           d == RemoveMailbox(c, n)
<1>1. d = IF found = Gone THEN c ELSE removed
    BY DEF RemoveMailbox
<1> HIDE DEF found, above, keep, d
<1>2. AwaitedBut(c, Gone)
    BY ButGone
<1>3. /\ ClientShape(removed) /\ AwaitedBut(removed, Gone) /\ SameAround(c, removed)
    BY <1>2, RemoveRowsFacts DEF SameAround
<1> HIDE DEF removed
<1>4. Awaited(removed)
    BY <1>3, ButGone
<1>5. SameAround(c, c)
    BY TreeAlone
<1>6. ClientShape(d) /\ Awaited(d) /\ SameAround(c, d)
    BY <1>1, <1>3, <1>4, <1>5
<1> QED
    BY <1>6 DEF d

-----------------------------------------------------------------------------
(* Tasks come and go                                                        *)

\* Those of the tasks which stand in these places, and they alone.
AreThese(some, tasks, places) ==
    /\ \A k \in DOMAIN some : \E l \in places : some[k] = tasks[l]
    /\ \A l \in places : \E k \in DOMAIN some : some[k] = tasks[l]

\* Some of the tasks are tasks, each with a tag of its own.
LEMMA KeptTasks ==
    ASSUME NEW tasks, TasksShape(tasks), NEW places \in SUBSET DOMAIN tasks
    PROVE  /\ TasksShape(Kept(tasks, places))
           /\ AreThese(Kept(tasks, places), tasks, places)
<1> DEFINE some == Kept(tasks, places)
<1>1. IsSeq(tasks)
    BY DEF TasksShape
<1>2. Len(tasks) \in Nat /\ places \in SUBSET (1 .. Len(tasks))
    BY <1>1, SomeOfSeq
<1>3. /\ IsSeq(some)
      /\ \A k \in DOMAIN some :
           PlaceOf(places, k) \in places /\ some[k] = tasks[PlaceOf(places, k)]
      /\ \A k, l \in DOMAIN some : PlaceOf(places, k) = PlaceOf(places, l) => k = l
      /\ \A i \in places : \E k \in DOMAIN some : PlaceOf(places, k) = i
    BY <1>2, KeptFacts
<1> HIDE DEF some
<1>4. AreThese(some, tasks, places)
    BY <1>3 DEF AreThese
<1>5. \A k \in DOMAIN some : IsTask(some[k])
    BY <1>3 DEF TasksShape
<1>6. \A k, l \in DOMAIN some : some[k].tag = some[l].tag => k = l
    <2>1. SUFFICES ASSUME NEW k \in DOMAIN some, NEW l \in DOMAIN some,
                          some[k].tag = some[l].tag
                   PROVE  k = l
        OBVIOUS
    <2>2. PlaceOf(places, k) = PlaceOf(places, l)
        BY <1>3, <2>1 DEF TasksShape
    <2> QED
        BY <1>3, <2>2
<1>7. TasksShape(some)
    BY <1>3, <1>5, <1>6 DEF TasksShape
<1> QED
    BY <1>4, <1>7 DEF some

\* Those whose tags are not among these.
Others(tasks, tags) == {k \in DOMAIN tasks : tasks[k].tag \notin tags}

\* The tasks with some tags are taken away.
LEMMA WithoutTasksFacts ==
    ASSUME NEW c, ClientShape(c), NEW tags
    PROVE  /\ ClientShape(WithoutTasks(c, tags))
           /\ AreThese(WithoutTasks(c, tags).tasks, c.tasks, Others(c.tasks, tags))
           /\ WithoutTasks(c, tags).tree = c.tree /\ WithoutTasks(c, tags).later = c.later
           /\ WithoutTasks(c, tags).online = c.online
           /\ WithoutTasks(c, tags).toServer = c.toServer
           /\ WithoutTasks(c, tags).toClient = c.toClient
           /\ WithoutTasks(c, tags).listResponses = c.listResponses
<1> DEFINE some == Kept(c.tasks, Others(c.tasks, tags))
           d == WithoutTasks(c, tags)
<1>1. TreeShape(c.tree) /\ TasksShape(c.tasks)
    BY ClientParts
<1>2. TasksShape(some) /\ AreThese(some, c.tasks, Others(c.tasks, tags))
    <2>1. Others(c.tasks, tags) \in SUBSET DOMAIN c.tasks
        BY DEF Others
    <2> QED
        BY <1>1, <2>1, KeptTasks
<1>3. d = With(c, c.tree, some)
    <2>1. c = [tree |-> c.tree, later |-> c.later, tasks |-> c.tasks, online |-> c.online,
               toServer |-> c.toServer, toClient |-> c.toClient,
               listResponses |-> c.listResponses]
        BY ClientParts
    <2>2. d = [c EXCEPT !.tasks = some]
        BY DEF WithoutTasks, Others
    <2> HIDE DEF some, d
    <2> QED
        BY <2>1, <2>2 DEF With
<1> HIDE DEF some, d
<1>4. /\ ClientShape(d) /\ d.tree = c.tree /\ d.tasks = some
      /\ d.later = c.later /\ d.online = c.online /\ d.toServer = c.toServer
      /\ d.toClient = c.toClient /\ d.listResponses = c.listResponses
    BY <1>1, <1>2, <1>3, WithFacts
<1> QED
    BY <1>2, <1>4 DEF d

\* Tasks which fail end the loading of what they were to list.
LEMMA FailedFacts ==
    ASSUME NEW c, ClientShape(c), Awaited(c), NEW tags
    PROVE  /\ ClientShape(Failed(c, tags)) /\ Awaited(Failed(c, tags))
           /\ AreThese(Failed(c, tags).tasks, c.tasks, Others(c.tasks, tags))
           /\ Failed(c, tags).later = c.later /\ Failed(c, tags).online = c.online
           /\ Failed(c, tags).toServer = c.toServer
           /\ Failed(c, tags).toClient = c.toClient
           /\ Failed(c, tags).listResponses = c.listResponses
<1> DEFINE dying == {k \in DOMAIN c.tasks : c.tasks[k].tag \in tags}
           listed == {c.tasks[k].item : k \in {k \in dying : c.tasks[k].kind = "LIST"}}
           tree == [i \in DOMAIN c.tree |->
                      IF i \in listed THEN Marked(c.tree[i], "UNAVAILABLE") ELSE c.tree[i]]
           b == [c EXCEPT !.tree = tree]
           d == WithoutTasks(b, tags)
<1>1. TreeShape(c.tree) /\ TasksShape(c.tasks)
    BY ClientParts
<1>2. Failed(c, tags) = d
    BY DEF Failed, Marked
<1>3. \A k \in DOMAIN c.tasks :
        c.tasks[k].kind = "LIST" /\ c.tasks[k].item \notin listed => k \in Others(c.tasks, tags)
    BY DEF Others
<1> HIDE DEF listed
<1>4. \A i \in DOMAIN c.tree :
        /\ IsMailbox(Marked(c.tree[i], "UNAVAILABLE"))
        /\ Marked(c.tree[i], "UNAVAILABLE").status = "UNAVAILABLE"
    BY <1>1, MarkedFacts DEF TreeShape
<1>5. /\ DOMAIN tree = DOMAIN c.tree /\ tree = [i \in DOMAIN tree |-> tree[i]]
      /\ \A i \in DOMAIN c.tree :
           /\ IsMailbox(tree[i])
           /\ tree[i].status = "LOADING" => i \notin listed /\ c.tree[i].status = "LOADING"
    BY <1>1, <1>4 DEF TreeShape
<1> HIDE DEF tree
<1>6. TreeShape(tree)
    BY <1>1, <1>5 DEF TreeShape
<1>7. b = With(c, tree, c.tasks)
    <2>1. c = [tree |-> c.tree, later |-> c.later, tasks |-> c.tasks, online |-> c.online,
               toServer |-> c.toServer, toClient |-> c.toClient,
               listResponses |-> c.listResponses]
        BY ClientParts
    <2> QED
        BY <2>1 DEF With
<1> HIDE DEF b
<1>8. /\ ClientShape(b) /\ b.tree = tree /\ b.tasks = c.tasks
      /\ b.later = c.later /\ b.online = c.online /\ b.toServer = c.toServer
      /\ b.toClient = c.toClient /\ b.listResponses = c.listResponses
    BY <1>1, <1>6, <1>7, WithFacts
<1>9. /\ ClientShape(d) /\ d.tree = tree
      /\ AreThese(d.tasks, c.tasks, Others(c.tasks, tags))
      /\ d.later = c.later /\ d.online = c.online /\ d.toServer = c.toServer
      /\ d.toClient = c.toClient /\ d.listResponses = c.listResponses
    BY <1>8, WithoutTasksFacts
<1> HIDE DEF d
<1>10. Awaited(d)
    <2>1. SUFFICES ASSUME NEW i \in DOMAIN d.tree, d.tree[i].status = "LOADING"
                   PROVE  AwaitedIn(d.later, d.tasks, i)
        BY DEF Awaited
    <2>2. i \in DOMAIN c.tree /\ c.tree[i].status = "LOADING" /\ i \notin listed
        BY <1>5, <1>9, <2>1
    <2>3. AwaitedIn(c.later, c.tasks, i)
        BY <2>2 DEF Awaited
    <2>4. CASE \E k \in DOMAIN c.later : c.later[k].item = i
        BY <1>9, <2>4 DEF AwaitedIn
    <2>5. CASE \E k \in DOMAIN c.tasks : c.tasks[k].kind = "LIST" /\ c.tasks[k].item = i
        <3>1. PICK k \in DOMAIN c.tasks : c.tasks[k].kind = "LIST" /\ c.tasks[k].item = i
            BY <2>5
        <3>2. k \in Others(c.tasks, tags)
            BY <1>3, <2>2, <3>1
        <3>3. PICK l \in DOMAIN d.tasks : d.tasks[l] = c.tasks[k]
            BY <1>9, <3>2 DEF AreThese
        <3> QED
            BY <3>1, <3>3 DEF AwaitedIn
    <2> QED
        BY <2>3, <2>4, <2>5 DEF AwaitedIn
<1> QED
    BY <1>2, <1>9, <1>10

\* There is a tag left for one more task.
LEMMA FreeTagFacts ==
    ASSUME NEW c, ClientShape(c)
    PROVE  FreeTag(c) \in Nat /\ \A k \in DOMAIN c.tasks : c.tasks[k].tag # FreeTag(c)
<1> DEFINE n == Len(c.tasks)
           tag == [k \in DOMAIN c.tasks |-> c.tasks[k].tag]
           used == {tag[k] : k \in DOMAIN c.tasks}
           free == {t \in 0 .. n : \A k \in DOMAIN c.tasks : c.tasks[k].tag # t}
           all == 0 .. n
<1>1. IsSeq(c.tasks)
    BY ClientParts DEF TasksShape
<1>2. n \in Nat /\ IsFiniteSet(DOMAIN c.tasks) /\ Cardinality(DOMAIN c.tasks) = n
    BY <1>1, SeqFacts
<1>3. free = all \ used
    OBVIOUS
<1>4. free \in SUBSET Nat
    BY <1>2
<1>5. FreeTag(c) = Min(free)
    BY DEF FreeTag
<1>6. \A t \in free : t \in Nat /\ \A k \in DOMAIN c.tasks : c.tasks[k].tag # t
    BY <1>4
<1> HIDE DEF free
<1>7. IsFiniteSet(used) /\ Cardinality(used) <= n
    <2>1. DOMAIN tag = DOMAIN c.tasks /\ tag = [k \in DOMAIN c.tasks |-> tag[k]]
        OBVIOUS
    <2> HIDE DEF tag
    <2> QED
        BY <1>2, <2>1, ImageIsFinite
<1> HIDE DEF used
<1>8. IsFiniteSet(all) /\ Cardinality(all) = n + 1
    <2>1. n \in Int /\ ~(0 > n) /\ n - 0 + 1 = n + 1
        BY <1>2
    <2> HIDE DEF n
    <2>2. IsFiniteSet(all) /\ Cardinality(all) = n - 0 + 1
        BY <2>1, FS_Interval
    <2> QED
        BY <2>1, <2>2
<1> HIDE DEF all
<1>9. free # {}
    <2>1. SUFFICES ASSUME free = {} PROVE FALSE
        OBVIOUS
    <2>2. all \in SUBSET used
        BY <1>3, <2>1
    <2>3. Cardinality(all) <= Cardinality(used) /\ Cardinality(used) \in Nat
        BY <1>7, <2>2, FS_Subset, FS_CardinalityType
    <2> QED
        BY <1>2, <1>7, <1>8, <2>3
<1>10. \E t \in free : \A u \in free : t <= u
    BY <1>4, <1>9, LeastOf
<1>11. Min(free) \in free
    BY <1>10 DEF Min
<1> QED
    BY <1>5, <1>6, <1>11

\* One more task, which the server has not been told of.
LEMMA AddTaskFacts ==
    ASSUME NEW c, ClientShape(c), NEW kind \in {"LIST", "CREATE", "DELETE"}, NEW name, NEW item
    PROVE  /\ ClientShape(AddTask(c, kind, name, item))
           /\ \A k \in DOMAIN c.tasks :
                /\ k \in DOMAIN AddTask(c, kind, name, item).tasks
                /\ AddTask(c, kind, name, item).tasks[k] = c.tasks[k]
           /\ \E k \in DOMAIN AddTask(c, kind, name, item).tasks :
                /\ AddTask(c, kind, name, item).tasks[k].kind = kind
                /\ AddTask(c, kind, name, item).tasks[k].item = item
           /\ AddTask(c, kind, name, item).tree = c.tree
           /\ AddTask(c, kind, name, item).later = c.later
           /\ AddTask(c, kind, name, item).toServer = c.toServer
           /\ AddTask(c, kind, name, item).toClient = c.toClient
<1> DEFINE phase == IF c.online THEN "waiting" ELSE "offline"
           t == [tag |-> FreeTag(c), kind |-> kind, name |-> name, item |-> item, phase |-> phase]
           tasks == Append(c.tasks, t)
           d == AddTask(c, kind, name, item)
<1>1. /\ c = [tree |-> c.tree, later |-> c.later, tasks |-> c.tasks, online |-> c.online,
              toServer |-> c.toServer, toClient |-> c.toClient,
              listResponses |-> c.listResponses]
      /\ TreeShape(c.tree) /\ TasksShape(c.tasks) /\ IsSeq(c.tasks)
    BY ClientParts DEF TasksShape
<1>2. d = With(c, c.tree, tasks)
    <2>1. d = [c EXCEPT !.tasks = tasks]
        BY DEF AddTask
    <2> HIDE DEF tasks, d
    <2> QED
        BY <1>1, <2>1 DEF With
<1>3. phase \in {"waiting", "sent", "listing", "offline"}
    OBVIOUS
<1>4. FreeTag(c) \in Nat /\ \A k \in DOMAIN c.tasks : c.tasks[k].tag # FreeTag(c)
    BY FreeTagFacts
<1>5. IsTask(t) /\ t.tag = FreeTag(c) /\ t.kind = kind /\ t.item = item
    <2> HIDE DEF phase
    <2> QED
        BY <1>3, <1>4 DEF IsTask
<1> HIDE DEF t, d
<1>6. /\ IsSeq(tasks) /\ Len(c.tasks) \in Nat
      /\ DOMAIN c.tasks = 1 .. Len(c.tasks) /\ DOMAIN tasks = 1 .. Len(c.tasks) + 1
      /\ \A k \in 1 .. Len(c.tasks) : tasks[k] = c.tasks[k]
      /\ tasks[Len(c.tasks) + 1] = t
    BY <1>1, AppendFacts, SeqFacts
<1> HIDE DEF tasks
<1>7. \A k \in DOMAIN tasks : \/ k \in DOMAIN c.tasks /\ tasks[k] = c.tasks[k]
                              \/ k = Len(c.tasks) + 1 /\ tasks[k] = t
    BY <1>6
<1>8. \A k \in DOMAIN tasks : IsTask(tasks[k])
    BY <1>1, <1>5, <1>7 DEF TasksShape
<1>9. \A k, l \in DOMAIN tasks : tasks[k].tag = tasks[l].tag => k = l
    <2>1. SUFFICES ASSUME NEW k \in DOMAIN tasks, NEW l \in DOMAIN tasks,
                          tasks[k].tag = tasks[l].tag
                   PROVE  k = l
        OBVIOUS
    <2>2. CASE k \in DOMAIN c.tasks /\ l \in DOMAIN c.tasks
        BY <1>1, <1>6, <2>1, <2>2 DEF TasksShape
    <2>3. CASE k \notin DOMAIN c.tasks \/ l \notin DOMAIN c.tasks
        BY <1>4, <1>5, <1>7, <2>1, <2>3
    <2> QED
        BY <2>2, <2>3
<1>10. TasksShape(tasks)
    BY <1>6, <1>8, <1>9 DEF TasksShape
<1>11. /\ ClientShape(d) /\ d.tree = c.tree /\ d.tasks = tasks /\ d.later = c.later
       /\ d.toServer = c.toServer /\ d.toClient = c.toClient
    BY <1>1, <1>2, <1>10, WithFacts
<1>12. Len(c.tasks) + 1 \in DOMAIN tasks
    BY <1>6
<1>13. \A k \in DOMAIN c.tasks : k \in DOMAIN tasks /\ tasks[k] = c.tasks[k]
    BY <1>6
<1> QED
    BY <1>5, <1>6, <1>11, <1>12, <1>13 DEF d

-----------------------------------------------------------------------------
(* Commands and answers on their way                                        *)

\* No command with such a tag is under way.
Absent(tags, toServer, listing, toClient) ==
    /\ \A k \in DOMAIN toServer : toServer[k].tag \notin tags
    /\ \A k \in DOMAIN listing : listing[k] \notin tags
    /\ \A k \in DOMAIN toClient : Tag(toClient[k]) => toClient[k].tag \notin tags

\* The wire does not mind what becomes of tasks which it knows nothing of.
LEMMA WireOfTasks ==
    ASSUME NEW tasks, NEW toServer, NEW listing, NEW toClient,
           WireShape(tasks, toServer, listing, toClient),
           NEW new, \A g : Busy(tasks, g) => Busy(new, g)
    PROVE  WireShape(new, toServer, listing, toClient)
BY Zenon DEF WireShape

\* Nor of those which have been answered.
LEMMA WireWithout ==
    ASSUME NEW tasks, NEW toServer, NEW listing, NEW toClient,
           WireShape(tasks, toServer, listing, toClient),
           NEW tags, Absent(tags, toServer, listing, toClient),
           NEW new, AreThese(new, tasks, Others(tasks, tags))
    PROVE  WireShape(new, toServer, listing, toClient)
<1>1. ASSUME NEW g, Busy(tasks, g), g \notin tags PROVE Busy(new, g)
    <2>1. PICK k \in DOMAIN tasks : tasks[k].tag = g /\ tasks[k].phase \in {"sent", "listing"}
        BY <1>1 DEF Busy
    <2>2. k \in Others(tasks, tags)
        BY <1>1, <2>1 DEF Others
    <2>3. PICK l \in DOMAIN new : new[l] = tasks[k]
        BY <2>2 DEF AreThese
    <2> QED
        BY <2>1, <2>3 DEF Busy
<1> QED
    BY <1>1 DEF WireShape, Absent

\* A command is taken off the wire.
LEMMA WireTakeServer ==
    ASSUME NEW tasks, NEW toServer, NEW listing, NEW toClient,
           WireShape(tasks, toServer, listing, toClient), IsSeq(toServer), toServer # <<>>
    PROVE  /\ WireShape(tasks, Tail(toServer), listing, toClient)
           /\ Busy(tasks, Head(toServer).tag)
           /\ Absent({Head(toServer).tag}, Tail(toServer), listing, toClient)
<1>1. /\ Head(toServer) = toServer[1] /\ 1 \in DOMAIN toServer
      /\ \A k \in DOMAIN Tail(toServer) : /\ k + 1 \in DOMAIN toServer /\ k + 1 # 1
                                          /\ Tail(toServer)[k] = toServer[k + 1]
      /\ \A k, l \in DOMAIN Tail(toServer) : k + 1 = l + 1 => k = l
    BY TailFacts, SeqFacts
<1>2. Busy(tasks, Head(toServer).tag)
    BY <1>1 DEF WireShape
<1>3. Absent({Head(toServer).tag}, Tail(toServer), listing, toClient)
    BY <1>1 DEF WireShape, Absent
<1>4. WireShape(tasks, Tail(toServer), listing, toClient)
    BY <1>1 DEF WireShape
<1> QED
    BY <1>2, <1>3, <1>4

\* The server completes the first LIST that it has begun.
LEMMA WireTakeListing ==
    ASSUME NEW tasks, NEW toServer, NEW listing, NEW toClient,
           WireShape(tasks, toServer, listing, toClient), IsSeq(listing), listing # <<>>
    PROVE  /\ WireShape(tasks, toServer, Tail(listing), toClient)
           /\ Busy(tasks, Head(listing))
           /\ Absent({Head(listing)}, toServer, Tail(listing), toClient)
<1>1. /\ Head(listing) = listing[1] /\ 1 \in DOMAIN listing
      /\ \A k \in DOMAIN Tail(listing) : /\ k + 1 \in DOMAIN listing /\ k + 1 # 1
                                         /\ Tail(listing)[k] = listing[k + 1]
      /\ \A k, l \in DOMAIN Tail(listing) : k + 1 = l + 1 => k = l
    BY TailFacts, SeqFacts
<1>2. Busy(tasks, Head(listing))
    BY <1>1 DEF WireShape
<1>3. Absent({Head(listing)}, toServer, Tail(listing), toClient)
    BY <1>1 DEF WireShape, Absent
<1>4. WireShape(tasks, toServer, Tail(listing), toClient)
    BY <1>1 DEF WireShape
<1> QED
    BY <1>2, <1>3, <1>4

\* The client takes an answer.
LEMMA WireTakeClient ==
    ASSUME NEW tasks, NEW toServer, NEW listing, NEW toClient,
           WireShape(tasks, toServer, listing, toClient), IsSeq(toClient), toClient # <<>>
    PROVE  /\ WireShape(tasks, toServer, listing, Tail(toClient))
           /\ Tag(Head(toClient)) =>
                /\ Busy(tasks, Head(toClient).tag)
                /\ Absent({Head(toClient).tag}, toServer, listing, Tail(toClient))
<1>1. /\ Head(toClient) = toClient[1] /\ 1 \in DOMAIN toClient
      /\ \A k \in DOMAIN Tail(toClient) : /\ k + 1 \in DOMAIN toClient /\ k + 1 # 1
                                          /\ Tail(toClient)[k] = toClient[k + 1]
      /\ \A k, l \in DOMAIN Tail(toClient) : k + 1 = l + 1 => k = l
    BY TailFacts, SeqFacts
<1>2. Tag(Head(toClient)) => Busy(tasks, Head(toClient).tag)
    BY <1>1 DEF WireShape
<1>3. Tag(Head(toClient)) => Absent({Head(toClient).tag}, toServer, listing, Tail(toClient))
    BY <1>1 DEF WireShape, Absent
<1>4. WireShape(tasks, toServer, listing, Tail(toClient))
    BY <1>1 DEF WireShape
<1> QED
    BY <1>2, <1>3, <1>4

\* Commands are put on the wire.
LEMMA WirePutServer ==
    ASSUME NEW tasks, NEW toServer, NEW listing, NEW toClient,
           WireShape(tasks, toServer, listing, toClient), IsSeq(toServer),
           NEW sent, IsSeq(sent),
           \A k \in DOMAIN sent : Busy(tasks, sent[k].tag),
           \A k, l \in DOMAIN sent : sent[k].tag = sent[l].tag => k = l,
           Absent({sent[k].tag : k \in DOMAIN sent}, toServer, listing, toClient)
    PROVE  WireShape(tasks, toServer \o sent, listing, toClient)
<1> DEFINE all == toServer \o sent
           n == Len(toServer)
<1>1. /\ n \in Nat /\ Len(sent) \in Nat /\ DOMAIN all = 1 .. n + Len(sent)
      /\ DOMAIN toServer = 1 .. n /\ DOMAIN sent = 1 .. Len(sent)
      /\ \A k \in 1 .. n : all[k] = toServer[k]
      /\ \A k \in 1 .. Len(sent) : all[n + k] = sent[k]
    <2>1. /\ DOMAIN (toServer \o sent) = 1 .. Len(toServer) + Len(sent)
          /\ \A k \in 1 .. Len(toServer) : (toServer \o sent)[k] = toServer[k]
          /\ \A k \in 1 .. Len(sent) : (toServer \o sent)[Len(toServer) + k] = sent[k]
        BY CatFacts
    <2>2. /\ Len(toServer) \in Nat /\ DOMAIN toServer = 1 .. Len(toServer)
          /\ Len(sent) \in Nat /\ DOMAIN sent = 1 .. Len(sent)
        BY SeqFacts
    <2> QED
        BY <2>1, <2>2
<1> HIDE DEF all, n
<1>2. \A k \in DOMAIN all :
        \/ k \in DOMAIN toServer /\ all[k] = toServer[k]
        \/ \E l \in DOMAIN sent : k = n + l /\ all[k] = sent[l]
    <2>1. SUFFICES ASSUME NEW k \in DOMAIN all, k \notin DOMAIN toServer
                   PROVE  \E l \in DOMAIN sent : k = n + l /\ all[k] = sent[l]
        BY <1>1
    <2>2. k - n \in DOMAIN sent /\ k = n + (k - n)
        BY <1>1, <2>1
    <2>3. all[n + (k - n)] = sent[k - n]
        BY <1>1, <2>2
    <2> QED
        BY <2>2, <2>3
<1>3. /\ \A k \in DOMAIN sent, l \in DOMAIN toServer : toServer[l].tag # sent[k].tag
      /\ \A k \in DOMAIN sent, l \in DOMAIN listing : sent[k].tag # listing[l]
      /\ \A k \in DOMAIN sent, l \in DOMAIN toClient :
           Tag(toClient[l]) => sent[k].tag # toClient[l].tag
    BY DEF Absent
<1>4. \A k, l \in DOMAIN all : all[k].tag = all[l].tag => k = l
    <2>1. SUFFICES ASSUME NEW k \in DOMAIN all, NEW l \in DOMAIN all, all[k].tag = all[l].tag
                   PROVE  k = l
        OBVIOUS
    <2>2. CASE k \in DOMAIN toServer /\ all[k] = toServer[k]
        <3>1. l \in DOMAIN toServer /\ all[l] = toServer[l]
            BY <1>2, <1>3, <2>1, <2>2
        <3> QED
            BY <2>1, <2>2, <3>1 DEF WireShape
    <2>3. CASE \E i \in DOMAIN sent : k = n + i /\ all[k] = sent[i]
        <3>1. PICK i \in DOMAIN sent : k = n + i /\ all[k] = sent[i]
            BY <2>3
        <3>2. PICK j \in DOMAIN sent : l = n + j /\ all[l] = sent[j]
            BY <1>2, <1>3, <2>1, <3>1
        <3>3. i = j
            BY <2>1, <3>1, <3>2
        <3> QED
            BY <3>1, <3>2, <3>3
    <2> QED
        BY <1>2, <2>2, <2>3
<1>5. \A k \in DOMAIN all :
        /\ Busy(tasks, all[k].tag)
        /\ \A l \in DOMAIN listing : all[k].tag # listing[l]
        /\ \A l \in DOMAIN toClient : Tag(toClient[l]) => all[k].tag # toClient[l].tag
    BY <1>2, <1>3 DEF WireShape
<1>6. WireShape(tasks, all, listing, toClient)
    BY <1>4, <1>5 DEF WireShape
<1> QED
    BY <1>6 DEF all

\* One more LIST is begun.
LEMMA WirePutListing ==
    ASSUME NEW tasks, NEW toServer, NEW listing, NEW toClient,
           WireShape(tasks, toServer, listing, toClient), IsSeq(listing),
           NEW g, Busy(tasks, g), Absent({g}, toServer, listing, toClient)
    PROVE  WireShape(tasks, toServer, Append(listing, g), toClient)
<1> DEFINE all == Append(listing, g)
           n == Len(listing)
<1>1. /\ n \in Nat /\ DOMAIN all = 1 .. n + 1 /\ DOMAIN listing = 1 .. n
      /\ \A k \in 1 .. n : all[k] = listing[k]
      /\ all[n + 1] = g
    BY AppendFacts, SeqFacts
<1> HIDE DEF all, n
<1>2. \A k \in DOMAIN all :
        \/ k \in DOMAIN listing /\ all[k] = listing[k]
        \/ k = n + 1 /\ all[k] = g
    BY <1>1
<1>3. /\ \A l \in DOMAIN toServer : toServer[l].tag # g
      /\ \A l \in DOMAIN listing : listing[l] # g
      /\ \A l \in DOMAIN toClient : Tag(toClient[l]) => toClient[l].tag # g
    BY DEF Absent
<1>4. \A k, l \in DOMAIN all : all[k] = all[l] => k = l
    BY <1>2, <1>3 DEF WireShape
<1>5. \A k \in DOMAIN all :
        /\ Busy(tasks, all[k])
        /\ \A l \in DOMAIN toServer : toServer[l].tag # all[k]
        /\ \A l \in DOMAIN toClient : Tag(toClient[l]) => all[k] # toClient[l].tag
    BY <1>2, <1>3 DEF WireShape
<1>6. WireShape(tasks, toServer, all, toClient)
    BY <1>4, <1>5 DEF WireShape
<1> QED
    BY <1>6 DEF all

\* The server says one thing more.
LEMMA WirePutClient ==
    ASSUME NEW tasks, NEW toServer, NEW listing, NEW toClient,
           WireShape(tasks, toServer, listing, toClient), IsSeq(toClient),
           NEW r, Tag(r) => /\ Busy(tasks, r.tag)
                            /\ Absent({r.tag}, toServer, listing, toClient)
    PROVE  WireShape(tasks, toServer, listing, Append(toClient, r))
<1> DEFINE all == Append(toClient, r)
           n == Len(toClient)
<1>1. /\ n \in Nat /\ DOMAIN all = 1 .. n + 1 /\ DOMAIN toClient = 1 .. n
      /\ \A k \in 1 .. n : all[k] = toClient[k]
      /\ all[n + 1] = r
    BY AppendFacts, SeqFacts
<1> HIDE DEF all, n
<1>2. \A k \in DOMAIN all :
        \/ k \in DOMAIN toClient /\ all[k] = toClient[k]
        \/ k = n + 1 /\ all[k] = r
    BY <1>1
<1>3. Tag(r) =>
        /\ \A l \in DOMAIN toServer : toServer[l].tag # r.tag
        /\ \A l \in DOMAIN listing : listing[l] # r.tag
        /\ \A l \in DOMAIN toClient : Tag(toClient[l]) => toClient[l].tag # r.tag
    BY DEF Absent
<1>4. \A k, l \in DOMAIN all : Tag(all[k]) /\ Tag(all[l]) /\ all[k].tag = all[l].tag => k = l
    BY <1>2, <1>3 DEF WireShape
<1>5. \A k \in DOMAIN all : Tag(all[k]) =>
        /\ Busy(tasks, all[k].tag)
        /\ \A l \in DOMAIN toServer : toServer[l].tag # all[k].tag
        /\ \A l \in DOMAIN listing : listing[l] # all[k].tag
    BY <1>2, <1>3 DEF WireShape
<1>6. WireShape(tasks, toServer, listing, all)
    BY <1>4, <1>5 DEF WireShape
<1> QED
    BY <1>6 DEF all

-----------------------------------------------------------------------------
(* What the event loop does with tasks                                      *)

\* runReadyTasks(): what is sent had not been, and no LIST fails whose mailbox is there.
LEMMA RunReadyTasksSound ==
    ASSUME NEW c, NEW listing, Sound(c, listing)
    PROVE  Sound(runReadyTasks(c), listing)
<1> DEFINE ready == {k \in DOMAIN c.tasks : c.tasks[k].phase = "waiting"}
           failed == {k \in ready : c.tasks[k].item = Gone}
           performed == Kept(c.tasks, ready \ failed)
           sent == [k \in DOMAIN performed |->
                      Command(performed[k].kind, performed[k].name, performed[k].tag)]
           told == [k \in DOMAIN c.tasks |->
                      IF k \in ready THEN InPhase(c.tasks[k], "sent") ELSE c.tasks[k]]
           tasks == Kept(told, DOMAIN c.tasks \ failed)
           d == runReadyTasks(c)
<1>1. /\ ClientShape(c) /\ Awaited(c)
      /\ WireShape(c.tasks, c.toServer, listing, c.toClient)
    BY DEF Sound
<1>2. /\ c = [tree |-> c.tree, later |-> c.later, tasks |-> c.tasks, online |-> c.online,
              toServer |-> c.toServer, toClient |-> c.toClient,
              listResponses |-> c.listResponses]
      /\ TreeShape(c.tree) /\ IsSeq(c.later) /\ TasksShape(c.tasks)
      /\ IsSeq(c.toServer) /\ IsSeq(c.listResponses)
      /\ IsSeq(c.toClient) /\ \A k \in DOMAIN c.toClient : IsAnswer(c.toClient[k])
    BY <1>1, ClientParts
<1>3. d = ClientOf(c.tree, c.later, tasks, c.online, c.toServer \o sent, c.toClient,
                   c.listResponses)
    <2>1. d = [c EXCEPT !.toServer = c.toServer \o sent, !.tasks = tasks]
        BY <1>2 DEF runReadyTasks, InPhase
    <2> HIDE DEF tasks, sent, d
    <2> QED
        BY <1>2, <2>1 DEF ClientOf
<1>4. /\ ready \ failed \in SUBSET DOMAIN c.tasks
      /\ DOMAIN c.tasks \ failed \in SUBSET DOMAIN c.tasks
      /\ \A k \in ready \ failed : k \in ready /\ k \in DOMAIN c.tasks \ failed
      /\ \A k \in ready : k \in DOMAIN c.tasks /\ c.tasks[k].phase = "waiting"
      /\ \A k \in DOMAIN c.tasks : k \in failed => c.tasks[k].item = Gone /\ k \in ready
      /\ \A k \in DOMAIN c.tasks : c.tasks[k].phase # "waiting" => k \notin ready
    OBVIOUS
<1> HIDE DEF ready, failed, d
<1>5. /\ DOMAIN told = DOMAIN c.tasks /\ told = [k \in DOMAIN c.tasks |-> told[k]]
      /\ \A k \in DOMAIN c.tasks :
           /\ IsTask(told[k]) /\ told[k].tag = c.tasks[k].tag
           /\ told[k].kind = c.tasks[k].kind /\ told[k].item = c.tasks[k].item
           /\ told[k].phase = IF k \in ready THEN "sent" ELSE c.tasks[k].phase
    <2>1. \A k \in DOMAIN c.tasks : IsTask(c.tasks[k])
        BY <1>2 DEF TasksShape
    <2>2. \A k \in DOMAIN c.tasks :
            /\ IsTask(InPhase(c.tasks[k], "sent"))
            /\ InPhase(c.tasks[k], "sent").tag = c.tasks[k].tag
            /\ InPhase(c.tasks[k], "sent").kind = c.tasks[k].kind
            /\ InPhase(c.tasks[k], "sent").item = c.tasks[k].item
            /\ InPhase(c.tasks[k], "sent").phase = "sent"
        BY <2>1, InPhaseFacts
    <2> QED
        BY <2>1, <2>2
<1> HIDE DEF told
<1>6. TasksShape(told)
    <2>1. Len(c.tasks) \in Nat /\ DOMAIN c.tasks = 1 .. Len(c.tasks)
        BY <1>2, SeqFacts DEF TasksShape
    <2>2. IsSeq(told)
        BY <1>5, <2>1, MadeSeq
    <2> QED
        BY <1>2, <1>5, <2>2 DEF TasksShape
<1>7. TasksShape(tasks) /\ AreThese(tasks, told, DOMAIN c.tasks \ failed)
    BY <1>4, <1>5, <1>6, KeptTasks
<1>8. TasksShape(performed) /\ AreThese(performed, c.tasks, ready \ failed)
    BY <1>2, <1>4, KeptTasks
<1> HIDE DEF tasks, performed
<1>9. /\ IsSeq(sent) /\ DOMAIN sent = DOMAIN performed
      /\ \A k \in DOMAIN sent : sent[k].tag = performed[k].tag
    <2>1. Len(performed) \in Nat /\ DOMAIN performed = 1 .. Len(performed)
        BY <1>8, SeqFacts DEF TasksShape
    <2>2. sent = [k \in 1 .. Len(performed) |-> sent[k]]
        BY <2>1
    <2>3. DOMAIN sent = DOMAIN performed /\ \A k \in DOMAIN sent : sent[k].tag = performed[k].tag
        BY DEF Command
    <2> HIDE DEF sent
    <2>4. IsSeq(sent)
        BY <2>1, <2>2, MadeSeq
    <2> QED
        BY <2>3, <2>4
<1> HIDE DEF sent
<1>10. ASSUME NEW k \in DOMAIN sent
       PROVE  Busy(tasks, sent[k].tag) /\ ~Busy(c.tasks, sent[k].tag)
    <2>1. PICK l \in ready \ failed : performed[k] = c.tasks[l]
        BY <1>8, <1>9 DEF AreThese
    <2>2. l \in DOMAIN c.tasks \ failed /\ l \in ready /\ sent[k].tag = c.tasks[l].tag
        BY <1>4, <1>9, <2>1
    <2>3. PICK m \in DOMAIN tasks : tasks[m] = told[l]
        BY <1>7, <2>2 DEF AreThese
    <2>4. Busy(tasks, sent[k].tag)
        BY <1>5, <2>2, <2>3 DEF Busy
    <2>5. ~Busy(c.tasks, sent[k].tag)
        <3>1. SUFFICES ASSUME NEW j \in DOMAIN c.tasks, c.tasks[j].tag = sent[k].tag,
                              c.tasks[j].phase \in {"sent", "listing"}
                       PROVE  FALSE
            BY DEF Busy
        <3>2. j = l
            BY <1>2, <2>2, <3>1 DEF TasksShape
        <3> QED
            BY <1>4, <2>2, <3>1, <3>2
    <2> QED
        BY <2>4, <2>5
<1>11. \A g : Busy(c.tasks, g) => Busy(tasks, g)
    <2>1. SUFFICES ASSUME NEW g, NEW k \in DOMAIN c.tasks, c.tasks[k].tag = g,
                          c.tasks[k].phase \in {"sent", "listing"}
                   PROVE  Busy(tasks, g)
        BY DEF Busy
    <2>2. k \notin ready /\ k \in DOMAIN c.tasks \ failed
        BY <1>4, <2>1
    <2>3. PICK m \in DOMAIN tasks : tasks[m] = told[k]
        BY <1>7, <2>2 DEF AreThese
    <2> QED
        BY <1>5, <2>1, <2>2, <2>3 DEF Busy
<1>12. WireShape(tasks, c.toServer \o sent, listing, c.toClient)
    <2>1. Absent({sent[k].tag : k \in DOMAIN sent}, c.toServer, listing, c.toClient)
        BY <1>1, <1>10 DEF Absent, WireShape
    <2>2. \A k, l \in DOMAIN sent : sent[k].tag = sent[l].tag => k = l
        BY <1>8, <1>9 DEF TasksShape
    <2>3. WireShape(tasks, c.toServer, listing, c.toClient)
        BY <1>1, <1>11, WireOfTasks
    <2> QED
        BY <1>2, <1>9, <1>10, <2>1, <2>2, <2>3, WirePutServer
<1>13. IsSeq(c.toServer \o sent)
    BY <1>2, <1>9, CatFacts
<1>14. /\ ClientShape(d) /\ d.tree = c.tree /\ d.later = c.later /\ d.tasks = tasks
       /\ d.toServer = c.toServer \o sent /\ d.toClient = c.toClient
    <2> DEFINE all == c.toServer \o sent
    <2>1. IsSeq(all) /\ d = ClientOf(c.tree, c.later, tasks, c.online, all, c.toClient,
                                     c.listResponses)
        BY <1>3, <1>13
    <2> HIDE DEF all
    <2>2. /\ ClientShape(d) /\ d.tree = c.tree /\ d.later = c.later /\ d.tasks = tasks
          /\ d.toServer = all /\ d.toClient = c.toClient
        BY <1>2, <1>7, <2>1, ClientOfFacts
    <2> QED
        BY <2>2 DEF all
<1>15. Awaited(d)
    <2>1. SUFFICES ASSUME NEW i \in DOMAIN c.tree, c.tree[i].status = "LOADING"
                   PROVE  AwaitedIn(c.later, tasks, i)
        BY <1>14 DEF Awaited
    <2>2. AwaitedIn(c.later, c.tasks, i)
        BY <1>1, <2>1 DEF Awaited
    <2>3. CASE \E k \in DOMAIN c.later : c.later[k].item = i
        BY <2>3 DEF AwaitedIn
    <2>4. CASE \E k \in DOMAIN c.tasks : c.tasks[k].kind = "LIST" /\ c.tasks[k].item = i
        <3>1. PICK k \in DOMAIN c.tasks : c.tasks[k].kind = "LIST" /\ c.tasks[k].item = i
            BY <2>4
        <3>2. i # Gone
            BY <1>1, ButGone
        <3>3. k \in DOMAIN c.tasks \ failed
            BY <1>4, <3>1, <3>2
        <3>4. PICK m \in DOMAIN tasks : tasks[m] = told[k]
            BY <1>7, <3>3 DEF AreThese
        <3> QED
            BY <1>5, <3>1, <3>4 DEF AwaitedIn
    <2> QED
        BY <2>2, <2>3, <2>4 DEF AwaitedIn
<1>16. Sound(d, listing)
    BY <1>12, <1>14, <1>15 DEF Sound
<1> QED
    BY <1>16 DEF d

\* Tasks whose mailboxes have been deleted are as busy as before.
LEMMA AroundSound ==
    ASSUME NEW c, NEW listing, Sound(c, listing), NEW b, ClientShape(b), Awaited(b),
           SameAround(c, b)
    PROVE  Sound(b, listing)
<1>1. \A g : Busy(c.tasks, g) => Busy(b.tasks, g)
    BY DEF Busy, SameAround, SameTasks
<1>2. WireShape(c.tasks, c.toServer, listing, c.toClient)
    BY DEF Sound
<1>3. WireShape(b.tasks, c.toServer, listing, c.toClient)
    BY <1>1, <1>2, WireOfTasks
<1> QED
    BY <1>3 DEF Sound, SameAround

\* A task is done which nobody's loading is awaiting.
LEMMA WithoutOneSound ==
    ASSUME NEW b, NEW listing, Sound(b, listing), NEW g,
           Absent({g}, b.toServer, listing, b.toClient),
           \A k \in DOMAIN b.tasks : b.tasks[k].tag = g /\ b.tasks[k].kind = "LIST" =>
             \A i \in DOMAIN b.tree : b.tree[i].status = "LOADING" => b.tasks[k].item # i
    PROVE  Sound(WithoutTasks(b, {g}), listing)
<1> DEFINE d == WithoutTasks(b, {g})
<1>1. /\ ClientShape(b) /\ Awaited(b)
      /\ WireShape(b.tasks, b.toServer, listing, b.toClient)
    BY DEF Sound
<1>2. /\ ClientShape(d) /\ AreThese(d.tasks, b.tasks, Others(b.tasks, {g}))
      /\ d.tree = b.tree /\ d.later = b.later
      /\ d.toServer = b.toServer /\ d.toClient = b.toClient
    BY <1>1, WithoutTasksFacts
<1> HIDE DEF d
<1>3. Awaited(d)
    <2>1. SUFFICES ASSUME NEW i \in DOMAIN b.tree, b.tree[i].status = "LOADING"
                   PROVE  AwaitedIn(b.later, d.tasks, i)
        BY <1>2 DEF Awaited
    <2>2. AwaitedIn(b.later, b.tasks, i)
        BY <1>1, <2>1 DEF Awaited
    <2>3. CASE \E k \in DOMAIN b.later : b.later[k].item = i
        BY <2>3 DEF AwaitedIn
    <2>4. CASE \E k \in DOMAIN b.tasks : b.tasks[k].kind = "LIST" /\ b.tasks[k].item = i
        <3>1. PICK k \in DOMAIN b.tasks : b.tasks[k].kind = "LIST" /\ b.tasks[k].item = i
            BY <2>4
        <3>2. k \in Others(b.tasks, {g})
            BY <2>1, <3>1 DEF Others
        <3>3. PICK m \in DOMAIN d.tasks : d.tasks[m] = b.tasks[k]
            BY <1>2, <3>2 DEF AreThese
        <3> QED
            BY <3>1, <3>3 DEF AwaitedIn
    <2> QED
        BY <2>2, <2>3, <2>4 DEF AwaitedIn
<1>4. WireShape(d.tasks, b.toServer, listing, b.toClient)
    BY <1>1, <1>2, WireWithout
<1>5. Sound(d, listing)
    BY <1>2, <1>3, <1>4 DEF Sound
<1> QED
    BY <1>5 DEF d

\* The task whose tag is completed, in the client that is left by what it does to the tree.
LEMMA DoneSound ==
    ASSUME NEW c, NEW listing, Sound(c, listing), NEW n \in DOMAIN c.tasks,
           Absent({c.tasks[n].tag}, c.toServer, listing, c.toClient),
           NEW b, ClientShape(b), Awaited(b), SameAround(c, b),
           \/ c.tasks[n].kind # "LIST"
           \/ c.tasks[n].item \in DOMAIN b.tree => b.tree[c.tasks[n].item].status # "LOADING"
    PROVE  Sound(WithoutTasks(b, {c.tasks[n].tag}), listing)
<1> DEFINE g == c.tasks[n].tag
<1>1. Sound(b, listing)
    BY AroundSound
<1>2. Absent({g}, b.toServer, listing, b.toClient)
    BY DEF SameAround
<1>3. TasksShape(c.tasks) /\ Gone \notin DOMAIN b.tree
    BY ClientParts, ButGone DEF Sound
<1>4. ASSUME NEW k \in DOMAIN b.tasks, b.tasks[k].tag = g, b.tasks[k].kind = "LIST",
             NEW i \in DOMAIN b.tree, b.tree[i].status = "LOADING"
      PROVE  b.tasks[k].item # i
    <2>1. k \in DOMAIN c.tasks /\ c.tasks[k].tag = c.tasks[n].tag
        BY <1>4 DEF SameAround, SameTasks
    <2>2. k = n
        BY <1>3, <2>1 DEF TasksShape
    <2>3. b.tasks[k].item \in {c.tasks[n].item, Gone} /\ c.tasks[n].kind = "LIST"
        BY <1>4, <2>1, <2>2 DEF SameAround, SameTasks
    <2> QED
        BY <1>3, <1>4, <2>3
<1> HIDE DEF g
<1>5. Sound(WithoutTasks(b, {g}), listing)
    BY <1>1, <1>2, <1>4, WithoutOneSound
<1> QED
    BY <1>5 DEF g

ListCreated(c, t) ==
    [c EXCEPT !.tasks = [k \in DOMAIN @ |-> IF @[k] = t THEN [t EXCEPT !.phase = "listing"]
                                            ELSE @[k]],
              !.toServer = Append(@, Command("LIST it", t.name, t.tag))]

\* CREATE is done: what it has created is asked for, under the same tag.
LEMMA ListCreatedSound ==
    ASSUME NEW c, NEW listing, Sound(c, listing), NEW n \in DOMAIN c.tasks,
           NEW t, t = c.tasks[n], t.phase = "sent",
           Absent({t.tag}, c.toServer, listing, c.toClient)
    PROVE  Sound(ListCreated(c, t), listing)
<1> DEFINE tasks == [k \in DOMAIN c.tasks |-> IF c.tasks[k] = t THEN InPhase(t, "listing")
                                              ELSE c.tasks[k]]
           command == Command("LIST it", t.name, t.tag)
           sent == <<command>>
           all == c.toServer \o sent
           d == ListCreated(c, t)
<1>1. /\ ClientShape(c) /\ Awaited(c)
      /\ WireShape(c.tasks, c.toServer, listing, c.toClient)
    BY DEF Sound
<1>2. /\ c = [tree |-> c.tree, later |-> c.later, tasks |-> c.tasks, online |-> c.online,
              toServer |-> c.toServer, toClient |-> c.toClient,
              listResponses |-> c.listResponses]
      /\ TreeShape(c.tree) /\ IsSeq(c.later) /\ TasksShape(c.tasks)
      /\ IsSeq(c.toServer) /\ IsSeq(c.listResponses)
      /\ IsSeq(c.toClient) /\ \A k \in DOMAIN c.toClient : IsAnswer(c.toClient[k])
    BY <1>1, ClientParts
<1>3. Append(c.toServer, command) = all
    <2> DEFINE S == {c.toServer[k] : k \in 1 .. Len(c.toServer)} \cup {command}
    <2>1. c.toServer \in Seq(S) /\ command \in S
        <3>1. c.toServer \in Seq({c.toServer[k] : k \in 1 .. Len(c.toServer)})
            BY <1>2 DEF IsSeq
        <3> DEFINE T == {c.toServer[k] : k \in 1 .. Len(c.toServer)}
        <3> HIDE DEF T, command
        <3> QED
            BY <3>1
    <2> HIDE DEF S, command
    <2> QED
        BY <2>1
<1>4. d = ClientOf(c.tree, c.later, tasks, c.online, all, c.toClient, c.listResponses)
    <2>1. d = [c EXCEPT !.tasks = tasks, !.toServer = Append(c.toServer, command)]
        BY <1>2 DEF ListCreated, InPhase
    <2> HIDE DEF tasks, all, command, d
    <2> QED
        BY <1>2, <1>3, <2>1 DEF ClientOf
<1>5. IsSeq(sent) /\ DOMAIN sent = {1} /\ sent[1] = command /\ command.tag = t.tag
    <2>1. command.tag = t.tag
        BY DEF Command
    <2> HIDE DEF command
    <2>2. sent \in Seq({command}) /\ DOMAIN sent = {1} /\ sent[1] = command
        OBVIOUS
    <2> QED
        BY <2>1, <2>2, SeqIsSeq
<1> HIDE DEF sent, command, d
<1>6. IsTask(t)
    BY <1>2 DEF TasksShape
<1>7. /\ DOMAIN tasks = DOMAIN c.tasks /\ tasks = [k \in DOMAIN tasks |-> tasks[k]]
      /\ \A k \in DOMAIN c.tasks :
           /\ IsTask(tasks[k]) /\ tasks[k].tag = c.tasks[k].tag
           /\ tasks[k].kind = c.tasks[k].kind /\ tasks[k].item = c.tasks[k].item
           /\ c.tasks[k].phase \in {"sent", "listing"} => tasks[k].phase \in {"sent", "listing"}
    <2>1. /\ IsTask(InPhase(t, "listing")) /\ InPhase(t, "listing").tag = t.tag
          /\ InPhase(t, "listing").kind = t.kind /\ InPhase(t, "listing").item = t.item
          /\ InPhase(t, "listing").phase = "listing"
        BY <1>6, InPhaseFacts
    <2> QED
        BY <1>2, <2>1 DEF TasksShape
<1> HIDE DEF tasks
<1>8. TasksShape(tasks)
    <2>1. Len(c.tasks) \in Nat /\ DOMAIN c.tasks = 1 .. Len(c.tasks)
        BY <1>2, SeqFacts DEF TasksShape
    <2>2. IsSeq(tasks)
        BY <1>7, <2>1, MadeSeq
    <2> QED
        BY <1>2, <1>7, <2>2 DEF TasksShape
<1>9. \A g : Busy(c.tasks, g) => Busy(tasks, g)
    BY <1>7 DEF Busy
<1>10. Busy(tasks, t.tag)
    BY <1>9 DEF Busy
<1>11. WireShape(tasks, all, listing, c.toClient)
    <2>1. WireShape(tasks, c.toServer, listing, c.toClient)
        BY <1>1, <1>9, WireOfTasks
    <2>2. /\ \A k \in DOMAIN sent : Busy(tasks, sent[k].tag)
          /\ \A k, l \in DOMAIN sent : sent[k].tag = sent[l].tag => k = l
          /\ {sent[k].tag : k \in DOMAIN sent} = {t.tag}
        BY <1>5, <1>10
    <2> QED
        BY <1>2, <1>5, <2>1, <2>2, WirePutServer
<1>12. IsSeq(all)
    BY <1>2, <1>5, CatFacts
<1> HIDE DEF all
<1>13. /\ ClientShape(d) /\ d.tree = c.tree /\ d.later = c.later /\ d.tasks = tasks
       /\ d.toServer = all /\ d.toClient = c.toClient
    BY <1>2, <1>4, <1>8, <1>12, ClientOfFacts
<1>14. Awaited(d)
    BY <1>1, <1>7, <1>13 DEF Awaited, AwaitedIn
<1>15. Sound(d, listing)
    BY <1>11, <1>13, <1>14 DEF Sound
<1> QED
    BY <1>15 DEF d

\* OK, whatever it is about.
LEMMA CompletedSound ==
    ASSUME NEW c, NEW listing, Sound(c, listing), NEW n \in DOMAIN c.tasks,
           NEW t, t = c.tasks[n], t.phase \in {"sent", "listing"},
           Absent({t.tag}, c.toServer, listing, c.toClient)
    PROVE  Sound(Completed(c, t), listing)
<1>1. ClientShape(c) /\ Awaited(c) /\ TasksShape(c.tasks) /\ Gone \notin DOMAIN c.tree
    BY ClientParts, ButGone DEF Sound
<1>2. t.kind \in {"LIST", "CREATE", "DELETE"}
    BY <1>1 DEF TasksShape, IsTask
<1>3. CASE t.kind = "LIST" /\ t.item = Gone
    <2>1. Completed(c, t) = WithoutTasks(c, {t.tag})
        BY <1>3 DEF Completed
    <2>2. SameAround(c, c)
        BY <1>1, TreeAlone
    <2> QED
        BY <1>1, <1>3, <2>1, <2>2, DoneSound
<1>4. CASE t.kind = "LIST" /\ t.item # Gone
    <2>1. Completed(c, t) = WithoutTasks(finalizeList(c, t), {t.tag})
        BY <1>4 DEF Completed
    <2> DEFINE b == finalizeList(c, t)
    <2>2. /\ ClientShape(b) /\ Awaited(b) /\ SameAround(c, b)
          /\ t.item \in DOMAIN b.tree => b.tree[t.item].status = "DONE"
        BY <1>1, FinalizeListFacts
    <2> HIDE DEF b
    <2>3. Sound(WithoutTasks(b, {t.tag}), listing)
        BY <2>2, DoneSound
    <2> QED
        BY <2>1, <2>3 DEF b
<1>5. CASE t.kind = "CREATE" /\ t.phase = "sent"
    <2>1. Completed(c, t) = ListCreated(c, t)
        BY <1>5 DEF Completed, ListCreated
    <2> QED
        BY <1>5, <2>1, ListCreatedSound
<1>6. CASE t.kind = "CREATE" /\ t.phase = "listing"
    <2>1. Completed(c, t) = WithoutTasks(finalizeIncrementalList(c, t.name), {t.tag})
        BY <1>6 DEF Completed
    <2> DEFINE b == finalizeIncrementalList(c, t.name)
    <2>2. ClientShape(b) /\ Awaited(b) /\ SameAround(c, b)
        BY <1>1, FinalizeIncrementalListFacts
    <2> HIDE DEF b
    <2>3. Sound(WithoutTasks(b, {t.tag}), listing)
        BY <1>6, <2>2, DoneSound
    <2> QED
        BY <2>1, <2>3 DEF b
<1>7. CASE t.kind = "DELETE"
    <2>1. Completed(c, t) = WithoutTasks(RemoveMailbox(c, t.name), {t.tag})
        BY <1>7 DEF Completed
    <2> DEFINE b == RemoveMailbox(c, t.name)
    <2>2. ClientShape(b) /\ Awaited(b) /\ SameAround(c, b)
        BY <1>1, RemoveMailboxFacts
    <2> HIDE DEF b
    <2>3. Sound(WithoutTasks(b, {t.tag}), listing)
        BY <1>7, <2>2, DoneSound
    <2> QED
        BY <2>1, <2>3 DEF b
<1> QED
    BY <1>2, <1>3, <1>4, <1>5, <1>6, <1>7

\* NO, or the end of the connection.
LEMMA FailedSound ==
    ASSUME NEW c, NEW listing, Sound(c, listing), NEW tags,
           Absent(tags, c.toServer, listing, c.toClient)
    PROVE  Sound(Failed(c, tags), listing)
<1> DEFINE d == Failed(c, tags)
<1>1. /\ ClientShape(c) /\ Awaited(c)
      /\ WireShape(c.tasks, c.toServer, listing, c.toClient)
    BY DEF Sound
<1>2. /\ ClientShape(d) /\ Awaited(d)
      /\ AreThese(d.tasks, c.tasks, Others(c.tasks, tags))
      /\ d.toServer = c.toServer /\ d.toClient = c.toClient
    BY <1>1, FailedFacts
<1> HIDE DEF d
<1>3. WireShape(d.tasks, c.toServer, listing, c.toClient)
    BY <1>1, <1>2, WireWithout
<1>4. Sound(d, listing)
    BY <1>2, <1>3 DEF Sound
<1> QED
    BY <1>4 DEF d

-----------------------------------------------------------------------------
(* What is said of finitely many mailboxes                                  *)

\* LIST says something finite.
LEMMA ListingIsFinite ==
    ASSUME NEW names, IsFiniteSet(names), NEW n
    PROVE  IsFiniteSet(Listing(names, n))
<1> DEFINE below == {k \in names : Above(k) = n}
           entry == [m \in below |->
                       [name |-> m, childless |-> Children /\ ~\E k \in names : Above(k) = m]]
<1>1. Listing(names, n) = {entry[m] : m \in below}
    BY DEF Listing
<1>2. IsFiniteSet(below)
    <2>1. below \in SUBSET names
        OBVIOUS
    <2> HIDE DEF below
    <2> QED
        BY <2>1, FS_Subset
<1>3. DOMAIN entry = below /\ entry = [m \in below |-> entry[m]]
    OBVIOUS
<1> HIDE DEF entry, below
<1> QED
    BY <1>1, <1>2, <1>3, ImageIsFinite

\* So does the cache.
LEMMA CachedIsSeq ==
    ASSUME NEW rows, IsFiniteSet(DOMAIN rows), NEW parent
    PROVE  IsSeq(childMailboxes(rows, parent))
<1> DEFINE below == {k \in DOMAIN rows : rows[k].parent = parent}
           entry == [n \in below |-> [name |-> n, childless |-> rows[n].childless]]
           found == {entry[n] : n \in below}
<1>1. childMailboxes(rows, parent) = Sorted(found)
    BY DEF childMailboxes
<1>2. IsFiniteSet(below)
    <2>1. below \in SUBSET DOMAIN rows
        OBVIOUS
    <2> HIDE DEF below
    <2> QED
        BY <2>1, FS_Subset
<1>3. DOMAIN entry = below /\ entry = [n \in below |-> entry[n]]
    OBVIOUS
<1> HIDE DEF entry, below
<1>4. IsFiniteSet(found)
    BY <1>2, <1>3, ImageIsFinite
<1> HIDE DEF found
<1> QED
    BY <1>1, <1>4, SortedIsSeq

\* And so it does after LIST.
LEMMA RowsAfterIsFinite ==
    ASSUME NEW rows, IsFiniteSet(DOMAIN rows), NEW parent, NEW records, IsSeq(records)
    PROVE  IsFiniteSet(DOMAIN RowsAfter(rows, parent, records))
<1> DEFINE name == [k \in DOMAIN records |-> records[k].name]
           named == {name[k] : k \in DOMAIN records}
           others == {n \in DOMAIN rows : rows[n].parent # parent}
           listed == setChildMailboxes(rows, parent, records)
<1>1. IsFiniteSet(named)
    <2>1. IsFiniteSet(DOMAIN records)
        BY SeqFacts
    <2>2. DOMAIN name = DOMAIN records /\ name = [k \in DOMAIN records |-> name[k]]
        OBVIOUS
    <2> HIDE DEF name
    <2> QED
        BY <2>1, <2>2, ImageIsFinite
<1>2. IsFiniteSet(others)
    <2>1. others \in SUBSET DOMAIN rows
        OBVIOUS
    <2> HIDE DEF others
    <2> QED
        BY <2>1, FS_Subset
<1>3. DOMAIN listed = others \cup named
    BY DEF setChildMailboxes
<1>4. DOMAIN RowsAfter(rows, parent, records) \in SUBSET DOMAIN listed
    BY DEF RowsAfter
<1> HIDE DEF named, others, listed
<1>5. IsFiniteSet(others \cup named)
    BY <1>1, <1>2, FS_Union
<1> QED
    BY <1>3, <1>4, <1>5, FS_Subset

\* Answers are answers.
LEMMA AnswerFacts ==
    /\ \A list : IsSeq(list) => IsAnswer(Data(list)) /\ ~Tag(Data(list))
    /\ \A g : \A what \in {"OK", "NO"} :
         IsAnswer(Tagged(what, g)) /\ Tag(Tagged(what, g)) /\ Tagged(what, g).tag = g
<1>1. \A list : Data(list).what = "data" /\ Data(list).list = list
    BY DEF Data
<1>2. \A g, what : Tagged(what, g).what = what /\ Tagged(what, g).tag = g
    BY DEF Tagged
<1> QED
    BY <1>1, <1>2 DEF IsAnswer, Tag

\* One after the others is one more.
LEMMA CatOne ==
    ASSUME NEW s, IsSeq(s), NEW x
    PROVE  s \o <<x>> = Append(s, x)
<1> DEFINE S == {s[k] : k \in 1 .. Len(s)}
           T == S \cup {x}
<1>1. s \in Seq(S)
    BY DEF IsSeq
<1> HIDE DEF S
<1>2. s \in Seq(T) /\ x \in T
    BY <1>1
<1> HIDE DEF T
<1> QED
    BY <1>2

\* And two are two.
LEMMA CatTwo ==
    ASSUME NEW s, IsSeq(s), NEW x, NEW y
    PROVE  s \o <<x, y>> = Append(Append(s, x), y)
<1> DEFINE S == {s[k] : k \in 1 .. Len(s)}
           T == S \cup {x, y}
<1>1. s \in Seq(S)
    BY DEF IsSeq
<1> HIDE DEF S
<1>2. s \in Seq(T) /\ x \in T /\ y \in T
    BY <1>1
<1> HIDE DEF T
<1> QED
    BY <1>2

\* One more answer.
LEMMA AnswersAppend ==
    ASSUME NEW s, IsSeq(s), \A k \in DOMAIN s : IsAnswer(s[k]), NEW r, IsAnswer(r)
    PROVE  /\ IsSeq(Append(s, r))
           /\ \A k \in DOMAIN Append(s, r) : IsAnswer(Append(s, r)[k])
<1> DEFINE all == Append(s, r)
<1>1. /\ IsSeq(all) /\ Len(s) \in Nat /\ DOMAIN s = 1 .. Len(s)
      /\ DOMAIN all = 1 .. Len(s) + 1
      /\ \A k \in 1 .. Len(s) : all[k] = s[k]
      /\ all[Len(s) + 1] = r
    BY AppendFacts, SeqFacts
<1> HIDE DEF all
<1>2. \A k \in DOMAIN all : (k \in DOMAIN s /\ all[k] = s[k]) \/ all[k] = r
    BY <1>1
<1> QED
    BY <1>1, <1>2 DEF all

\* One answer less.
LEMMA AnswersTail ==
    ASSUME NEW s, IsSeq(s), s # <<>>, \A k \in DOMAIN s : IsAnswer(s[k])
    PROVE  /\ IsSeq(Tail(s)) /\ IsAnswer(Head(s))
           /\ \A k \in DOMAIN Tail(s) : IsAnswer(Tail(s)[k])
<1>1. /\ IsSeq(Tail(s)) /\ Head(s) = s[1] /\ 1 \in DOMAIN s
      /\ \A k \in DOMAIN Tail(s) : k + 1 \in DOMAIN s /\ Tail(s)[k] = s[k + 1]
    BY TailFacts, SeqFacts
<1> QED
    BY <1>1

-----------------------------------------------------------------------------
(* The steps                                                                *)

\* The first state.
LEMMA InitInv ==
    ASSUME Init
    PROVE  LoadInv
<1> DEFINE item == Item([name |-> Root, childless |-> FALSE])
           tree == [i \in {0} |-> item]
<1>1. client = ClientOf(tree, <<>>, <<>>, TRUE, <<>>, <<>>, <<>>)
    BY DEF Init, ClientOf
<1>2. IsMailbox(item) /\ item.status = "NONE"
    BY DEF Item, IsMailbox
<1> HIDE DEF item
<1>3. TreeShape(tree) /\ DOMAIN tree = {0} /\ tree[0] = item
    <2>1. IsFiniteSet({0})
        BY FS_Singleton
    <2> QED
        BY <1>2, <2>1 DEF TreeShape
<1> HIDE DEF tree
<1>4. IsSeq(<<>>) /\ DOMAIN <<>> = {}
    <2>1. <<>> \in Seq({}) /\ DOMAIN <<>> = {}
        OBVIOUS
    <2> QED
        BY <2>1, SeqIsSeq
<1>5. TasksShape(<<>>)
    BY <1>4 DEF TasksShape
<1>6. /\ ClientShape(client) /\ client.tree = tree /\ client.later = <<>>
      /\ client.tasks = <<>> /\ client.toServer = <<>> /\ client.toClient = <<>>
    BY <1>1, <1>3, <1>4, <1>5, ClientOfFacts
<1>7. Awaited(client)
    BY <1>2, <1>3, <1>6 DEF Awaited
<1>8. server.names \in SUBSET Names /\ server.listing = <<>> /\
      server = [names |-> server.names, listing |-> server.listing]
    BY DEF Init
<1>9. WireShape(client.tasks, client.toServer, server.listing, client.toClient)
    BY <1>4, <1>6, <1>8 DEF WireShape
<1>10. IsFiniteSet(server.names)
    BY <1>8, MailboxListAssumption, FS_Subset
<1>11. IsFiniteSet(DOMAIN cache)
    <2>1. DOMAIN cache \in SUBSET Names
        BY DEF Init
    <2> QED
        BY <2>1, MailboxListAssumption, FS_Subset
<1> QED
    BY <1>4, <1>6, <1>7, <1>8, <1>9, <1>10, <1>11 DEF LoadInv, Sound, ServerShape

\* What is looked at is asked for.
LEMMA FetchSound ==
    ASSUME NEW c, NEW listing, Sound(c, listing), NEW i, NEW forceReload
    PROVE  Sound(Fetch(c, i, forceReload), listing)
<1>1. /\ ClientShape(c) /\ Awaited(c)
      /\ WireShape(c.tasks, c.toServer, listing, c.toClient)
    BY DEF Sound
<1>2. CASE c.tree[i].childless
    <2> DEFINE d == SetStatus(c, i, "DONE")
    <2>1. /\ ClientShape(d) /\ DOMAIN d.tree = DOMAIN c.tree
          /\ \A j \in DOMAIN c.tree : d.tree[j].status = IF j = i THEN "DONE" ELSE c.tree[j].status
          /\ d.tasks = c.tasks /\ d.later = c.later
          /\ d.toServer = c.toServer /\ d.toClient = c.toClient
        BY <1>1, SetStatusFacts
    <2>2. Fetch(c, i, forceReload) = d
        BY <1>2 DEF Fetch
    <2> HIDE DEF d
    <2>3. Awaited(d)
        BY <1>1, <2>1 DEF Awaited
    <2> QED
        BY <1>1, <2>1, <2>2, <2>3 DEF Sound
<1>3. CASE ~c.tree[i].childless
    <2> DEFINE b == SetStatus(c, i, "LOADING")
               call == [item |-> i, name |-> c.tree[i].name, forceReload |-> forceReload]
               later == Append(c.later, call)
               d == Fetch(c, i, forceReload)
    <2>1. /\ ClientShape(b) /\ DOMAIN b.tree = DOMAIN c.tree
          /\ \A j \in DOMAIN c.tree : b.tree[j].status = IF j = i THEN "LOADING" ELSE c.tree[j].status
          /\ b.tasks = c.tasks /\ b.later = c.later
          /\ b.toServer = c.toServer /\ b.toClient = c.toClient
        BY <1>1, SetStatusFacts
    <2>2. d = [b EXCEPT !.later = Append(@, call)]
        BY <1>3 DEF Fetch
    <2>3. call.item = i
        OBVIOUS
    <2> HIDE DEF b, call, d
    <2>4. /\ b = [tree |-> b.tree, later |-> b.later, tasks |-> b.tasks, online |-> b.online,
                  toServer |-> b.toServer, toClient |-> b.toClient,
                  listResponses |-> b.listResponses]
          /\ TreeShape(b.tree) /\ IsSeq(b.later) /\ TasksShape(b.tasks)
          /\ IsSeq(b.toServer) /\ IsSeq(b.listResponses)
          /\ IsSeq(b.toClient) /\ \A k \in DOMAIN b.toClient : IsAnswer(b.toClient[k])
        BY <2>1, ClientParts
    <2>5. d = ClientOf(b.tree, later, b.tasks, b.online, b.toServer, b.toClient, b.listResponses)
        BY <2>1, <2>2, <2>4 DEF ClientOf
    <2>6. /\ IsSeq(later) /\ \A k \in DOMAIN c.later : k \in DOMAIN later /\ later[k] = c.later[k]
          /\ Len(c.later) + 1 \in DOMAIN later /\ later[Len(c.later) + 1] = call
        BY <2>1, <2>4, AppendFacts, SeqFacts
    <2> HIDE DEF later
    <2>7. /\ ClientShape(d) /\ d.tree = b.tree /\ d.later = later /\ d.tasks = b.tasks
          /\ d.toServer = b.toServer /\ d.toClient = b.toClient
        BY <2>4, <2>5, <2>6, ClientOfFacts
    <2>8. Awaited(d)
        <3>1. SUFFICES ASSUME NEW j \in DOMAIN c.tree, b.tree[j].status = "LOADING"
                       PROVE  AwaitedIn(later, c.tasks, j)
            BY <2>1, <2>7 DEF Awaited
        <3>2. CASE j = i
            BY <2>3, <2>6, <3>2 DEF AwaitedIn
        <3>3. CASE j # i
            <4>1. AwaitedIn(c.later, c.tasks, j)
                BY <1>1, <2>1, <3>1, <3>3 DEF Awaited
            <4> QED
                BY <2>6, <4>1 DEF AwaitedIn
        <3> QED
            BY <3>2, <3>3
    <2>9. Sound(d, listing)
        BY <1>1, <2>1, <2>7, <2>8 DEF Sound
    <2> QED
        BY <2>9 DEF d
<1> QED
    BY <1>2, <1>3

\* One more task, which is what a mailbox was waiting for, or no mailbox was.
LEMMA AddTaskSound ==
    ASSUME NEW c, NEW listing, ClientShape(c), NEW x, AwaitedBut(c, x),
           WireShape(c.tasks, c.toServer, listing, c.toClient),
           NEW kind \in {"LIST", "CREATE", "DELETE"}, NEW name, NEW item,
           Awaited(c) \/ (kind = "LIST" /\ item = x)
    PROVE  Sound(AddTask(c, kind, name, item), listing)
<1> DEFINE d == AddTask(c, kind, name, item)
<1>1. /\ ClientShape(d)
      /\ \A k \in DOMAIN c.tasks : k \in DOMAIN d.tasks /\ d.tasks[k] = c.tasks[k]
      /\ \E k \in DOMAIN d.tasks : d.tasks[k].kind = kind /\ d.tasks[k].item = item
      /\ d.tree = c.tree /\ d.later = c.later
      /\ d.toServer = c.toServer /\ d.toClient = c.toClient
    BY AddTaskFacts
<1> HIDE DEF d
<1>2. \A g : Busy(c.tasks, g) => Busy(d.tasks, g)
    BY <1>1 DEF Busy
<1>3. WireShape(d.tasks, c.toServer, listing, c.toClient)
    BY <1>2, WireOfTasks
<1>4. Awaited(d)
    <2>1. SUFFICES ASSUME NEW j \in DOMAIN c.tree, c.tree[j].status = "LOADING"
                   PROVE  AwaitedIn(c.later, d.tasks, j)
        BY <1>1 DEF Awaited
    <2>2. CASE AwaitedIn(c.later, c.tasks, j)
        BY <1>1, <2>2 DEF AwaitedIn
    <2>3. CASE ~AwaitedIn(c.later, c.tasks, j)
        <3>1. j = x /\ kind = "LIST" /\ item = x
            BY <2>1, <2>3 DEF Awaited, AwaitedBut
        <3> QED
            BY <1>1, <3>1 DEF AwaitedIn
    <2> QED
        BY <2>2, <2>3
<1>5. Sound(d, listing)
    BY <1>1, <1>3, <1>4 DEF Sound
<1> QED
    BY <1>5 DEF d
-----------------------------------------------------------------------------
(* The steps                                                                *)

\* One thing about the client changes: what is posted,
LEMMA PostedFacts ==
    ASSUME NEW c, ClientShape(c), NEW later, IsSeq(later),
           NEW d, d = [c EXCEPT !.later = later]
    PROVE  /\ ClientShape(d) /\ d.tree = c.tree /\ d.tasks = c.tasks
           /\ d.later = later /\ d.online = c.online /\ d.toServer = c.toServer
           /\ d.toClient = c.toClient /\ d.listResponses = c.listResponses
<1>1. d = ClientOf(c.tree, later, c.tasks, c.online, c.toServer, c.toClient, c.listResponses)
    <2>1. c = [tree |-> c.tree, later |-> c.later, tasks |-> c.tasks, online |-> c.online,
               toServer |-> c.toServer, toClient |-> c.toClient,
               listResponses |-> c.listResponses]
        BY ClientParts
    <2> QED
        BY <2>1 DEF ClientOf
<1> QED
    BY <1>1, ClientParts, ClientOfFacts

\* what is to be read,
LEMMA ReadFacts ==
    ASSUME NEW c, ClientShape(c), NEW toClient, IsSeq(toClient),
           \A k \in DOMAIN toClient : IsAnswer(toClient[k]),
           NEW d, d = [c EXCEPT !.toClient = toClient]
    PROVE  /\ ClientShape(d) /\ d.tree = c.tree /\ d.tasks = c.tasks
           /\ d.later = c.later /\ d.online = c.online /\ d.toServer = c.toServer
           /\ d.toClient = toClient /\ d.listResponses = c.listResponses
<1>1. d = ClientOf(c.tree, c.later, c.tasks, c.online, c.toServer, toClient, c.listResponses)
    <2>1. c = [tree |-> c.tree, later |-> c.later, tasks |-> c.tasks, online |-> c.online,
               toServer |-> c.toServer, toClient |-> c.toClient,
               listResponses |-> c.listResponses]
        BY ClientParts
    <2> QED
        BY <2>1 DEF ClientOf
<1> QED
    BY <1>1, ClientParts, ClientOfFacts

\* whether it is online,
LEMMA OnlineFacts ==
    ASSUME NEW c, ClientShape(c), NEW online, NEW d, d = [c EXCEPT !.online = online]
    PROVE  /\ ClientShape(d) /\ d.tree = c.tree /\ d.tasks = c.tasks
           /\ d.later = c.later /\ d.online = online /\ d.toServer = c.toServer
           /\ d.toClient = c.toClient /\ d.listResponses = c.listResponses
<1>1. d = ClientOf(c.tree, c.later, c.tasks, online, c.toServer, c.toClient, c.listResponses)
    <2>1. c = [tree |-> c.tree, later |-> c.later, tasks |-> c.tasks, online |-> c.online,
               toServer |-> c.toServer, toClient |-> c.toClient,
               listResponses |-> c.listResponses]
        BY ClientParts
    <2> QED
        BY <2>1 DEF ClientOf
<1> QED
    BY <1>1, ClientParts, ClientOfFacts

\* or all that belongs to its connection.
CutOff(c, online, none) ==
    [c EXCEPT !.online = online, !.toServer = none, !.toClient = none, !.listResponses = none]

\* What it keeps then.
LEMMA CutOffFacts ==
    ASSUME NEW c, ClientShape(c), NEW none, IsSeq(none), DOMAIN none = {}, NEW online
    PROVE  /\ ClientShape(CutOff(c, online, none))
           /\ CutOff(c, online, none).tree = c.tree /\ CutOff(c, online, none).tasks = c.tasks
           /\ CutOff(c, online, none).later = c.later
           /\ CutOff(c, online, none).toServer = none /\ CutOff(c, online, none).toClient = none
<1> DEFINE d == CutOff(c, online, none)
<1>1. d = [c EXCEPT !.online = online, !.toServer = none, !.toClient = none,
                    !.listResponses = none]
    BY DEF CutOff
<1> HIDE DEF d
<1>2. d = ClientOf(c.tree, c.later, c.tasks, online, none, none, none)
    <2>1. c = [tree |-> c.tree, later |-> c.later, tasks |-> c.tasks, online |-> c.online,
               toServer |-> c.toServer, toClient |-> c.toClient,
               listResponses |-> c.listResponses]
        BY ClientParts
    <2> QED
        BY <1>1, <2>1 DEF ClientOf
<1>3. \A k \in DOMAIN none : IsAnswer(none[k])
    OBVIOUS
<1>4. /\ ClientShape(d) /\ d.tree = c.tree /\ d.tasks = c.tasks
      /\ d.later = c.later /\ d.toServer = none /\ d.toClient = none
    BY <1>2, <1>3, ClientParts, ClientOfFacts
<1> QED
    BY <1>4 DEF d

\* A mailbox is to be created or deleted.
LEMMA ChangeSound ==
    ASSUME NEW c, NEW listing, Sound(c, listing),
           NEW kind \in {"CREATE", "DELETE"}, NEW name, NEW item
    PROVE  Sound(AddTask(c, kind, name, item), listing)
<1>1. /\ ClientShape(c) /\ Awaited(c)
      /\ WireShape(c.tasks, c.toServer, listing, c.toClient)
    BY DEF Sound
<1>2. PICK x : AwaitedBut(c, x)
    BY <1>1, ButGone
<1>3. kind \in {"LIST", "CREATE", "DELETE"}
    OBVIOUS
<1>4. Awaited(c) \/ (kind = "LIST" /\ item = x)
    BY <1>1
<1> QED
    BY <1>1, <1>2, <1>3, <1>4, AddTaskSound, Zenon

\* askForChildrenOfMailbox(): the mailbox whose call was taken is listed by a task, or is not
\* loading any more.
LEMMA AskInv ==
    ASSUME LoadInv, askForChildrenOfMailbox
    PROVE  LoadInv'
<1> DEFINE ask == Head(client.later)
           c == [client EXCEPT !.later = Tail(@)]
           rows == childMailboxes(cache, ask.name)
           shown == replaceChildMailboxes(c, ask.item, rows)
           listing == server.listing
<1>1. /\ client.later # <<>> /\ UNCHANGED <<cache, server>>
      /\ client' = IF ask.item \notin DOMAIN c.tree THEN c
                   ELSE IF ~ask.forceReload /\ rows # <<>>
                        THEN AddTask(shown, "LIST", ask.name, ask.item)
                   ELSE IF c.online THEN AddTask(c, "LIST", ask.name, ask.item)
                   ELSE SetStatus(c, ask.item, "UNAVAILABLE")
    BY DEF askForChildrenOfMailbox
<1>2. /\ ClientShape(client) /\ Awaited(client) /\ IsFiniteSet(DOMAIN cache)
      /\ WireShape(client.tasks, client.toServer, listing, client.toClient)
    BY DEF LoadInv, Sound
<1>3. /\ client = [tree |-> client.tree, later |-> client.later, tasks |-> client.tasks,
                   online |-> client.online, toServer |-> client.toServer,
                   toClient |-> client.toClient, listResponses |-> client.listResponses]
      /\ TreeShape(client.tree) /\ IsSeq(client.later) /\ TasksShape(client.tasks)
      /\ IsSeq(client.toServer) /\ IsSeq(client.listResponses)
      /\ IsSeq(client.toClient) /\ \A k \in DOMAIN client.toClient : IsAnswer(client.toClient[k])
    BY <1>2, ClientParts
<1>4. /\ IsSeq(Tail(client.later)) /\ ask = client.later[1]
      /\ \A k \in DOMAIN client.later : k # 1 =>
           k - 1 \in DOMAIN Tail(client.later) /\ Tail(client.later)[k - 1] = client.later[k]
    <2>1. /\ IsSeq(Tail(client.later)) /\ Head(client.later) = client.later[1]
          /\ \A k \in 1 .. Len(client.later) - 1 : Tail(client.later)[k] = client.later[k + 1]
          /\ DOMAIN Tail(client.later) = 1 .. Len(client.later) - 1
          /\ DOMAIN client.later = 1 .. Len(client.later) /\ Len(client.later) \in Nat
        BY <1>1, <1>3, TailFacts, SeqFacts
    <2>2. \A k \in DOMAIN client.later : k # 1 =>
            k - 1 \in 1 .. Len(client.later) - 1 /\ (k - 1) + 1 = k
        BY <2>1
    <2> QED
        BY <2>1, <2>2
<1> DEFINE tail == Tail(client.later)
<1>5. IsSeq(tail) /\ c = [client EXCEPT !.later = tail]
    BY <1>4
<1> HIDE DEF c, ask, tail
<1>6. /\ ClientShape(c) /\ c.tree = client.tree /\ c.later = Tail(client.later)
      /\ c.tasks = client.tasks /\ c.online = client.online
      /\ c.toServer = client.toServer /\ c.toClient = client.toClient
    <2>1. /\ ClientShape(c) /\ c.tree = client.tree /\ c.later = tail
          /\ c.tasks = client.tasks /\ c.online = client.online
          /\ c.toServer = client.toServer /\ c.toClient = client.toClient
        BY <1>2, <1>5, PostedFacts
    <2> QED
        BY <2>1 DEF tail
<1>7. AwaitedBut(c, ask.item)
    <2>1. SUFFICES ASSUME NEW i \in DOMAIN client.tree, client.tree[i].status = "LOADING",
                          i # ask.item
                   PROVE  AwaitedIn(Tail(client.later), client.tasks, i)
        BY <1>6 DEF AwaitedBut
    <2>2. AwaitedIn(client.later, client.tasks, i)
        BY <1>2, <2>1 DEF Awaited
    <2> QED
        BY <1>4, <2>1, <2>2 DEF AwaitedIn
<1>8. WireShape(c.tasks, c.toServer, listing, c.toClient)
    BY <1>2, <1>6
<1>9. Sound(client', listing)
    <2>1. CASE ask.item \notin DOMAIN c.tree
        <3>1. Awaited(c)
            BY <1>7, <2>1 DEF Awaited, AwaitedBut
        <3> QED
            BY <1>1, <1>6, <1>8, <2>1, <3>1 DEF Sound
    <2>2. CASE client' = AddTask(shown, "LIST", ask.name, ask.item)
        <3>1. IsSeq(rows)
            BY <1>2, CachedIsSeq
        <3> HIDE DEF rows
        <3>2. ClientShape(shown) /\ Awaited(shown) /\ SameAround(c, shown)
            BY <1>6, <1>7, <3>1, ReplaceFacts
        <3> HIDE DEF shown
        <3>3. WireShape(shown.tasks, shown.toServer, listing, shown.toClient)
            <4>1. \A g : Busy(c.tasks, g) => Busy(shown.tasks, g)
                BY <3>2 DEF Busy, SameAround, SameTasks
            <4>2. WireShape(shown.tasks, c.toServer, listing, c.toClient)
                BY <1>8, <4>1, WireOfTasks
            <4> QED
                BY <3>2, <4>2 DEF SameAround
        <3>4. AwaitedBut(shown, ask.item)
            BY <3>2, ButGone
        <3> QED
            BY <2>2, <3>2, <3>3, <3>4, AddTaskSound
    <2>3. CASE client' = AddTask(c, "LIST", ask.name, ask.item)
        BY <1>6, <1>7, <1>8, <2>3, AddTaskSound
    <2>4. CASE client' = SetStatus(c, ask.item, "UNAVAILABLE")
        <3> DEFINE d == SetStatus(c, ask.item, "UNAVAILABLE")
        <3>1. /\ ClientShape(d) /\ DOMAIN d.tree = DOMAIN c.tree
              /\ \A j \in DOMAIN c.tree :
                   d.tree[j].status = IF j = ask.item THEN "UNAVAILABLE" ELSE c.tree[j].status
              /\ d.tasks = c.tasks /\ d.later = c.later
              /\ d.toServer = c.toServer /\ d.toClient = c.toClient
            BY <1>6, SetStatusFacts
        <3>2. client' = d
            BY <2>4
        <3> HIDE DEF d
        <3>3. Awaited(d)
            BY <1>7, <3>1 DEF Awaited, AwaitedBut
        <3>4. Sound(d, listing)
            BY <1>8, <3>1, <3>3 DEF Sound
        <3> QED
            BY <3>2, <3>4
    <2> QED
        BY <1>1, <2>1, <2>2, <2>3, <2>4
<1> QED
    BY <1>1, <1>9 DEF LoadInv, ServerShape

\* fetch(), the user's reload, and what asks again when online: nothing is asked of the server.
LEMMA ViewsInv ==
    ASSUME LoadInv,
           \/ \E i \in Items : fetch(i)
           \/ \E i \in Items : rescanForChildMailboxes(i)
           \/ \E n \in Names : createMailbox(n)
           \/ \E n \in Names : deleteMailbox(n)
    PROVE  LoadInv'
<1>1. Sound(client, server.listing)
    BY DEF LoadInv
<1>2. Sound(client', server.listing) /\ UNCHANGED <<cache, server>>
    <2>1. ASSUME NEW i \in Items, fetch(i)
          PROVE  Sound(client', server.listing) /\ UNCHANGED <<cache, server>>
        BY <1>1, <2>1, FetchSound DEF fetch
    <2>2. ASSUME NEW i \in Items, rescanForChildMailboxes(i)
          PROVE  Sound(client', server.listing) /\ UNCHANGED <<cache, server>>
        BY <1>1, <2>2, FetchSound DEF rescanForChildMailboxes
    <2>3. ASSUME NEW n \in Names, createMailbox(n)
          PROVE  Sound(client', server.listing) /\ UNCHANGED <<cache, server>>
        <3>1. client' = AddTask(client, "CREATE", n, 0) /\ UNCHANGED <<cache, server>>
            BY <2>3 DEF createMailbox
        <3>2. Sound(AddTask(client, "CREATE", n, 0), server.listing)
            BY <1>1, ChangeSound
        <3> QED
            BY <3>1, <3>2
    <2>4. ASSUME NEW n \in Names, deleteMailbox(n)
          PROVE  Sound(client', server.listing) /\ UNCHANGED <<cache, server>>
        <3>1. client' = AddTask(client, "DELETE", n, 0) /\ UNCHANGED <<cache, server>>
            BY <2>4 DEF deleteMailbox
        <3>2. Sound(AddTask(client, "DELETE", n, 0), server.listing)
            BY <1>1, ChangeSound
        <3> QED
            BY <3>1, <3>2
    <2> QED
        BY <2>1, <2>2, <2>3, <2>4
<1> QED
    BY <1>2 DEF LoadInv, ServerShape

\* responseReceived(): the answer is about a task, which it ends or takes further.
LEMMA ResponseInv ==
    ASSUME LoadInv, responseReceived
    PROVE  LoadInv'
<1> DEFINE resp == Head(client.toClient)
           c == [client EXCEPT !.toClient = Tail(@)]
           t == TaskOf(c, resp.tag)
           listed == resp.what = "OK" /\ t.kind = "LIST" /\ t.item # Gone
           heard == [c EXCEPT !.listResponses = @ \o resp.list]
           listing == server.listing
           d == CASE resp.what = "data" -> heard
                  [] resp.what = "OK" -> Completed(c, t)
                  [] resp.what = "NO" -> Failed(c, {t.tag})
<1>1. /\ client.toClient # <<>> /\ UNCHANGED server
      /\ client' = runReadyTasks(d)
      /\ cache' = IF listed THEN RowsAfter(cache, t.name, Records(c, t.name)) ELSE cache
    BY DEF responseReceived
<1>2. /\ ClientShape(client) /\ Awaited(client) /\ IsFiniteSet(DOMAIN cache) /\ ServerShape
      /\ WireShape(client.tasks, client.toServer, listing, client.toClient)
    BY DEF LoadInv, Sound
<1>3. /\ client = [tree |-> client.tree, later |-> client.later, tasks |-> client.tasks,
                   online |-> client.online, toServer |-> client.toServer,
                   toClient |-> client.toClient, listResponses |-> client.listResponses]
      /\ TreeShape(client.tree) /\ IsSeq(client.later) /\ TasksShape(client.tasks)
      /\ IsSeq(client.toServer) /\ IsSeq(client.listResponses)
      /\ IsSeq(client.toClient) /\ \A k \in DOMAIN client.toClient : IsAnswer(client.toClient[k])
    BY <1>2, ClientParts
<1>4. /\ IsSeq(Tail(client.toClient)) /\ IsAnswer(resp)
      /\ \A k \in DOMAIN Tail(client.toClient) : IsAnswer(Tail(client.toClient)[k])
    BY <1>1, <1>3, AnswersTail
<1> DEFINE tail == Tail(client.toClient)
<1>5. c = [client EXCEPT !.toClient = tail]
    OBVIOUS
<1>6. /\ WireShape(client.tasks, client.toServer, listing, Tail(client.toClient))
      /\ Tag(resp) => /\ Busy(client.tasks, resp.tag)
                      /\ Absent({resp.tag}, client.toServer, listing, Tail(client.toClient))
    BY <1>1, <1>2, <1>3, WireTakeClient
<1> HIDE DEF c, resp, tail
<1>7. /\ ClientShape(c) /\ c.tree = client.tree /\ c.later = client.later
      /\ c.tasks = client.tasks /\ c.toServer = client.toServer
      /\ c.toClient = Tail(client.toClient) /\ c.listResponses = client.listResponses
    <2>1. IsSeq(tail) /\ \A k \in DOMAIN tail : IsAnswer(tail[k])
        BY <1>4 DEF tail
    <2>2. /\ ClientShape(c) /\ c.tree = client.tree /\ c.later = client.later
          /\ c.tasks = client.tasks /\ c.toServer = client.toServer
          /\ c.toClient = tail /\ c.listResponses = client.listResponses
        BY <1>2, <1>5, <2>1, ReadFacts
    <2> QED
        BY <2>2 DEF tail
<1>8. Awaited(c)
    BY <1>2, <1>7 DEF Awaited
<1>9. Sound(c, listing)
    BY <1>6, <1>7, <1>8 DEF Sound
<1>10. ASSUME Tag(resp)
       PROVE  \E n \in DOMAIN c.tasks :
                /\ t = c.tasks[n] /\ t.tag = resp.tag /\ t.phase \in {"sent", "listing"}
                /\ Absent({t.tag}, c.toServer, listing, c.toClient)
    <2>1. PICK m \in DOMAIN c.tasks :
            c.tasks[m].tag = resp.tag /\ c.tasks[m].phase \in {"sent", "listing"}
        BY <1>6, <1>7, <1>10 DEF Busy
    <2> DEFINE n == CHOOSE k \in DOMAIN c.tasks : c.tasks[k].tag = resp.tag
    <2>2. n \in DOMAIN c.tasks /\ c.tasks[n].tag = resp.tag
        BY <2>1
    <2>3. t = c.tasks[n]
        BY DEF TaskOf
    <2> HIDE DEF n, t
    <2>4. n = m
        BY <1>3, <1>7, <2>1, <2>2 DEF TasksShape
    <2>5. Absent({resp.tag}, c.toServer, listing, c.toClient)
        BY <1>6, <1>7, <1>10
    <2> QED
        BY <2>1, <2>2, <2>3, <2>4, <2>5
<1> HIDE DEF t
<1>11. Sound(d, listing)
    <2>1. CASE resp.what = "data"
        <3>1. d = heard
            BY <2>1
        <3> DEFINE list == c.listResponses \o resp.list
        <3>2. IsSeq(list)
            BY <1>3, <1>4, <1>7, <2>1, CatFacts DEF IsAnswer
        <3>3. heard = [c EXCEPT !.listResponses = list]
            BY <1>7
        <3> HIDE DEF list, heard
        <3>4. /\ ClientShape(heard) /\ heard.tree = c.tree /\ heard.tasks = c.tasks
              /\ heard.later = c.later
              /\ heard.toServer = c.toServer /\ heard.toClient = c.toClient
            BY <1>7, <3>2, <3>3, HeardFacts
        <3>5. Awaited(heard)
            BY <1>8, <3>4 DEF Awaited
        <3>6. Sound(heard, listing)
            BY <1>9, <3>4, <3>5 DEF Sound
        <3> QED
            BY <3>1, <3>6
    <2>2. CASE resp.what = "OK"
        <3>1. d = Completed(c, t)
            BY <2>2
        <3>2. Tag(resp)
            BY <2>2 DEF Tag
        <3>3. Sound(Completed(c, t), listing)
            BY <1>9, <1>10, <3>2, CompletedSound
        <3> QED
            BY <3>1, <3>3
    <2>3. CASE resp.what = "NO"
        <3>1. d = Failed(c, {t.tag})
            BY <2>3
        <3>2. Tag(resp)
            BY <2>3 DEF Tag
        <3>3. Sound(Failed(c, {t.tag}), listing)
            BY <1>9, <1>10, <3>2, FailedSound
        <3> QED
            BY <3>1, <3>3
    <2> QED
        BY <1>4, <2>1, <2>2, <2>3 DEF IsAnswer
<1> HIDE DEF d
<1>12. Sound(client', listing)
    BY <1>1, <1>11, RunReadyTasksSound
<1>13. IsFiniteSet(DOMAIN cache')
    <2>1. IsSeq(Records(c, t.name))
        BY <1>7, RecordsIsSeq
    <2>2. IsFiniteSet(DOMAIN RowsAfter(cache, t.name, Records(c, t.name)))
        BY <1>2, <2>1, RowsAfterIsFinite
    <2> QED
        BY <1>1, <1>2, <2>2
<1> QED
    BY <1>1, <1>2, <1>12, <1>13 DEF LoadInv, ServerShape

\* The connection is lost: its tasks die, and what they were waiting for with them.
LEMMA ConnectionLostInv ==
    ASSUME LoadInv, ConnectionLost
    PROVE  LoadInv'
<1> DEFINE dead == {k \in DOMAIN client.tasks : client.tasks[k].phase # "offline"}
           tags == {client.tasks[k].tag : k \in dead}
           c == Failed(client, tags)
           none == <<>>
<1>1. /\ client' = [c EXCEPT !.online = FALSE, !.toServer = none, !.toClient = none,
                             !.listResponses = none]
      /\ server' = [server EXCEPT !.listing = none] /\ UNCHANGED cache
    BY DEF ConnectionLost
<1>2. ClientShape(client) /\ Awaited(client) /\ IsFiniteSet(DOMAIN cache) /\ ServerShape
    BY DEF LoadInv, Sound
<1> HIDE DEF tags
<1>3. ClientShape(c) /\ Awaited(c)
    BY <1>2, FailedFacts
<1> HIDE DEF c
<1>4. IsSeq(none) /\ DOMAIN none = {}
    <2>1. <<>> \in Seq({}) /\ DOMAIN <<>> = {}
        OBVIOUS
    <2> QED
        BY <2>1, SeqIsSeq
<1> HIDE DEF none
<1> DEFINE online == FALSE
           d == client'
<1> HIDE DEF d
<1>5. d = CutOff(c, online, none)
    BY <1>1 DEF d, CutOff
<1> HIDE DEF online
<1>6. /\ ClientShape(d) /\ d.tree = c.tree /\ d.tasks = c.tasks
      /\ d.later = c.later /\ d.toServer = none /\ d.toClient = none
    BY <1>3, <1>4, <1>5, CutOffFacts
<1>7. Awaited(d)
    BY <1>3, <1>6 DEF Awaited
<1>8. server' = [names |-> server.names, listing |-> none]
    BY <1>1, <1>2 DEF ServerShape
<1>9. ServerShape' /\ server'.listing = none
    BY <1>2, <1>4, <1>8 DEF ServerShape
<1>10. WireShape(d.tasks, d.toServer, server'.listing, d.toClient)
    BY <1>4, <1>6, <1>9 DEF WireShape
<1>11. Sound(d, server'.listing)
    BY <1>6, <1>7, <1>10 DEF Sound
<1> QED
    BY <1>1, <1>2, <1>9, <1>11 DEF LoadInv, d

\* Online again: the root is asked for.
LEMMA NetworkOnlineInv ==
    ASSUME LoadInv, NetworkOnline
    PROVE  LoadInv'
<1> DEFINE online == TRUE
           c == [client EXCEPT !.online = online]
<1>1. /\ client' = IF c.tree[0].status \in {"NONE", "LOADING"} THEN c ELSE Fetch(c, 0, TRUE)
      /\ UNCHANGED <<cache, server>>
    BY DEF NetworkOnline
<1>2. /\ ClientShape(client) /\ Awaited(client)
      /\ WireShape(client.tasks, client.toServer, server.listing, client.toClient)
    BY DEF LoadInv, Sound
<1>3. c = [client EXCEPT !.online = online]
    OBVIOUS
<1> HIDE DEF c, online
<1>4. /\ ClientShape(c) /\ c.tree = client.tree /\ c.later = client.later
      /\ c.tasks = client.tasks /\ c.toServer = client.toServer /\ c.toClient = client.toClient
    BY <1>2, <1>3, OnlineFacts
<1>5. Sound(c, server.listing)
    BY <1>2, <1>4 DEF Sound, Awaited
<1>6. Sound(client', server.listing)
    BY <1>1, <1>5, FetchSound
<1> QED
    BY <1>1, <1>6 DEF LoadInv, ServerShape

\* What fails offline had never been sent.
LEMMA OfflineFailsInv ==
    ASSUME LoadInv, OfflineFails
    PROVE  LoadInv'
<1>1. PICK n \in DOMAIN client.tasks :
        /\ client.tasks[n].phase = "offline"
        /\ client' = Failed(client, {client.tasks[n].tag})
    BY DEF OfflineFails
<1>2. UNCHANGED <<cache, server>>
    BY DEF OfflineFails
<1>3. Sound(client, server.listing)
    BY DEF LoadInv
<1>4. /\ TasksShape(client.tasks)
      /\ WireShape(client.tasks, client.toServer, server.listing, client.toClient)
    BY <1>3, ClientParts DEF Sound
<1>5. ~Busy(client.tasks, client.tasks[n].tag)
    <2>1. SUFFICES ASSUME NEW k \in DOMAIN client.tasks,
                          client.tasks[k].tag = client.tasks[n].tag,
                          client.tasks[k].phase \in {"sent", "listing"}
                   PROVE  FALSE
        BY DEF Busy
    <2>2. k = n
        BY <1>4, <2>1 DEF TasksShape
    <2> QED
        BY <1>1, <2>1, <2>2
<1>6. Absent({client.tasks[n].tag}, client.toServer, server.listing, client.toClient)
    BY <1>4, <1>5 DEF Absent, WireShape
<1>7. Sound(client', server.listing)
    BY <1>1, <1>3, <1>6, FailedSound
<1> QED
    BY <1>2, <1>7 DEF LoadInv, ServerShape

\* What the server does to the wires.
LEMMA WiredSound ==
    ASSUME NEW c, ClientShape(c), Awaited(c), NEW listing, NEW toServer, IsSeq(toServer),
           NEW toClient, IsSeq(toClient), \A k \in DOMAIN toClient : IsAnswer(toClient[k]),
           WireShape(c.tasks, toServer, listing, toClient)
    PROVE  Sound(ClientOf(c.tree, c.later, c.tasks, c.online, toServer, toClient,
                          c.listResponses), listing)
<1> DEFINE d == ClientOf(c.tree, c.later, c.tasks, c.online, toServer, toClient, c.listResponses)
<1>1. TreeShape(c.tree) /\ IsSeq(c.later) /\ TasksShape(c.tasks) /\ IsSeq(c.listResponses)
    BY ClientParts
<1>2. d = ClientOf(c.tree, c.later, c.tasks, c.online, toServer, toClient, c.listResponses)
    OBVIOUS
<1> HIDE DEF d
<1>3. /\ ClientShape(d) /\ d.tree = c.tree /\ d.later = c.later /\ d.tasks = c.tasks
      /\ d.toServer = toServer /\ d.toClient = toClient
    BY <1>1, <1>2, ClientOfFacts
<1>4. Awaited(d)
    BY <1>3 DEF Awaited
<1>5. Sound(d, listing)
    BY <1>3, <1>4 DEF Sound
<1> QED
    BY <1>5 DEF d

\* The server takes a command, and says no more than one thing about it.
LEMMA SaidSound ==
    ASSUME LoadInv, client.toServer # <<>>, NEW what \in {"OK", "NO"},
           client' = Say(<<Tagged(what, NextCommand.tag)>>)
    PROVE  Sound(client', server.listing)
<1> DEFINE g == NextCommand.tag
           r == Tagged(what, g)
           listing == server.listing
           toServer == Tail(client.toServer)
           toClient == Append(client.toClient, r)
<1>1. /\ ClientShape(client) /\ Awaited(client)
      /\ WireShape(client.tasks, client.toServer, listing, client.toClient)
    BY DEF LoadInv, Sound
<1>2. /\ client = [tree |-> client.tree, later |-> client.later, tasks |-> client.tasks,
                   online |-> client.online, toServer |-> client.toServer,
                   toClient |-> client.toClient, listResponses |-> client.listResponses]
      /\ IsSeq(client.toServer)
      /\ IsSeq(client.toClient) /\ \A k \in DOMAIN client.toClient : IsAnswer(client.toClient[k])
    BY <1>1, ClientParts
<1>3. client' = ClientOf(client.tree, client.later, client.tasks, client.online, toServer,
                         toClient, client.listResponses)
    <2>1. client' = [client EXCEPT !.toServer = toServer, !.toClient = client.toClient \o <<r>>]
        BY <1>2 DEF Say
    <2>2. client.toClient \o <<r>> = toClient
        BY <1>2, CatOne
    <2> HIDE DEF toServer, toClient, r
    <2> QED
        BY <1>2, <2>1, <2>2 DEF ClientOf
<1>4. /\ WireShape(client.tasks, toServer, listing, client.toClient)
      /\ Busy(client.tasks, g) /\ Absent({g}, toServer, listing, client.toClient)
      /\ IsSeq(toServer)
    BY <1>1, <1>2, WireTakeServer, TailFacts DEF NextCommand
<1>5. IsAnswer(r) /\ Tag(r) /\ r.tag = g
    BY AnswerFacts
<1> HIDE DEF g, r, toServer
<1>6. WireShape(client.tasks, toServer, listing, toClient)
    BY <1>2, <1>4, <1>5, WirePutClient
<1>7. IsSeq(toClient) /\ \A k \in DOMAIN toClient : IsAnswer(toClient[k])
    BY <1>2, <1>5, AnswersAppend
<1> HIDE DEF toClient
<1> QED
    BY <1>1, <1>3, <1>4, <1>6, <1>7, WiredSound

\* It begins a LIST.
LEMMA ServerListsInv ==
    ASSUME LoadInv, ServerLists
    PROVE  LoadInv'
<1> DEFINE g == NextCommand.tag
           list == Sorted(Listing(server.names, NextCommand.name))
           r == Data(list)
           toServer == Tail(client.toServer)
           toClient == Append(client.toClient, r)
           listing == Append(server.listing, g)
<1>1. /\ client.toServer # <<>> /\ client' = Say(<<r>>) /\ UNCHANGED cache
      /\ server' = [server EXCEPT !.listing = Append(@, g)]
    BY DEF ServerLists
<1>2. /\ ClientShape(client) /\ Awaited(client) /\ ServerShape /\ IsFiniteSet(DOMAIN cache)
      /\ WireShape(client.tasks, client.toServer, server.listing, client.toClient)
    BY DEF LoadInv, Sound
<1>3. /\ client = [tree |-> client.tree, later |-> client.later, tasks |-> client.tasks,
                   online |-> client.online, toServer |-> client.toServer,
                   toClient |-> client.toClient, listResponses |-> client.listResponses]
      /\ IsSeq(client.toServer)
      /\ IsSeq(client.toClient) /\ \A k \in DOMAIN client.toClient : IsAnswer(client.toClient[k])
    BY <1>2, ClientParts
<1>4. IsAnswer(r) /\ ~Tag(r)
    <2>1. IsFiniteSet(Listing(server.names, NextCommand.name))
        BY <1>2, ListingIsFinite DEF ServerShape
    <2>2. IsSeq(list)
        BY <2>1, SortedIsSeq
    <2> HIDE DEF list
    <2> QED
        BY <2>2, AnswerFacts
<1> HIDE DEF r
<1>5. client' = ClientOf(client.tree, client.later, client.tasks, client.online, toServer,
                         toClient, client.listResponses)
    <2>1. client' = [client EXCEPT !.toServer = toServer, !.toClient = client.toClient \o <<r>>]
        BY <1>1, <1>3 DEF Say
    <2>2. client.toClient \o <<r>> = toClient
        BY <1>3, CatOne
    <2> HIDE DEF toServer, toClient
    <2> QED
        BY <1>3, <2>1, <2>2 DEF ClientOf
<1>6. /\ WireShape(client.tasks, toServer, server.listing, client.toClient)
      /\ Busy(client.tasks, g) /\ Absent({g}, toServer, server.listing, client.toClient)
      /\ IsSeq(toServer)
    BY <1>1, <1>2, <1>3, WireTakeServer, TailFacts DEF NextCommand
<1>7. server' = [names |-> server.names, listing |-> listing] /\ IsSeq(listing)
    BY <1>1, <1>2, AppendFacts DEF ServerShape
<1> HIDE DEF g, toServer
<1>8. WireShape(client.tasks, toServer, listing, client.toClient)
    BY <1>2, <1>6, WirePutListing DEF ServerShape
<1> HIDE DEF listing
<1>9. WireShape(client.tasks, toServer, listing, toClient)
    BY <1>3, <1>4, <1>8, WirePutClient
<1>10. IsSeq(toClient) /\ \A k \in DOMAIN toClient : IsAnswer(toClient[k])
    BY <1>3, <1>4, AnswersAppend
<1> HIDE DEF toClient
<1>11. Sound(client', listing)
    BY <1>2, <1>5, <1>6, <1>9, <1>10, WiredSound
<1>12. ServerShape' /\ server'.listing = listing
    BY <1>2, <1>7 DEF ServerShape
<1> QED
    BY <1>1, <1>2, <1>11, <1>12 DEF LoadInv

\* It completes one.
LEMMA ServerCompletesInv ==
    ASSUME LoadInv, ServerCompletes
    PROVE  LoadInv'
<1> DEFINE g == Head(server.listing)
           listing == Tail(server.listing)
<1>1. PICK what \in {"OK", "NO"} :
        client' = [client EXCEPT !.toClient = Append(@, Tagged(what, g))]
    BY DEF ServerCompletes
<1>2. /\ server.listing # <<>> /\ UNCHANGED cache
      /\ server' = [server EXCEPT !.listing = Tail(@)]
    BY DEF ServerCompletes
<1> DEFINE r == Tagged(what, g)
           toClient == Append(client.toClient, r)
<1>3. /\ ClientShape(client) /\ Awaited(client) /\ ServerShape /\ IsFiniteSet(DOMAIN cache)
      /\ WireShape(client.tasks, client.toServer, server.listing, client.toClient)
    BY DEF LoadInv, Sound
<1>4. /\ client = [tree |-> client.tree, later |-> client.later, tasks |-> client.tasks,
                   online |-> client.online, toServer |-> client.toServer,
                   toClient |-> client.toClient, listResponses |-> client.listResponses]
      /\ IsSeq(client.toServer)
      /\ IsSeq(client.toClient) /\ \A k \in DOMAIN client.toClient : IsAnswer(client.toClient[k])
    BY <1>3, ClientParts
<1>5. client' = ClientOf(client.tree, client.later, client.tasks, client.online,
                         client.toServer, toClient, client.listResponses)
    BY <1>1, <1>4 DEF ClientOf
<1>6. /\ WireShape(client.tasks, client.toServer, listing, client.toClient)
      /\ Busy(client.tasks, g) /\ Absent({g}, client.toServer, listing, client.toClient)
    BY <1>2, <1>3, WireTakeListing DEF ServerShape
<1>7. IsAnswer(r) /\ Tag(r) /\ r.tag = g
    BY AnswerFacts
<1>8. server' = [names |-> server.names, listing |-> listing] /\ IsSeq(listing)
    BY <1>2, <1>3, TailFacts DEF ServerShape
<1> HIDE DEF g, r, listing
<1>9. WireShape(client.tasks, client.toServer, listing, toClient)
    BY <1>4, <1>6, <1>7, WirePutClient
<1>10. IsSeq(toClient) /\ \A k \in DOMAIN toClient : IsAnswer(toClient[k])
    BY <1>4, <1>7, AnswersAppend
<1> HIDE DEF toClient
<1>11. Sound(client', listing)
    BY <1>3, <1>4, <1>5, <1>9, <1>10, WiredSound
<1>12. ServerShape' /\ server'.listing = listing
    BY <1>3, <1>8 DEF ServerShape
<1> QED
    BY <1>2, <1>3, <1>11, <1>12 DEF LoadInv

\* It does what it was told, or refuses to.
LEMMA ServerChangesInv ==
    ASSUME LoadInv, ServerChanges \/ ServerRefuses
    PROVE  LoadInv'
<1>1. ServerShape /\ IsFiniteSet(DOMAIN cache)
    BY DEF LoadInv
<1>2. CASE ServerRefuses
    <2>1. client.toServer # <<>> /\ client' = Say(<<Tagged("NO", NextCommand.tag)>>)
          /\ UNCHANGED <<cache, server>>
        BY <1>2 DEF ServerRefuses
    <2>2. Sound(client', server.listing)
        BY <2>1, SaidSound
    <2> QED
        BY <1>1, <2>1, <2>2 DEF LoadInv, ServerShape
<1>3. CASE ServerChanges
    <2> DEFINE names == IF NextCommand.what = "CREATE" THEN server.names \cup {NextCommand.name}
                        ELSE server.names \ {NextCommand.name}
    <2>1. /\ client.toServer # <<>> /\ client' = Say(<<Tagged("OK", NextCommand.tag)>>)
          /\ UNCHANGED cache
          /\ server' = [server EXCEPT !.names = names]
        BY <1>3 DEF ServerChanges
    <2>2. Sound(client', server.listing)
        BY <2>1, SaidSound
    <2>3. IsFiniteSet(names)
        BY <1>1, FS_AddElement, FS_RemoveElement DEF ServerShape
    <2> HIDE DEF names
    <2>4. server' = [names |-> names, listing |-> server.listing]
        BY <1>1, <2>1 DEF ServerShape
    <2>5. ServerShape' /\ server'.listing = server.listing
        BY <1>1, <2>3, <2>4 DEF ServerShape
    <2> QED
        BY <1>1, <2>1, <2>2, <2>5 DEF LoadInv
<1> QED
    BY <1>2, <1>3

\* It lists what it has created.
LEMMA ServerListsOneInv ==
    ASSUME LoadInv, ServerListsOne
    PROVE  LoadInv'
<1> DEFINE g == NextCommand.tag
           all == Listing(server.names, Above(NextCommand.name))
           found == {r \in all : r.name = NextCommand.name}
           list == Sorted(found)
           q == Data(list)
           r == Tagged("OK", g)
           listing == server.listing
           toServer == Tail(client.toServer)
           half == Append(client.toClient, q)
           toClient == Append(half, r)
<1>1. client.toServer # <<>> /\ client' = Say(<<q, r>>) /\ UNCHANGED <<cache, server>>
    BY DEF ServerListsOne
<1>2. /\ ClientShape(client) /\ Awaited(client) /\ ServerShape /\ IsFiniteSet(DOMAIN cache)
      /\ WireShape(client.tasks, client.toServer, listing, client.toClient)
    BY DEF LoadInv, Sound
<1>3. /\ client = [tree |-> client.tree, later |-> client.later, tasks |-> client.tasks,
                   online |-> client.online, toServer |-> client.toServer,
                   toClient |-> client.toClient, listResponses |-> client.listResponses]
      /\ IsSeq(client.toServer)
      /\ IsSeq(client.toClient) /\ \A k \in DOMAIN client.toClient : IsAnswer(client.toClient[k])
    BY <1>2, ClientParts
<1>4. IsAnswer(q) /\ ~Tag(q) /\ IsAnswer(r) /\ Tag(r) /\ r.tag = g
    <2>1. IsFiniteSet(all)
        BY <1>2, ListingIsFinite DEF ServerShape
    <2>2. found \in SUBSET all
        OBVIOUS
    <2> HIDE DEF all, found
    <2>3. IsSeq(list)
        BY <2>1, <2>2, FS_Subset, SortedIsSeq
    <2> HIDE DEF list
    <2> QED
        BY <2>3, AnswerFacts
<1> HIDE DEF q, r
<1>5. client' = ClientOf(client.tree, client.later, client.tasks, client.online, toServer,
                         toClient, client.listResponses)
    <2>1. client' = [client EXCEPT !.toServer = toServer, !.toClient = client.toClient \o <<q, r>>]
        BY <1>1, <1>3 DEF Say
    <2>2. client.toClient \o <<q, r>> = toClient
        BY <1>3, CatTwo
    <2> HIDE DEF toServer, toClient
    <2> QED
        BY <1>3, <2>1, <2>2 DEF ClientOf
<1>6. /\ WireShape(client.tasks, toServer, listing, client.toClient)
      /\ Busy(client.tasks, g) /\ Absent({g}, toServer, listing, client.toClient)
      /\ IsSeq(toServer)
    BY <1>1, <1>2, <1>3, WireTakeServer, TailFacts DEF NextCommand
<1> HIDE DEF g, toServer
<1>7. /\ WireShape(client.tasks, toServer, listing, half)
      /\ IsSeq(half) /\ \A k \in DOMAIN half : IsAnswer(half[k])
    BY <1>3, <1>4, <1>6, WirePutClient, AnswersAppend
<1>8. Absent({g}, toServer, listing, half)
    <2>1. \A k \in DOMAIN half : \/ k \in DOMAIN client.toClient /\ half[k] = client.toClient[k]
                                 \/ half[k] = q
        <3>1. /\ Len(client.toClient) \in Nat /\ DOMAIN client.toClient = 1 .. Len(client.toClient)
              /\ DOMAIN half = 1 .. Len(client.toClient) + 1
              /\ \A k \in 1 .. Len(client.toClient) : half[k] = client.toClient[k]
              /\ half[Len(client.toClient) + 1] = q
            BY <1>3, AppendFacts, SeqFacts
        <3> HIDE DEF half
        <3> QED
            BY <3>1
    <2> HIDE DEF half
    <2> QED
        BY <1>4, <1>6, <2>1 DEF Absent
<1> HIDE DEF half
<1>9. WireShape(client.tasks, toServer, listing, toClient)
    BY <1>4, <1>6, <1>7, <1>8, WirePutClient
<1>10. IsSeq(toClient) /\ \A k \in DOMAIN toClient : IsAnswer(toClient[k])
    BY <1>4, <1>7, AnswersAppend
<1> HIDE DEF toClient
<1>11. Sound(client', listing)
    BY <1>2, <1>5, <1>6, <1>9, <1>10, WiredSound
<1> QED
    BY <1>1, <1>2, <1>11 DEF LoadInv, ServerShape

\* No step breaks it.
LEMMA NextInv ==
    ASSUME LoadInv, [Next]_vars
    PROVE  LoadInv'
<1>1. CASE Next
    <2>1. CASE Views
        BY <2>1, ViewsInv DEF Views
    <2>2. CASE askForChildrenOfMailbox
        BY <2>2, AskInv
    <2>3. CASE Perform
        <3>1. client' = runReadyTasks(client) /\ UNCHANGED <<cache, server>>
            BY <2>3 DEF Perform
        <3>2. Sound(client', server.listing)
            BY <3>1, RunReadyTasksSound DEF LoadInv
        <3> QED
            BY <3>1, <3>2 DEF LoadInv, ServerShape
    <2>4. CASE responseReceived
        BY <2>4, ResponseInv
    <2>5. CASE OfflineFails
        BY <2>5, OfflineFailsInv
    <2>6. CASE ServerLists
        BY <2>6, ServerListsInv
    <2>7. CASE ServerCompletes
        BY <2>7, ServerCompletesInv
    <2>8. CASE ServerChanges \/ ServerRefuses
        BY <2>8, ServerChangesInv
    <2>9. CASE ServerListsOne
        BY <2>9, ServerListsOneInv
    <2>10. CASE ConnectionLost
        BY <2>10, ConnectionLostInv
    <2>11. CASE NetworkOnline
        BY <2>11, NetworkOnlineInv
    <2> QED
        BY <1>1, <2>1, <2>2, <2>3, <2>4, <2>5, <2>6, <2>7, <2>8, <2>9, <2>10, <2>11
           DEF Next, Loop, Server
<1>2. CASE UNCHANGED vars
    BY <1>2 DEF LoadInv, Sound, ServerShape, vars
<1> QED
    BY <1>1, <1>2

\* A mailbox that shows "loading" is awaited by a posted call or by a task that will end it
\* (fetchWithCacheControl(), ListChildMailboxesTask), whatever is asked for, created, deleted,
\* refused or lost meanwhile, and in whichever order the server answers.
THEOREM LoadingAlwaysAwaited == Spec => []LoadingIsAwaited
<1>1. Init => LoadInv
    BY InitInv
<1>2. LoadInv /\ [Next]_vars => LoadInv'
    BY NextInv
<1>3. LoadInv => LoadingIsAwaited
    BY DEF LoadInv, Sound, Awaited, AwaitedIn, LoadingIsAwaited, Items
<1> QED
    BY <1>1, <1>2, <1>3, PTL DEF Spec
=============================================================================
