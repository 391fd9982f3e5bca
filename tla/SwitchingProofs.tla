----------------------------- MODULE SwitchingProofs -----------------------------
(***************************************************************************)
(* CommandsMeetTheirMailbox holds in every reachable state of Switching,   *)
(* for every set of mailboxes, every kind of server and every bound.       *)
(*                                                                         *)
(* Which mailbox is selected was decided by a SELECT which was queued long *)
(* before, so the invariant (SwitchingInv) follows the connection from one *)
(* pair of tasks to the next: who waits (Waiting), whose turn it is        *)
(* (Maintaining), which posted calls give it away (Posted), and what is    *)
(* under way between client and server meanwhile (Wired). Fine says it of  *)
(* a client in the middle of a handler; each method has a lemma which says *)
(* what it keeps of that, each action one which is built from those.       *)
(***************************************************************************)
EXTENDS Switching, FiniteSetTheorems, WellFoundedInduction, TLAPS

-----------------------------------------------------------------------------
(* Finite sets, and sequences of whatever                                   *)

\* A set of natural numbers that is not empty has a least one.
LEMMA LeastOf ==
    ASSUME NEW S \in SUBSET Nat, S # {}
    PROVE  \E k \in S : \A j \in S : k <= j
<1>1. IsWellFoundedOn(OpToRel(<, Nat), Nat)
    BY NatLessThanWellFounded
<1>2. PICK k \in S : \A j \in S : <<j, k>> \notin OpToRel(<, Nat)
    BY <1>1, WFMin
<1>3. ASSUME NEW j \in S, j < k PROVE FALSE
    <2>1. <<j, k>> \in OpToRel(<, Nat)
        BY <1>3 DEF OpToRel
    <2> QED
        BY <1>2, <2>1
<1> QED
    BY <1>3

\* What a function makes of a finite set is finite, and no larger.
LEMMA ImageIsFinite ==
    ASSUME NEW S, IsFiniteSet(S), NEW f, DOMAIN f = S,
           f = [x \in S |-> f[x]]
    PROVE  /\ IsFiniteSet({f[x] : x \in S})
           /\ Cardinality({f[x] : x \in S}) <= Cardinality(S)
<1> DEFINE T == {f[x] : x \in S}
<1>1. f \in [S -> T]
    OBVIOUS
<1>2. f \in Surjection(S, T)
    BY <1>1 DEF Surjection
<1> HIDE DEF T
<1>3. IsFiniteSet(T) /\ Cardinality(T) <= Cardinality(S)
    BY <1>2, FS_Surjection
<1> QED
    BY <1>3 DEF T

IsSeq(s) == s \in Seq({s[k] : k \in 1 .. Len(s)})

\* What is made for each number up to n is a sequence.
LEMMA MadeSeq ==
    ASSUME NEW n \in Nat, NEW f, f = [k \in 1 .. n |-> f[k]]
    PROVE  IsSeq(f) /\ Len(f) = n /\ DOMAIN f = 1 .. n
<1> DEFINE S == {f[k] : k \in 1 .. n}
<1>1. f \in [1 .. n -> S]
    OBVIOUS
<1>2. f \in Seq(S) /\ Len(f) = n /\ DOMAIN f = 1 .. n
    <2> HIDE DEF S
    <2> QED
        BY <1>1
<1> QED
    BY <1>2 DEF IsSeq

\* What is in a set of sequences is a sequence.
LEMMA SeqIsSeq ==
    ASSUME NEW S, NEW s \in Seq(S)
    PROVE  IsSeq(s)
<1>1. Len(s) \in Nat /\ s = [k \in 1 .. Len(s) |-> s[k]]
    OBVIOUS
<1> QED
    BY <1>1, MadeSeq

\* Sequences have lengths, and numbers up to them.
LEMMA SeqFacts ==
    ASSUME NEW s, IsSeq(s)
    PROVE  /\ Len(s) \in Nat /\ DOMAIN s = 1 .. Len(s)
           /\ s = [k \in 1 .. Len(s) |-> s[k]]
           /\ s # <<>> <=> Len(s) >= 1
           /\ IsFiniteSet(DOMAIN s) /\ Cardinality(DOMAIN s) = Len(s)
<1>1. /\ Len(s) \in Nat /\ DOMAIN s = 1 .. Len(s)
      /\ s = [k \in 1 .. Len(s) |-> s[k]]
      /\ s # <<>> <=> Len(s) >= 1
    <2> DEFINE S == {s[k] : k \in 1 .. Len(s)}
    <2>1. s \in Seq(S)
        BY DEF IsSeq
    <2> HIDE DEF S
    <2> QED
        BY <2>1
<1>2. IsFiniteSet(1 .. Len(s)) /\ Cardinality(1 .. Len(s)) = Len(s)
    BY <1>1, FS_Interval
<1> QED
    BY <1>1, <1>2

\* One more at the end.
LEMMA AppendFacts ==
    ASSUME NEW s, IsSeq(s), NEW x
    PROVE  /\ IsSeq(Append(s, x)) /\ Len(Append(s, x)) = Len(s) + 1
           /\ \A k \in 1 .. Len(s) : Append(s, x)[k] = s[k]
           /\ Append(s, x)[Len(s) + 1] = x
           /\ DOMAIN Append(s, x) = 1 .. Len(s) + 1
<1> DEFINE S == {s[k] : k \in 1 .. Len(s)}
           T == S \cup {x}
<1>1. s \in Seq(S)
    BY DEF IsSeq
<1> HIDE DEF S
<1>2. s \in Seq(T) /\ x \in T
    BY <1>1
<1> HIDE DEF T
<1>3. Append(s, x) \in Seq(T)
    BY <1>2
<1>4. IsSeq(Append(s, x))
    BY <1>3, SeqIsSeq
<1> QED
    BY <1>2, <1>4

\* One less at the beginning.
LEMMA TailFacts ==
    ASSUME NEW s, IsSeq(s), s # <<>>
    PROVE  /\ IsSeq(Tail(s)) /\ Len(Tail(s)) = Len(s) - 1
           /\ Head(s) = s[1] /\ 1 \in DOMAIN s
           /\ \A k \in 1 .. Len(s) - 1 : Tail(s)[k] = s[k + 1]
           /\ DOMAIN Tail(s) = 1 .. Len(s) - 1
<1> DEFINE S == {s[k] : k \in 1 .. Len(s)}
<1>1. s \in Seq(S)
    BY DEF IsSeq
<1> HIDE DEF S
<1>2. Tail(s) \in Seq(S)
    BY <1>1
<1>3. IsSeq(Tail(s))
    BY <1>2, SeqIsSeq
<1> QED
    BY <1>1, <1>3

\* One after the other.
LEMMA CatFacts ==
    ASSUME NEW s, IsSeq(s), NEW t, IsSeq(t)
    PROVE  /\ IsSeq(s \o t) /\ Len(s \o t) = Len(s) + Len(t)
           /\ DOMAIN (s \o t) = 1 .. Len(s) + Len(t)
           /\ \A k \in 1 .. Len(s) : (s \o t)[k] = s[k]
           /\ \A k \in 1 .. Len(t) : (s \o t)[Len(s) + k] = t[k]
<1> DEFINE S == {s[k] : k \in 1 .. Len(s)}
           T == {t[k] : k \in 1 .. Len(t)}
<1>1. s \in Seq(S) /\ t \in Seq(T)
    BY DEF IsSeq
<1> HIDE DEF S, T
<1> DEFINE U == S \cup T
<1>2. s \in Seq(U) /\ t \in Seq(U)
    BY <1>1
<1> HIDE DEF U
<1>3. (s \o t) \in Seq(U)
    BY <1>2
<1>4. IsSeq(s \o t)
    BY <1>3, SeqIsSeq
<1>5. Len(s \o t) = Len(s) + Len(t) /\ Len(s) \in Nat /\ Len(t) \in Nat
    BY <1>2
<1>6. \A k \in 1 .. Len(s) : (s \o t)[k] = s[k]
    BY <1>2
<1>7. \A k \in 1 .. Len(t) : (s \o t)[Len(s) + k] = t[k]
    BY <1>2
<1> QED
    BY <1>4, <1>5, <1>6, <1>7, SeqFacts

\* First the one, then the other
Joined(r, s, t) ==
    /\ IsSeq(r) /\ Len(r) = Len(s) + Len(t) /\ DOMAIN r = 1 .. Len(s) + Len(t)
    /\ \A i \in 1 .. Len(s) : r[i] = s[i]
    /\ \A i \in 1 .. Len(t) : r[Len(s) + i] = t[i]

LEMMA CatIs ==
    ASSUME NEW s, IsSeq(s), NEW t, IsSeq(t), NEW r, r = s \o t
    PROVE  Joined(r, s, t)
<1>1. /\ IsSeq(s \o t) /\ Len(s \o t) = Len(s) + Len(t)
      /\ DOMAIN (s \o t) = 1 .. Len(s) + Len(t)
      /\ \A k \in 1 .. Len(s) : (s \o t)[k] = s[k]
      /\ \A k \in 1 .. Len(t) : (s \o t)[Len(s) + k] = t[k]
    BY CatFacts
<1> QED
    BY <1>1 DEF Joined

-----------------------------------------------------------------------------
(* What Kept() keeps: each of the places, once                              *)

PlaceOf(places, k) == CHOOSE i \in places : Cardinality({j \in places : j <= i}) = k

\* How many of the places there are up to i.
LEMMA RankFacts ==
    ASSUME NEW n \in Nat, NEW places \in SUBSET (1 .. n)
    PROVE  /\ \A i \in 0 .. n : Cardinality({j \in places : j <= i}) \in Nat
           /\ Cardinality({j \in places : j <= 0}) = 0
           /\ \A i \in 1 .. n : Cardinality({j \in places : j <= i}) =
                IF i \in places THEN Cardinality({j \in places : j <= i - 1}) + 1
                ELSE Cardinality({j \in places : j <= i - 1})
           /\ Cardinality({j \in places : j <= n}) = Cardinality(places)
           /\ Cardinality(places) \in Nat
<1> DEFINE upto(i) == {j \in places : j <= i}
<1>1. IsFiniteSet(places) /\ Cardinality(places) \in Nat
    <2>1. IsFiniteSet(1 .. n)
        BY FS_Interval
    <2> QED
        BY <2>1, FS_Subset, FS_CardinalityType
<1>2. \A i \in 0 .. n : IsFiniteSet(upto(i)) /\ Cardinality(upto(i)) \in Nat
    <2>1. TAKE i \in 0 .. n
    <2>2. upto(i) \in SUBSET places
        OBVIOUS
    <2> HIDE DEF upto
    <2> QED
        BY <1>1, <2>2, FS_Subset, FS_CardinalityType
<1>9. \A j \in places : j \in Nat /\ 1 <= j /\ j <= n
    OBVIOUS
<1>3. upto(0) = {} /\ upto(n) = places
    <2>1. \A j \in places : j <= n /\ ~(j <= 0)
        BY <1>9
    <2> QED
        BY <2>1
<1>4. ASSUME NEW i \in 1 .. n
      PROVE  Cardinality(upto(i)) =
                IF i \in places THEN Cardinality(upto(i - 1)) + 1 ELSE Cardinality(upto(i - 1))
    <2>1. i - 1 \in 0 .. n /\ i \notin upto(i - 1)
        OBVIOUS
    <2>2. upto(i) = IF i \in places THEN upto(i - 1) \cup {i} ELSE upto(i - 1)
        <3>1. \A j \in places : j <= i <=> j <= i - 1 \/ j = i
            BY <1>9
        <3> QED
            BY <3>1
    <2> HIDE DEF upto
    <2>3. IsFiniteSet(upto(i - 1))
        BY <1>2, <2>1
    <2> QED
        BY <2>1, <2>2, <2>3, FS_AddElement
<1>5. Cardinality(upto(0)) = 0
    BY <1>3, FS_EmptySet
<1> QED
    BY <1>1, <1>2, <1>3, <1>4, <1>5

\* There is one place of each rank.
LEMMA PlaceFacts ==
    ASSUME NEW n \in Nat, NEW places \in SUBSET (1 .. n)
    PROVE  /\ Cardinality(places) \in Nat
           /\ \A k \in 1 .. Cardinality(places) : PlaceOf(places, k) \in places
           /\ \A k, l \in 1 .. Cardinality(places) :
                PlaceOf(places, k) = PlaceOf(places, l) => k = l
           /\ \A i \in places : \E k \in 1 .. Cardinality(places) : PlaceOf(places, k) = i
<1> DEFINE rank(i) == Cardinality({j \in places : j <= i})
           m == Cardinality(places)
<1>1. /\ \A i \in 0 .. n : rank(i) \in Nat
      /\ rank(0) = 0 /\ rank(n) = m /\ m \in Nat
      /\ \A i \in 1 .. n : rank(i) = IF i \in places THEN rank(i - 1) + 1 ELSE rank(i - 1)
    BY RankFacts
<1>0. \A j \in places : j \in Nat /\ 1 <= j /\ j <= n
    OBVIOUS
<1>7. IsFiniteSet(places)
    <2>1. IsFiniteSet(1 .. n)
        BY FS_Interval
    <2> QED
        BY <2>1, FS_Subset
<1>2. ASSUME NEW i \in places, NEW l \in places, i < l
      PROVE  rank(i) < rank(l)
    <2> DEFINE low == {j \in places : j <= i}
               high == {j \in places : j <= l}
    <2>1. low \cup {l} \in SUBSET high /\ l \notin low
        <3>1. \A j \in places : j <= i => j <= l
            BY <1>0, <1>2
        <3>2. l \in Nat /\ i \in Nat /\ ~(l <= i) /\ l <= l
            BY <1>0, <1>2
        <3> QED
            BY <3>1, <3>2
    <2>7. low \in SUBSET places /\ high \in SUBSET places
        OBVIOUS
    <2> HIDE DEF low, high
    <2>2. IsFiniteSet(low) /\ IsFiniteSet(high)
        BY <1>7, <2>7, FS_Subset
    <2>3. Cardinality(low \cup {l}) = Cardinality(low) + 1
        BY <2>1, <2>2, FS_AddElement
    <2>4. Cardinality(low \cup {l}) <= Cardinality(high)
        BY <2>1, <2>2, FS_Subset
    <2>5. Cardinality(low) \in Nat /\ Cardinality(high) \in Nat
        BY <2>2, FS_CardinalityType
    <2>6. Cardinality(low) < Cardinality(high)
        BY <2>3, <2>4, <2>5
    <2> QED
        BY <2>6 DEF low, high
<1>3. PlaceOf(places, 1) = PlaceOf(places, 1) /\ \A k : PlaceOf(places, k) = CHOOSE i \in places : rank(i) = k
    BY DEF PlaceOf
<1> HIDE DEF rank, m
<1>4. ASSUME NEW k \in 1 .. m
      PROVE  \E i \in places : rank(i) = k
    <2> DEFINE Enough == {i \in 0 .. n : rank(i) >= k}
    <2>1. n \in Enough
        BY <1>1
    <2>2. PICK i \in Enough : \A j \in Enough : i <= j
        <3>1. Enough \in SUBSET Nat /\ Enough # {}
            BY <2>1
        <3> HIDE DEF Enough
        <3> QED
            BY <3>1, LeastOf
    <2>3. i # 0
        BY <1>1
    <2>4. i - 1 \in 0 .. n /\ i - 1 \notin Enough
        BY <2>2, <2>3
    <2>5. rank(i - 1) < k
        BY <1>1, <2>4
    <2>6. i \in 1 .. n
        BY <2>3
    <2>7. rank(i) = k /\ i \in places
        BY <1>1, <2>4, <2>5, <2>6
    <2> QED
        BY <2>7
<1>5. \A k \in 1 .. m : PlaceOf(places, k) \in places /\ rank(PlaceOf(places, k)) = k
    BY <1>3, <1>4
<1>6. ASSUME NEW i \in places
      PROVE  rank(i) \in 1 .. m /\ PlaceOf(places, rank(i)) = i
    <2>1. i \in 1 .. n /\ i - 1 \in 0 .. n
        OBVIOUS
    <2>2. rank(i) >= 1
        BY <1>1, <2>1
    <2>3. rank(i) <= m
        <3> DEFINE low == {j \in places : j <= i}
        <3>1. low \in SUBSET places
            OBVIOUS
        <3> HIDE DEF low
        <3>3. Cardinality(low) <= Cardinality(places)
            BY <1>7, <3>1, FS_Subset
        <3> QED
            BY <3>3 DEF low, rank, m
    <2>4. rank(i) \in 1 .. m
        BY <1>1, <2>1, <2>2, <2>3
    <2>5. PlaceOf(places, rank(i)) \in places /\ rank(PlaceOf(places, rank(i))) = rank(i)
        BY <1>5, <2>4
    <2>6. \A l \in places : rank(l) = rank(i) => l = i
        <3>1. SUFFICES ASSUME NEW l \in places, rank(l) = rank(i), l # i PROVE FALSE
            OBVIOUS
        <3>2. rank(i) \in Nat /\ l \in 1 .. n
            BY <1>1, <2>1
        <3>3. CASE l < i
            <4>1. rank(l) < rank(i)
                BY <1>2, <3>3
            <4> QED
                BY <4>1, <3>1, <3>2
        <3>4. CASE i < l
            <4>1. rank(i) < rank(l)
                BY <1>2, <3>4
            <4> QED
                BY <4>1, <3>1, <3>2
        <3> QED
            BY <2>1, <3>1, <3>2, <3>3, <3>4
    <2> QED
        BY <2>4, <2>5, <2>6
<1> QED
    BY <1>1, <1>5, <1>6 DEF m

\* What is kept of a list.
LEMMA KeptFacts ==
    ASSUME NEW n \in Nat, NEW places \in SUBSET (1 .. n), NEW list
    PROVE  /\ IsSeq(Kept(list, places)) /\ Len(Kept(list, places)) = Cardinality(places)
           /\ DOMAIN Kept(list, places) = 1 .. Cardinality(places)
           /\ \A k \in DOMAIN Kept(list, places) :
                /\ PlaceOf(places, k) \in places
                /\ Kept(list, places)[k] = list[PlaceOf(places, k)]
           /\ \A k, l \in DOMAIN Kept(list, places) :
                PlaceOf(places, k) = PlaceOf(places, l) => k = l
           /\ \A i \in places : \E k \in DOMAIN Kept(list, places) : PlaceOf(places, k) = i
<1> DEFINE m == Cardinality(places)
<1>1. Kept(list, places) = [k \in 1 .. m |-> list[PlaceOf(places, k)]]
    BY DEF Kept, PlaceOf
<1>2. m \in Nat
    BY PlaceFacts
<1> HIDE DEF m
<1>3. Kept(list, places) = [k \in 1 .. m |-> Kept(list, places)[k]]
    BY <1>1
<1>4. /\ IsSeq(Kept(list, places)) /\ Len(Kept(list, places)) = m
      /\ DOMAIN Kept(list, places) = 1 .. m
    BY <1>2, <1>3, MadeSeq
<1> QED
    BY <1>1, <1>4, PlaceFacts, ZenonT(60) DEF m

\* r is what is left of s when some of its elements are taken out.
Some(r, s) ==
    \E f \in [DOMAIN r -> DOMAIN s] :
        /\ \A k \in DOMAIN r : r[k] = s[f[k]]
        /\ \A k, l \in DOMAIN r : f[k] = f[l] => k = l

LEMMA KeptIsSome ==
    ASSUME NEW s, IsSeq(s), NEW places \in SUBSET DOMAIN s
    PROVE  IsSeq(Kept(s, places)) /\ Some(Kept(s, places), s)
<1>1. Len(s) \in Nat /\ DOMAIN s = 1 .. Len(s)
    BY SeqFacts
<1> DEFINE f == [k \in DOMAIN Kept(s, places) |-> PlaceOf(places, k)]
<1>2. /\ IsSeq(Kept(s, places))
      /\ \A k \in DOMAIN Kept(s, places) :
           PlaceOf(places, k) \in places /\ Kept(s, places)[k] = s[PlaceOf(places, k)]
      /\ \A k, l \in DOMAIN Kept(s, places) : PlaceOf(places, k) = PlaceOf(places, l) => k = l
    BY <1>1, KeptFacts
<1>3. f \in [DOMAIN Kept(s, places) -> DOMAIN s]
    BY <1>2
<1> QED
    BY <1>2, <1>3 DEF Some

LEMMA TailIsSome ==
    ASSUME NEW s, IsSeq(s), s # <<>>
    PROVE  Some(Tail(s), s)
<1>1. /\ Len(s) \in Nat /\ DOMAIN s = 1 .. Len(s) /\ DOMAIN Tail(s) = 1 .. Len(s) - 1
      /\ \A k \in 1 .. Len(s) - 1 : Tail(s)[k] = s[k + 1]
    BY SeqFacts, TailFacts
<1> DEFINE f == [k \in DOMAIN Tail(s) |-> k + 1]
<1>2. f \in [DOMAIN Tail(s) -> DOMAIN s]
    BY <1>1
<1>3. \A k, l \in DOMAIN Tail(s) : f[k] = f[l] => k = l
    BY <1>1
<1>4. \A k \in DOMAIN Tail(s) : Tail(s)[k] = s[f[k]]
    BY <1>1
<1> QED
    BY <1>2, <1>3, <1>4 DEF Some

-----------------------------------------------------------------------------
(* The inductive invariant                                                  *)

Fields == {"tasks", "active", "connState", "maintaining", "inCharge", "posted", "queue",
           "killed", "asserted", "commands"}
TaskFields == {"mailbox", "obtain", "isRunning", "shouldExit", "aborted", "finished", "dead",
               "waiting", "depending", "busy", "arrivals", "successor"}
Shape(c) == DOMAIN c = Fields /\ c = [f \in Fields |-> c[f]]
TaskShape(t) == DOMAIN t = TaskFields /\ t = [f \in TaskFields |-> t[f]]

Tasked(s) ==
    /\ IsSeq(s)
    /\ \A k \in DOMAIN s : TaskShape(s[k]) /\ IsSeq(s[k].waiting) /\ s[k].depending \in Nat

Typed(c) ==
    /\ Shape(c) /\ Tasked(c.tasks) /\ IsSeq(c.active) /\ IsSeq(c.posted) /\ IsSeq(c.queue)
    /\ c.inCharge = [m \in Mailboxes |-> c.inCharge[m]]

Syncing(t) == t.obtain \in {"SELECTING", "SYNCING"}
Waits(t) == t.obtain = "WAIT_FOR_CONN"
Runs(t) == t.isRunning = "RUNNING"

\* What a pair of tasks can be.
Staged(t) ==
    /\ ~Obtained(t) => Waits(t) \/ Syncing(t)
    /\ ~Obtained(t) => ~t.finished /\ ~t.dead /\ ~t.aborted /\ t.isRunning = "NOT_YET"
    /\ Obtained(t) /\ ~t.finished => Runs(t) \/ t.aborted
    /\ t.aborted => t.isRunning = "NOT_ANYMORE"
    /\ t.dead => t.isRunning = "NOT_YET"
    /\ t.successor # NoTask => t.aborted

Stages(c) == \A k \in DOMAIN c.tasks : Staged(c.tasks[k])

HasKeep(active, k) == \E i \in DOMAIN active : active[i].kind = "keep" /\ active[i].task = k
Called(posted, k) == \E i \in DOMAIN posted : posted[i].event # "destroyed" /\ posted[i].of = k
InCharge(inCharge, k) == \E m \in Mailboxes : inCharge[m] = k

\* The keeper may still be asked to do something.
Engaged(c, k) ==
    ~c.tasks[k].finished \/ HasKeep(c.active, k) \/ Called(c.posted, k) \/ InCharge(c.inCharge, k)

\* Who synchronizes or runs has the connection, and will open its mailbox or has done so.
Maintaining(c) ==
    /\ c.maintaining = NoTask \/ c.maintaining \in DOMAIN c.tasks
    /\ c.maintaining # NoTask /\ Obtained(c.tasks[c.maintaining]) => Runs(c.tasks[c.maintaining])
    /\ \A k \in DOMAIN c.tasks :
         Syncing(c.tasks[k]) \/ (Runs(c.tasks[k]) /\ Engaged(c, k)) => c.maintaining = k
    /\ \A m \in Mailboxes : c.inCharge[m] = NoTask \/ c.inCharge[m] \in DOMAIN c.tasks

\* The active tasks; that which opens the mailbox of x is over.
Active(c, x) ==
    \A i \in DOMAIN c.active : LET e == c.active[i] IN
        /\ e.task \in DOMAIN c.tasks
        /\ e.kind = "keep" => c.tasks[e.task].isRunning # "NOT_YET"
        /\ e.kind = "obtain" => IF e.task = x THEN Obtained(c.tasks[x]) ELSE Syncing(c.tasks[e.task])

Connects(p) == p.event = "slotPerformConnection"

PostedFor(c, p) ==
    /\ p.event = "destroyed" /\ p.of.kind = "keep" =>
         /\ p.of.task \in DOMAIN c.tasks /\ c.tasks[p.of.task].finished
         /\ ~HasKeep(c.active, p.of.task)
    /\ p.event \in {"terminate", "slotActivateTasks"} => p.of \in DOMAIN c.tasks
    /\ p.event = "terminate" => Runs(c.tasks[p.of]) \/ c.tasks[p.of].aborted
    /\ Connects(p) => /\ p.of \in DOMAIN c.tasks /\ c.maintaining = p.of
                      /\ Waits(c.tasks[p.of])

Posted(c) ==
    /\ \A i \in DOMAIN c.posted : PostedFor(c, c.posted[i])
    /\ \A i, j \in DOMAIN c.posted : Connects(c.posted[i]) /\ Connects(c.posted[j]) => i = j

\* Whoever waits for k has not had the connection.
Patient(c, k) ==
    \A a \in DOMAIN c.tasks[k].waiting : LET w == c.tasks[k].waiting[a] IN
        w # c.maintaining /\ (Waits(c.tasks[w]) \/ Obtained(c.tasks[w]))

Waiting(c) ==
    /\ \A k \in DOMAIN c.tasks : \A a \in DOMAIN c.tasks[k].waiting :
          c.tasks[k].waiting[a] \in DOMAIN c.tasks
    /\ \A k \in DOMAIN c.tasks : ~c.tasks[k].aborted => Patient(c, k)
    /\ \A j, k \in DOMAIN c.tasks : ~c.tasks[j].aborted /\ ~c.tasks[k].aborted =>
          \A a \in DOMAIN c.tasks[j].waiting, b \in DOMAIN c.tasks[k].waiting :
             c.tasks[j].waiting[a] = c.tasks[k].waiting[b] => j = k /\ a = b

\* A command is on its way to the server, or its answer on the way back.
In(q, kind, k) == \E i \in DOMAIN q : q[i].kind = kind /\ q[i].task = k
AnswerIn(tc, kind, k) == \E i \in DOMAIN tc : Tagged(tc[i]) /\ tc[i].of = kind /\ tc[i].task = k
Token(q, tc, kind, k) == In(q, kind, k) \/ AnswerIn(tc, kind, k)

Uses(c, k) == c.maintaining = k /\ (c.tasks[k].obtain = "SYNCING" \/ Runs(c.tasks[k]))

Selection(tc, i) == Tagged(tc[i]) /\ tc[i].of = "SELECT"

\* SELECT is the last of the commands q on their way to the server.
Asking(c, q, tc, sel) ==
    \A i \in DOMAIN q :
        /\ q[i].task \in DOMAIN c.tasks
        /\ q[i].kind # "SELECT" => c.tasks[q[i].task].mailbox = sel
        /\ q[i].kind = "SELECT" =>
             /\ c.tasks[q[i].task].obtain = "SELECTING" /\ i = Len(q)
             /\ \A j \in DOMAIN tc : ~Selection(tc, j)

\* While its answer is on the way nobody says anything.
Answering(c, q, tc, sel) ==
    \A i \in DOMAIN tc :
        /\ Tagged(tc[i]) => tc[i].task \in DOMAIN c.tasks
        /\ Selection(tc, i) =>
             /\ c.tasks[tc[i].task].obtain = "SELECTING"
             /\ tc[i].kind = "OK" => c.tasks[tc[i].task].mailbox = sel
             /\ q = <<>> /\ \A j \in DOMAIN tc : Tagged(tc[j]) => j <= i

\* Who uses the mailbox that is selected, and what is under way for whom.
Using(c, q, tc, sel) ==
    \A k \in DOMAIN c.tasks :
        /\ Token(q, tc, "UID SEARCH", k) => c.tasks[k].obtain \notin {"WAIT_FOR_CONN", "SELECTING"}
        /\ Token(q, tc, "UID FETCH", k) => Patient(c, k)
        /\ Uses(c, k) =>
             /\ c.tasks[k].mailbox = sel
             /\ \A j \in DOMAIN c.tasks : Token(q, tc, "UID FETCH", j) => j = k

Wired(c, q, tc, sel) == Asking(c, q, tc, sel) /\ Answering(c, q, tc, sel) /\ Using(c, q, tc, sel)

Core(c, x, q, tc, sel) ==
    Stages(c) /\ Maintaining(c) /\ Active(c, x) /\ Posted(c) /\ Waiting(c) /\ Wired(c, q, tc, sel)

Fine(c, x, ts, tc, sel) == Typed(c) /\ Core(c, x, ts \o c.queue, tc, sel)

\* What there can be among the responses
Spoken(tc) == \A i \in DOMAIN tc : IsData(tc[i]) \/ Tagged(tc[i]) \/ tc[i].kind = "CLOSED"

SwitchingInv ==
    /\ IsSeq(toServer) /\ IsSeq(toClient) /\ Spoken(toClient)
    /\ server = [kind |-> server.kind, selected |-> server.selected, refused |-> server.refused,
                 announced |-> server.announced]
    /\ Sound => Fine(client, NoTask, toServer, toClient, server.selected)

-----------------------------------------------------------------------------
(* What the invariant does not depend on, and what it allows to be added    *)

LikeTask(t, u) ==
    /\ u.mailbox = t.mailbox /\ u.obtain = t.obtain /\ u.isRunning = t.isRunning
    /\ u.aborted = t.aborted /\ u.finished = t.finished /\ u.dead = t.dead
    /\ u.waiting = t.waiting /\ u.successor = t.successor

LikeTasks(c, d) ==
    DOMAIN d.tasks = DOMAIN c.tasks /\ \A k \in DOMAIN c.tasks : LikeTask(c.tasks[k], d.tasks[k])

Alike(c, d) == LikeTasks(c, d) /\ d.maintaining = c.maintaining /\ d.inCharge = c.inCharge

\* r is s and perhaps more.
More(s, r) == \A i \in DOMAIN s : i \in DOMAIN r /\ r[i] = s[i]
New(s, r) == DOMAIN r \ DOMAIN s

LEMMA TasksCounted ==
    ASSUME NEW c, Typed(c)
    PROVE  /\ Len(c.tasks) \in Nat /\ DOMAIN c.tasks = 1 .. Len(c.tasks) /\ NoTask \notin DOMAIN c.tasks
           /\ Len(c.posted) \in Nat /\ DOMAIN c.posted = 1 .. Len(c.posted)
           /\ Len(c.active) \in Nat /\ DOMAIN c.active = 1 .. Len(c.active)
           /\ Len(c.queue) \in Nat /\ DOMAIN c.queue = 1 .. Len(c.queue)
BY SeqFacts DEF Typed, Tasked, NoTask

LEMMA AlikeStages ==
    ASSUME NEW c, NEW d, LikeTasks(c, d), Stages(c)
    PROVE  Stages(d)
BY DEF LikeTasks, LikeTask, Stages, Staged, Obtained, Waits, Syncing, Runs

LEMMA AlikeWaiting ==
    ASSUME NEW c, NEW d, Alike(c, d), Waiting(c)
    PROVE  Waiting(d) /\ \A k \in DOMAIN c.tasks : Patient(c, k) => Patient(d, k)
<1>1. \A k \in DOMAIN c.tasks : /\ d.tasks[k].waiting = c.tasks[k].waiting
                                /\ d.tasks[k].aborted = c.tasks[k].aborted
                                /\ Waits(d.tasks[k]) = Waits(c.tasks[k])
                                /\ Obtained(d.tasks[k]) = Obtained(c.tasks[k])
    BY DEF Alike, LikeTasks, LikeTask, Waits, Obtained
<1>2. DOMAIN d.tasks = DOMAIN c.tasks /\ d.maintaining = c.maintaining
    BY DEF Alike, LikeTasks
<1>3. \A k \in DOMAIN c.tasks : \A a \in DOMAIN c.tasks[k].waiting :
          c.tasks[k].waiting[a] \in DOMAIN c.tasks
    BY DEF Waiting
<1>4. \A k \in DOMAIN c.tasks : Patient(c, k) => Patient(d, k)
    BY <1>1, <1>2, <1>3 DEF Patient
<1>5. \A k \in DOMAIN d.tasks : \A a \in DOMAIN d.tasks[k].waiting :
          d.tasks[k].waiting[a] \in DOMAIN d.tasks
    BY <1>1, <1>2, <1>3
<1>6. \A j, k \in DOMAIN d.tasks : ~d.tasks[j].aborted /\ ~d.tasks[k].aborted =>
          \A a \in DOMAIN d.tasks[j].waiting, b \in DOMAIN d.tasks[k].waiting :
             d.tasks[j].waiting[a] = d.tasks[k].waiting[b] => j = k /\ a = b
    BY <1>1, <1>2 DEF Waiting
<1> QED
    BY <1>1, <1>2, <1>4, <1>5, <1>6 DEF Waiting

\* Whoever has the connection says commands, and makes tasks of the user active.
Speaking(c, d, k) ==
    /\ More(c.posted, d.posted)
    /\ \A i \in New(c.posted, d.posted) :
         d.posted[i].event = "executeCommands" /\ d.posted[i].of = NoTask
    /\ \A i \in DOMAIN c.active : /\ i \in DOMAIN d.active /\ d.active[i].kind = c.active[i].kind
                                  /\ d.active[i].task = c.active[i].task
    /\ \A i \in New(c.active, d.active) : d.active[i].kind = "command" /\ d.active[i].task = k

Said(q, r, k) ==
    /\ More(q, r)
    /\ \A i \in New(q, r) : r[i].kind # "SELECT" /\ r[i].task = k

LEMMA Speaks ==
    ASSUME NEW c, NEW d, NEW x, NEW q, NEW r, NEW tc, NEW sel, NEW k,
           NoTask \notin DOMAIN c.tasks, Core(c, x, q, tc, sel), Alike(c, d),
           k \in DOMAIN c.tasks, Speaking(c, d, k), Said(q, r, k), r = q \/ Uses(c, k)
    PROVE  Core(d, x, r, tc, sel)
<1>1. /\ DOMAIN d.tasks = DOMAIN c.tasks /\ d.maintaining = c.maintaining /\ d.inCharge = c.inCharge
      /\ \A j \in DOMAIN c.tasks :
           /\ d.tasks[j].obtain = c.tasks[j].obtain /\ d.tasks[j].mailbox = c.tasks[j].mailbox
           /\ d.tasks[j].aborted = c.tasks[j].aborted /\ d.tasks[j].finished = c.tasks[j].finished
           /\ d.tasks[j].isRunning = c.tasks[j].isRunning /\ Runs(d.tasks[j]) = Runs(c.tasks[j])
           /\ Syncing(d.tasks[j]) = Syncing(c.tasks[j]) /\ Waits(d.tasks[j]) = Waits(c.tasks[j])
           /\ Obtained(d.tasks[j]) = Obtained(c.tasks[j])
    BY DEF Alike, LikeTasks, LikeTask, Runs, Syncing, Waits, Obtained
<1>2. /\ \A j : HasKeep(d.active, j) => HasKeep(c.active, j)
      /\ \A j \in DOMAIN c.tasks : Called(d.posted, j) => Called(c.posted, j)
    BY DEF Speaking, More, New, HasKeep, Called
<1>3. Stages(d) /\ Waiting(d) /\ \A j \in DOMAIN c.tasks : Patient(c, j) => Patient(d, j)
    BY AlikeStages, AlikeWaiting DEF Core, Alike
<1>4. Maintaining(d)
    BY <1>1, <1>2 DEF Core, Maintaining, Engaged
<1>5. Active(d, x)
    BY <1>1 DEF Core, Active, Speaking, New
<1>6. Posted(d)
    <2>1. \A i \in DOMAIN c.posted : PostedFor(d, c.posted[i])
        BY <1>1, <1>2 DEF Core, Posted, PostedFor
    <2>2. \A i \in DOMAIN d.posted :
            (i \in DOMAIN c.posted /\ d.posted[i] = c.posted[i]) \/ d.posted[i].event = "executeCommands"
        BY DEF Speaking, More, New
    <2>3. \A i \in DOMAIN d.posted : PostedFor(d, d.posted[i])
        BY <2>1, <2>2 DEF PostedFor, Connects
    <2>4. \A i, j \in DOMAIN d.posted : Connects(d.posted[i]) /\ Connects(d.posted[j]) => i = j
        BY <2>2 DEF Core, Posted, Connects
    <2> QED
        BY <2>3, <2>4 DEF Posted
<1>7. Wired(d, r, tc, sel)
    <2>0. CASE r = q
        <3>1. Asking(d, q, tc, sel)
            BY <1>1 DEF Core, Wired, Asking
        <3>3. Answering(d, q, tc, sel)
            BY <1>1 DEF Core, Wired, Answering, Selection
        <3>2. Using(d, q, tc, sel)
            BY <1>1, <1>3 DEF Core, Wired, Using, Uses
        <3> QED
            BY <2>0, <3>1, <3>2, <3>3 DEF Wired
    <2>1. CASE Uses(c, k)
        <3>1. /\ c.tasks[k].obtain \notin {"WAIT_FOR_CONN", "SELECTING"} /\ c.tasks[k].mailbox = sel
              /\ c.maintaining = k /\ ~c.tasks[k].aborted /\ Patient(c, k)
            <4>1. Staged(c.tasks[k])
                BY DEF Core, Stages
            <4> QED
                BY <2>1, <4>1 DEF Core, Waiting, Wired, Using, Uses, Staged, Obtained, Runs
        <3>2. \A j \in DOMAIN c.tasks : c.tasks[j].obtain # "SELECTING"
            BY <3>1 DEF Core, Maintaining, Syncing
        <3>3. \A i \in DOMAIN r : (i \in DOMAIN q /\ r[i] = q[i]) \/ (r[i].kind # "SELECT" /\ r[i].task = k)
            BY DEF Said, More, New
        <3>4. \A i \in DOMAIN r : r[i].kind # "SELECT"
            BY <3>2, <3>3 DEF Core, Wired, Asking
        <3>5. \A i \in DOMAIN tc : ~Selection(tc, i)
            BY <3>2 DEF Core, Wired, Answering, Selection
        <3>6. Asking(d, r, tc, sel)
            BY <1>1, <3>1, <3>3, <3>4 DEF Core, Wired, Asking
        <3>7. Answering(d, r, tc, sel)
            BY <1>1, <3>5 DEF Core, Wired, Answering
        <3>8. \A kind, j : Token(r, tc, kind, j) => Token(q, tc, kind, j) \/ j = k
            BY <3>3 DEF Token, In
        <3>9. Using(d, r, tc, sel)
            <4>1. SUFFICES ASSUME NEW j \in DOMAIN c.tasks
                  PROVE  /\ Token(r, tc, "UID SEARCH", j) => d.tasks[j].obtain \notin {"WAIT_FOR_CONN", "SELECTING"}
                         /\ Token(r, tc, "UID FETCH", j) => Patient(d, j)
                         /\ Uses(d, j) => /\ d.tasks[j].mailbox = sel
                                          /\ \A l \in DOMAIN c.tasks : Token(r, tc, "UID FETCH", l) => l = j
                BY <1>1 DEF Using
            <4>2. Uses(d, j) => Uses(c, j) /\ j = k
                BY <1>1, <3>1 DEF Uses
            <4> QED
                BY <1>1, <1>3, <3>1, <3>8, <4>2, ZenonT(60) DEF Core, Wired, Using
        <3> QED
            BY <3>6, <3>7, <3>9 DEF Wired
    <2> QED
        BY <2>0, <2>1
<1> QED
    BY <1>3, <1>4, <1>5, <1>6, <1>7 DEF Core

\* An event is posted for a keeper that has the connection, or does not run.
LEMMA Posts ==
    ASSUME NEW c, NEW d, NEW x, NEW q, NEW tc, NEW sel, NEW p,
           Typed(c), Core(c, x, q, tc, sel), d.tasks = c.tasks, d.active = c.active,
           d.maintaining = c.maintaining, d.inCharge = c.inCharge, d.posted = Append(c.posted, p),
           PostedFor(c, p), ~Connects(p), p.event # "destroyed",
           p.of \in DOMAIN c.tasks /\ Runs(c.tasks[p.of]) => c.maintaining = p.of
    PROVE  Core(d, x, q, tc, sel)
<1>1. /\ Len(c.posted) \in Nat /\ DOMAIN c.posted = 1 .. Len(c.posted)
      /\ \A i \in DOMAIN c.posted : d.posted[i] = c.posted[i]
      /\ DOMAIN d.posted = 1 .. Len(c.posted) + 1 /\ d.posted[Len(c.posted) + 1] = p
    BY TasksCounted, AppendFacts DEF Typed
<1>2. \A i \in DOMAIN d.posted : (i \in DOMAIN c.posted /\ d.posted[i] = c.posted[i]) \/ d.posted[i] = p
    BY <1>1
<1> HIDE <1>1
<1>3. \A k \in DOMAIN c.tasks : Called(d.posted, k) => Called(c.posted, k) \/ k = p.of
    BY <1>2 DEF Called
<1>4. Maintaining(d)
    BY <1>3 DEF Core, Maintaining, Engaged
<1>5. Posted(d)
    <2>1. \A i \in DOMAIN d.posted : PostedFor(c, d.posted[i])
        BY <1>2 DEF Core, Posted
    <2>2. \A i \in DOMAIN d.posted : PostedFor(d, d.posted[i])
        BY <2>1 DEF PostedFor
    <2> QED
        BY <1>2, <2>2 DEF Core, Posted
<1>6. Stages(d) /\ Active(d, x) /\ Waiting(d) /\ \A k : Patient(d, k) <=> Patient(c, k)
    BY DEF Core, Stages, Active, Waiting, Patient
<1>7. Wired(d, q, tc, sel)
    BY <1>6 DEF Core, Wired, Asking, Answering, Using, Uses
<1> QED
    BY <1>4, <1>5, <1>6, <1>7 DEF Core

\* An event is dispatched.
LEMMA Dispatched ==
    ASSUME NEW c, NEW d, NEW x, NEW q, NEW tc, NEW sel, Core(c, x, q, tc, sel),
           d.tasks = c.tasks, d.active = c.active, d.maintaining = c.maintaining,
           d.inCharge = c.inCharge, Some(d.posted, c.posted)
    PROVE  Core(d, x, q, tc, sel)
<1>1. PICK f \in [DOMAIN d.posted -> DOMAIN c.posted] :
          /\ \A k \in DOMAIN d.posted : d.posted[k] = c.posted[f[k]]
          /\ \A k, l \in DOMAIN d.posted : f[k] = f[l] => k = l
    BY DEF Some
<1>2. \A k : Called(d.posted, k) => Called(c.posted, k)
    BY <1>1 DEF Called
<1>3. Maintaining(d)
    BY <1>2 DEF Core, Maintaining, Engaged
<1>4. Posted(d)
    <2>1. \A i \in DOMAIN d.posted : PostedFor(d, d.posted[i])
        BY <1>1, SMTT(30) DEF Core, Posted, PostedFor
    <2>2. ASSUME NEW i \in DOMAIN d.posted, NEW j \in DOMAIN d.posted,
                 Connects(d.posted[i]), Connects(d.posted[j])
          PROVE  i = j
        <3>1. f[i] = f[j]
            BY <1>1, <2>2 DEF Core, Posted
        <3> QED
            BY <1>1, <3>1
    <2> QED
        BY <2>1, <2>2 DEF Posted
<1>6. Stages(d) /\ Active(d, x) /\ Waiting(d) /\ \A k : Patient(d, k) <=> Patient(c, k)
    BY DEF Core, Stages, Active, Waiting, Patient
<1>7. Wired(d, q, tc, sel)
    BY <1>6 DEF Core, Wired, Asking, Answering, Using, Uses
<1> QED
    BY <1>3, <1>4, <1>6, <1>7 DEF Core

Without(inCharge, ks) == [m \in Mailboxes |-> IF inCharge[m] \in ks THEN NoTask ELSE inCharge[m]]

\* A keeper that is over is forgotten.
LEMMA Forgotten ==
    ASSUME NEW c, NEW d, NEW x, NEW q, NEW tc, NEW sel, NEW k,
           NoTask \notin DOMAIN c.tasks, Core(c, x, q, tc, sel),
           k \in DOMAIN c.tasks, c.tasks[k].finished, ~HasKeep(c.active, k),
           d.tasks = c.tasks, d.active = c.active, Some(d.posted, c.posted), ~Called(d.posted, k),
           d.inCharge = Without(c.inCharge, {k}),
           d.maintaining = IF c.maintaining = k THEN NoTask ELSE c.maintaining
    PROVE  Core(d, x, q, tc, sel)
<1>1. PICK f \in [DOMAIN d.posted -> DOMAIN c.posted] :
          /\ \A i \in DOMAIN d.posted : d.posted[i] = c.posted[f[i]]
          /\ \A i, j \in DOMAIN d.posted : f[i] = f[j] => i = j
    BY DEF Some
<1>2. \A j : Called(d.posted, j) => Called(c.posted, j)
    BY <1>1 DEF Called
<1>3. Obtained(c.tasks[k])
    BY DEF Core, Stages, Staged
<1>4. \A j \in DOMAIN c.tasks : InCharge(d.inCharge, j) => InCharge(c.inCharge, j) /\ j # k
    BY DEF InCharge, Without
<1>5. \A j \in DOMAIN c.tasks : Engaged(d, j) => Engaged(c, j) /\ j # k
    BY <1>2, <1>4 DEF Engaged
<1>6. Maintaining(d)
    <2>1. ~Syncing(c.tasks[k])
        BY <1>3 DEF Syncing, Obtained
    <2>2. \A m \in Mailboxes : d.inCharge[m] = NoTask \/ d.inCharge[m] \in DOMAIN d.tasks
        BY DEF Core, Maintaining, Without
    <2> QED
        BY <1>5, <2>1, <2>2 DEF Core, Maintaining
<1>7. Posted(d)
    <2>1. ~Waits(c.tasks[k])
        BY <1>3 DEF Waits, Obtained
    <2>2. \A i \in DOMAIN d.posted : PostedFor(d, d.posted[i])
        BY <1>1, <2>1, SMTT(30) DEF Core, Posted, PostedFor
    <2>3. ASSUME NEW i \in DOMAIN d.posted, NEW j \in DOMAIN d.posted,
                 Connects(d.posted[i]), Connects(d.posted[j])
          PROVE  i = j
        <3>1. f[i] = f[j]
            BY <1>1, <2>3 DEF Core, Posted
        <3> QED
            BY <1>1, <3>1
    <2> QED
        BY <2>2, <2>3 DEF Posted
<1>8. Stages(d) /\ Active(d, x)
    BY DEF Core, Stages, Active
<1>9. Waiting(d) /\ \A j \in DOMAIN c.tasks : Patient(c, j) => Patient(d, j)
    <2>1. \A j \in DOMAIN c.tasks : \A a \in DOMAIN c.tasks[j].waiting :
              c.tasks[j].waiting[a] \in DOMAIN c.tasks
        BY DEF Core, Waiting
    <2>2. \A j \in DOMAIN c.tasks : Patient(c, j) => Patient(d, j)
        BY <2>1 DEF Patient
    <2> QED
        BY <2>2 DEF Core, Waiting
<1>10. Wired(d, q, tc, sel)
    <2>1. Asking(d, q, tc, sel) /\ Answering(d, q, tc, sel)
        BY DEF Core, Wired, Asking, Answering
    <2>2. \A j \in DOMAIN c.tasks : Uses(d, j) => Uses(c, j)
        BY DEF Uses
    <2>3. Using(d, q, tc, sel)
        BY <1>9, <2>2 DEF Core, Wired, Using
    <2> QED
        BY <2>1, <2>3 DEF Wired
<1> QED
    BY <1>6, <1>7, <1>8, <1>9, <1>10 DEF Core

-----------------------------------------------------------------------------
(* How tasks end                                                            *)

\* Who has not had the connection
Idle(c) == {w \in DOMAIN c.tasks : Waits(c.tasks[w]) /\ w # c.maintaining}

\* Only those die with k that wait for the connection.
LEMMA DoomedWait ==
    ASSUME NEW c, NEW k \in DOMAIN c.tasks, Patient(c, k),
           \A j \in DOMAIN c.tasks : \A a \in DOMAIN c.tasks[j].waiting :
               c.tasks[j].waiting[a] \in DOMAIN c.tasks,
           \A j \in DOMAIN c.tasks : Waits(c.tasks[j]) => Patient(c, j)
    PROVE  Doomed(c, k) \subseteq Idle(c)
<1>1. \A j \in DOMAIN c.tasks : Patient(c, j) => WaitFor(c, j) \subseteq Idle(c)
    BY DEF WaitFor, ToSet, Patient, Idle
<1>2. \A j \in Idle(c) : j \in DOMAIN c.tasks /\ WaitFor(c, j) \subseteq Idle(c)
    BY <1>1 DEF Idle
<1>3. WaitFor(c, k) \subseteq Idle(c) /\ Idle(c) \in SUBSET DOMAIN c.tasks
    BY <1>1 DEF Idle
<1> QED
    BY <1>2, <1>3 DEF Doomed

\* What changes when the tasks D fail, and keepers which are told so, or have failed, end.
Failing(c, d, D) ==
    /\ DOMAIN d.tasks = DOMAIN c.tasks
    /\ \A i \in DOMAIN c.tasks :
         /\ d.tasks[i].mailbox = c.tasks[i].mailbox /\ d.tasks[i].aborted = c.tasks[i].aborted
         /\ d.tasks[i].isRunning = c.tasks[i].isRunning /\ d.tasks[i].waiting = c.tasks[i].waiting
         /\ d.tasks[i].successor = c.tasks[i].successor
         /\ d.tasks[i].obtain = (IF i \in D THEN "failed" ELSE c.tasks[i].obtain)
         /\ d.tasks[i].dead => c.tasks[i].dead \/ i \in D
         /\ c.tasks[i].finished \/ i \in D => d.tasks[i].finished
         /\ d.tasks[i].finished => c.tasks[i].finished \/ i \in D \/ Obtained(c.tasks[i])
    /\ d.active = c.active /\ d.posted = c.posted /\ d.inCharge = Without(c.inCharge, D)
    /\ d.maintaining = c.maintaining

\* Some of those that wait fail, and keepers that are told so, or have failed, end.
LEMMA Fails ==
    ASSUME NEW c, NEW d, NEW x, NEW q, NEW tc, NEW sel, NEW D \in SUBSET Idle(c),
           NoTask \notin DOMAIN c.tasks, Core(c, x, q, tc, sel), Failing(c, d, D)
    PROVE  Core(d, x, q, tc, sel)
<1>00. /\ DOMAIN d.tasks = DOMAIN c.tasks
       /\ \A i \in DOMAIN c.tasks :
            /\ d.tasks[i].mailbox = c.tasks[i].mailbox /\ d.tasks[i].aborted = c.tasks[i].aborted
            /\ d.tasks[i].isRunning = c.tasks[i].isRunning /\ d.tasks[i].waiting = c.tasks[i].waiting
            /\ d.tasks[i].successor = c.tasks[i].successor
            /\ d.tasks[i].obtain = (IF i \in D THEN "failed" ELSE c.tasks[i].obtain)
            /\ d.tasks[i].dead => c.tasks[i].dead \/ i \in D
            /\ c.tasks[i].finished \/ i \in D => d.tasks[i].finished
            /\ d.tasks[i].finished => c.tasks[i].finished \/ i \in D \/ Obtained(c.tasks[i])
       /\ d.active = c.active /\ d.posted = c.posted /\ d.inCharge = Without(c.inCharge, D)
       /\ d.maintaining = c.maintaining
    BY DEF Failing
<1> USE <1>00
<1>1. /\ \A i \in DOMAIN c.tasks : Staged(c.tasks[i])
      /\ \A i \in D : i \in DOMAIN c.tasks /\ Waits(c.tasks[i]) /\ i # c.maintaining
    BY DEF Core, Stages, Idle
<1>2. \A i \in DOMAIN c.tasks :
        /\ Obtained(d.tasks[i]) <=> Obtained(c.tasks[i]) \/ i \in D
        /\ Waits(d.tasks[i]) <=> Waits(c.tasks[i]) /\ i \notin D
        /\ Syncing(d.tasks[i]) <=> Syncing(c.tasks[i])
        /\ Runs(d.tasks[i]) <=> Runs(c.tasks[i])
        /\ Runs(c.tasks[i]) => i \notin D
    BY <1>1 DEF Obtained, Waits, Syncing, Runs, Staged
<1>3. Stages(d)
    <2>1. ASSUME NEW i \in DOMAIN c.tasks PROVE Staged(d.tasks[i])
        <3>1. CASE i \in D
            BY <1>1, <1>2, <3>1 DEF Staged, Obtained, Waits, Runs
        <3>2. CASE i \notin D
            BY <1>1, <1>2, <3>2 DEF Staged
        <3> QED
            BY <3>1, <3>2
    <2> QED
        BY <2>1 DEF Stages
<1>4. Maintaining(d)
    <2>1. \A i \in DOMAIN c.tasks : InCharge(d.inCharge, i) => InCharge(c.inCharge, i)
        BY DEF InCharge, Without
    <2>2. \A i \in DOMAIN c.tasks : Engaged(d, i) => Engaged(c, i)
        BY <2>1 DEF Engaged
    <2>3. \A m \in Mailboxes : d.inCharge[m] = NoTask \/ d.inCharge[m] \in DOMAIN d.tasks
        BY DEF Core, Maintaining, Without
    <2> QED
        BY <1>1, <1>2, <2>2, <2>3 DEF Core, Maintaining
<1>5. Active(d, x)
    BY <1>1, <1>2 DEF Core, Active
<1>6. Posted(d)
    <2>1. \A p : PostedFor(c, p) => PostedFor(d, p)
        BY <1>1, <1>2 DEF PostedFor
    <2> QED
        BY <2>1 DEF Core, Posted
<1>7. \A j \in DOMAIN c.tasks : Patient(c, j) => Patient(d, j)
    <2>1. \A j \in DOMAIN c.tasks : \A a \in DOMAIN c.tasks[j].waiting :
              c.tasks[j].waiting[a] \in DOMAIN c.tasks
        BY DEF Core, Waiting
    <2> QED
        BY <1>2, <2>1 DEF Patient
<1>8. Waiting(d)
    BY <1>7 DEF Core, Waiting
<1>9. Wired(d, q, tc, sel)
    <2>0. \A i \in DOMAIN c.tasks : c.tasks[i].obtain \in {"SELECTING", "SYNCING"} =>
              d.tasks[i].obtain = c.tasks[i].obtain
        BY <1>1 DEF Waits
    <2>1. Asking(d, q, tc, sel)
        BY <2>0 DEF Core, Wired, Asking
    <2>2. Answering(d, q, tc, sel)
        BY <2>0 DEF Core, Wired, Answering, Selection
    <2>3. \A j \in DOMAIN c.tasks : Uses(d, j) => Uses(c, j)
        BY <1>2 DEF Uses
    <2>4. Using(d, q, tc, sel)
        BY <1>7, <2>3 DEF Core, Wired, Using
    <2> QED
        BY <2>1, <2>2, <2>4 DEF Wired
<1> QED
    BY <1>3, <1>4, <1>5, <1>6, <1>8, <1>9 DEF Core

\* What changes when the synchronization of k fails.
Dying(c, d, k) ==
    /\ DOMAIN d.tasks = DOMAIN c.tasks
    /\ \A i \in DOMAIN c.tasks \ {k} : d.tasks[i] = c.tasks[i]
    /\ d.tasks[k].mailbox = c.tasks[k].mailbox /\ d.tasks[k].aborted = c.tasks[k].aborted
    /\ d.tasks[k].isRunning = c.tasks[k].isRunning /\ d.tasks[k].waiting = c.tasks[k].waiting
    /\ d.tasks[k].successor = c.tasks[k].successor
    /\ d.tasks[k].obtain = "failed" /\ d.tasks[k].dead /\ d.tasks[k].finished
    /\ d.active = c.active /\ d.posted = c.posted /\ d.inCharge = Without(c.inCharge, {k})
    /\ d.maintaining = NoTask

\* What the synchronization of k leaves when it fails
LEMMA Dies ==
    ASSUME NEW c, NEW d, NEW q, NEW tc, NEW sel, NEW k \in DOMAIN c.tasks,
           NoTask \notin DOMAIN c.tasks, Core(c, NoTask, q, tc, sel), Syncing(c.tasks[k]),
           ~Token(q, tc, "SELECT", k), Dying(c, d, k)
    PROVE  Core(d, k, q, tc, sel)
<1>00. /\ DOMAIN d.tasks = DOMAIN c.tasks
       /\ \A i \in DOMAIN c.tasks \ {k} : d.tasks[i] = c.tasks[i]
       /\ d.tasks[k].mailbox = c.tasks[k].mailbox /\ d.tasks[k].aborted = c.tasks[k].aborted
       /\ d.tasks[k].isRunning = c.tasks[k].isRunning /\ d.tasks[k].waiting = c.tasks[k].waiting
       /\ d.tasks[k].successor = c.tasks[k].successor
       /\ d.tasks[k].obtain = "failed" /\ d.tasks[k].dead /\ d.tasks[k].finished
       /\ d.active = c.active /\ d.posted = c.posted /\ d.inCharge = Without(c.inCharge, {k})
       /\ d.maintaining = NoTask
    BY DEF Dying
<1> USE <1>00
<1>1. /\ \A i \in DOMAIN c.tasks : Staged(c.tasks[i]) /\ i # NoTask
      /\ c.maintaining = k
    BY DEF Core, Stages, Maintaining
<1>2. /\ \A i \in DOMAIN c.tasks \ {k} : ~Syncing(c.tasks[i])
      /\ ~Obtained(c.tasks[k]) /\ c.tasks[k].isRunning = "NOT_YET" /\ ~Waits(c.tasks[k])
      /\ ~Runs(c.tasks[k]) /\ ~c.tasks[k].aborted
    BY <1>1 DEF Core, Maintaining, Staged, Syncing, Obtained, Runs, Waits
<1>3. Stages(d)
    <2>1. Staged(d.tasks[k])
        BY <1>1, <1>2 DEF Staged, Obtained, Runs, Waits, Syncing
    <2> QED
        BY <1>1, <2>1 DEF Stages
<1>4. Maintaining(d)
    <2>1. \A i \in DOMAIN c.tasks : InCharge(d.inCharge, i) => InCharge(c.inCharge, i)
        BY DEF InCharge, Without
    <2>2. \A i \in DOMAIN c.tasks : Engaged(d, i) => Engaged(c, i)
        BY <1>1, <2>1 DEF Engaged, Staged
    <2>3. \A m \in Mailboxes : d.inCharge[m] = NoTask \/ d.inCharge[m] \in DOMAIN d.tasks
        BY DEF Core, Maintaining, Without
    <2>4. \A i \in DOMAIN c.tasks : ~(Runs(c.tasks[i]) /\ Engaged(c, i))
        BY <1>1, <1>2 DEF Core, Maintaining
    <2>5. \A i \in DOMAIN c.tasks : ~Syncing(d.tasks[i]) /\ ~(Runs(d.tasks[i]) /\ Engaged(d, i))
        BY <1>2, <2>2, <2>4 DEF Syncing, Runs
    <2> QED
        BY <2>3, <2>5 DEF Maintaining
<1>5. Active(d, k)
    <2>1. \A i \in DOMAIN c.active : c.active[i].kind = "obtain" => c.active[i].task = k
        BY <1>1, <1>2 DEF Core, Active
    <2>2. Obtained(d.tasks[k])
        BY DEF Obtained
    <2> QED
        BY <2>1, <2>2 DEF Core, Active
<1>6. Posted(d)
    <2>1. \A p : PostedFor(c, p) => PostedFor(d, p)
        BY <1>1, <1>2 DEF PostedFor, Runs
    <2> QED
        BY <2>1 DEF Core, Posted
<1>7. \A j \in DOMAIN c.tasks : Patient(c, j) => Patient(d, j)
    <2>1. \A j \in DOMAIN c.tasks : \A a \in DOMAIN c.tasks[j].waiting :
              c.tasks[j].waiting[a] \in DOMAIN c.tasks
        BY DEF Core, Waiting
    <2> QED
        BY <1>1, <2>1 DEF Patient, Obtained
<1>8. Waiting(d)
    BY <1>7 DEF Core, Waiting
<1>9. Wired(d, q, tc, sel)
    <2>0. \A i \in DOMAIN c.tasks : c.tasks[i].obtain = "SELECTING" => i = k
        BY <1>2 DEF Syncing
    <2>1. Asking(d, q, tc, sel)
        <3>1. \A i \in DOMAIN q : q[i].kind # "SELECT"
            BY <2>0 DEF Core, Wired, Asking, Token, In
        <3> QED
            BY <3>1 DEF Core, Wired, Asking
    <2>2. Answering(d, q, tc, sel)
        <3>1. \A i \in DOMAIN tc : ~Selection(tc, i)
            BY <2>0 DEF Core, Wired, Answering, Selection, Token, AnswerIn
        <3> QED
            BY <3>1 DEF Core, Wired, Answering
    <2>3. \A j \in DOMAIN c.tasks : ~Uses(d, j)
        BY <1>1 DEF Uses
    <2>4. Using(d, q, tc, sel)
        BY <1>7, <2>3 DEF Core, Wired, Using
    <2> QED
        BY <2>1, <2>2, <2>4 DEF Wired
<1> QED
    BY <1>3, <1>4, <1>5, <1>6, <1>8, <1>9 DEF Core

-----------------------------------------------------------------------------
(* How a mailbox is opened, and given away                                  *)

\* The mailbox of k is selected, and nobody else is to be heard of.
Ready(c, q, tc, sel, k) ==
    /\ Syncing(c.tasks[k]) /\ c.tasks[k].mailbox = sel /\ ~Token(q, tc, "SELECT", k)
    /\ \A j \in DOMAIN c.tasks : Token(q, tc, "UID FETCH", j) => j = k

LEMMA ReadyFacts ==
    ASSUME NEW c, NEW q, NEW tc, NEW sel, NEW k \in DOMAIN c.tasks,
           Core(c, NoTask, q, tc, sel), Ready(c, q, tc, sel, k)
    PROVE  /\ c.maintaining = k /\ Staged(c.tasks[k]) /\ ~Obtained(c.tasks[k]) /\ ~Waits(c.tasks[k])
           /\ ~Runs(c.tasks[k]) /\ ~c.tasks[k].finished
           /\ \A j \in DOMAIN c.tasks : Syncing(c.tasks[j]) => j = k
           /\ \A j \in DOMAIN c.tasks : ~(Runs(c.tasks[j]) /\ Engaged(c, j))
           /\ \A i \in DOMAIN q : q[i].kind # "SELECT"
           /\ \A i \in DOMAIN tc : ~Selection(tc, i)
           /\ \A i \in DOMAIN c.posted : ~Connects(c.posted[i])
<1>1. c.maintaining = k /\ Staged(c.tasks[k]) /\ \A j \in DOMAIN c.tasks : Syncing(c.tasks[j]) => j = k
    BY DEF Core, Stages, Maintaining, Ready
<1>2. /\ ~Obtained(c.tasks[k]) /\ ~Waits(c.tasks[k]) /\ ~Runs(c.tasks[k]) /\ ~c.tasks[k].finished
    BY <1>1 DEF Staged, Ready, Syncing, Obtained, Waits, Runs
<1>3. \A j \in DOMAIN c.tasks : ~(Runs(c.tasks[j]) /\ Engaged(c, j))
    BY <1>1, <1>2 DEF Core, Maintaining
<1>4. \A i \in DOMAIN q : q[i].kind # "SELECT"
    BY <1>1 DEF Core, Wired, Asking, Syncing, Ready, Token, In
<1>5. \A i \in DOMAIN tc : ~Selection(tc, i)
    BY <1>1 DEF Core, Wired, Answering, Selection, Syncing, Ready, Token, AnswerIn
<1>6. \A i \in DOMAIN c.posted : ~Connects(c.posted[i])
    BY <1>1, <1>2 DEF Core, Posted, PostedFor
<1> QED
    BY <1>1, <1>2, <1>3, <1>4, <1>5, <1>6

\* What changes when k begins with the messages.
Beginning(c, d, k) ==
    /\ DOMAIN d.tasks = DOMAIN c.tasks /\ \A i \in DOMAIN c.tasks \ {k} : d.tasks[i] = c.tasks[i]
    /\ d.tasks[k].mailbox = c.tasks[k].mailbox /\ d.tasks[k].aborted = c.tasks[k].aborted
    /\ d.tasks[k].isRunning = c.tasks[k].isRunning /\ d.tasks[k].waiting = c.tasks[k].waiting
    /\ d.tasks[k].successor = c.tasks[k].successor /\ d.tasks[k].dead = c.tasks[k].dead
    /\ d.tasks[k].finished = c.tasks[k].finished /\ d.tasks[k].obtain = "SYNCING"
    /\ d.active = c.active /\ d.posted = c.posted /\ d.inCharge = c.inCharge
    /\ d.maintaining = c.maintaining

\* SELECT was not enough.
LEMMA Begins ==
    ASSUME NEW c, NEW d, NEW q, NEW tc, NEW sel, NEW k \in DOMAIN c.tasks,
           Core(c, NoTask, q, tc, sel), Ready(c, q, tc, sel, k), Beginning(c, d, k)
    PROVE  Core(d, NoTask, q, tc, sel) /\ Uses(d, k)
<1>00. /\ DOMAIN d.tasks = DOMAIN c.tasks /\ \A i \in DOMAIN c.tasks \ {k} : d.tasks[i] = c.tasks[i]
       /\ d.tasks[k].mailbox = c.tasks[k].mailbox /\ d.tasks[k].aborted = c.tasks[k].aborted
       /\ d.tasks[k].isRunning = c.tasks[k].isRunning /\ d.tasks[k].waiting = c.tasks[k].waiting
       /\ d.tasks[k].successor = c.tasks[k].successor /\ d.tasks[k].dead = c.tasks[k].dead
       /\ d.tasks[k].finished = c.tasks[k].finished /\ d.tasks[k].obtain = "SYNCING"
       /\ d.active = c.active /\ d.posted = c.posted /\ d.inCharge = c.inCharge
       /\ d.maintaining = c.maintaining
    BY DEF Beginning
<1> USE <1>00
<1>1. /\ c.maintaining = k /\ Staged(c.tasks[k]) /\ ~Obtained(c.tasks[k]) /\ ~Waits(c.tasks[k])
      /\ ~Runs(c.tasks[k]) /\ ~c.tasks[k].finished
      /\ \A j \in DOMAIN c.tasks : Syncing(c.tasks[j]) => j = k
      /\ \A i \in DOMAIN q : q[i].kind # "SELECT"
      /\ \A i \in DOMAIN tc : ~Selection(tc, i)
    BY ReadyFacts
<1>3. \A i \in DOMAIN c.tasks : /\ Obtained(d.tasks[i]) <=> Obtained(c.tasks[i])
                                /\ Waits(d.tasks[i]) <=> Waits(c.tasks[i])
                                /\ Syncing(d.tasks[i]) <=> Syncing(c.tasks[i])
                                /\ Runs(d.tasks[i]) <=> Runs(c.tasks[i])
                                /\ d.tasks[i].finished = c.tasks[i].finished
                                /\ d.tasks[i].aborted = c.tasks[i].aborted
                                /\ d.tasks[i].mailbox = c.tasks[i].mailbox
                                /\ d.tasks[i].waiting = c.tasks[i].waiting
                                /\ d.tasks[i].isRunning = c.tasks[i].isRunning
    BY <1>1, ZenonT(60) DEF Ready, Obtained, Waits, Syncing, Runs
<1>4. Stages(d)
    BY <1>3 DEF Core, Stages, Staged
<1>5. Maintaining(d)
    BY <1>3 DEF Core, Maintaining, Engaged
<1>6. Active(d, NoTask)
    BY <1>3 DEF Core, Active
<1>7. Posted(d)
    <2>1. \A p : PostedFor(c, p) => PostedFor(d, p)
        BY <1>3 DEF PostedFor
    <2> QED
        BY <2>1 DEF Core, Posted
<1>8. \A j \in DOMAIN c.tasks : Patient(c, j) => Patient(d, j)
    <2>1. \A j \in DOMAIN c.tasks : \A a \in DOMAIN c.tasks[j].waiting :
              c.tasks[j].waiting[a] \in DOMAIN c.tasks
        BY DEF Core, Waiting
    <2> QED
        BY <1>3, <2>1 DEF Patient
<1>9. Waiting(d)
    BY <1>3, <1>8 DEF Core, Waiting
<1>10. Wired(d, q, tc, sel)
    <2>1. Asking(d, q, tc, sel)
        BY <1>1, <1>3 DEF Core, Wired, Asking
    <2>2. Answering(d, q, tc, sel)
        BY <1>1 DEF Core, Wired, Answering
    <2>3. \A j \in DOMAIN c.tasks : Uses(d, j) => j = k
        BY <1>1 DEF Uses
    <2>4. \A j \in DOMAIN c.tasks : j # k => d.tasks[j].obtain = c.tasks[j].obtain
        OBVIOUS
    <2>5. Using(d, q, tc, sel)
        BY <1>3, <1>8, <2>3, <2>4 DEF Core, Wired, Using, Ready
    <2> QED
        BY <2>1, <2>2, <2>5 DEF Wired
<1>11. Uses(d, k)
    BY <1>1 DEF Uses
<1> QED
    BY <1>4, <1>5, <1>6, <1>7, <1>9, <1>10, <1>11 DEF Core

\* What changes when the mailbox of k is open.
Completing(c, d, k, e) ==
    /\ DOMAIN d.tasks = DOMAIN c.tasks /\ \A i \in DOMAIN c.tasks \ {k} : d.tasks[i] = c.tasks[i]
    /\ d.tasks[k].mailbox = c.tasks[k].mailbox /\ d.tasks[k].aborted = c.tasks[k].aborted
    /\ d.tasks[k].finished = c.tasks[k].finished /\ d.tasks[k].dead = c.tasks[k].dead
    /\ d.tasks[k].waiting = c.tasks[k].waiting /\ d.tasks[k].successor = c.tasks[k].successor
    /\ d.tasks[k].obtain = "completed" /\ d.tasks[k].isRunning = "RUNNING"
    /\ d.active = Append(c.active, e) /\ e.kind = "keep" /\ e.task = k
    /\ d.posted = c.posted /\ d.inCharge = c.inCharge /\ d.maintaining = c.maintaining

\* The mailbox is synchronized, and its keeper runs.
LEMMA Completes ==
    ASSUME NEW c, NEW d, NEW q, NEW tc, NEW sel, NEW k \in DOMAIN c.tasks, NEW e,
           Core(c, NoTask, q, tc, sel), Ready(c, q, tc, sel, k),
           NoTask \notin DOMAIN c.tasks, IsSeq(c.active), Completing(c, d, k, e)
    PROVE  Core(d, k, q, tc, sel)
<1>00. /\ DOMAIN d.tasks = DOMAIN c.tasks /\ \A i \in DOMAIN c.tasks \ {k} : d.tasks[i] = c.tasks[i]
       /\ d.tasks[k].mailbox = c.tasks[k].mailbox /\ d.tasks[k].aborted = c.tasks[k].aborted
       /\ d.tasks[k].finished = c.tasks[k].finished /\ d.tasks[k].dead = c.tasks[k].dead
       /\ d.tasks[k].waiting = c.tasks[k].waiting /\ d.tasks[k].successor = c.tasks[k].successor
       /\ d.tasks[k].obtain = "completed" /\ d.tasks[k].isRunning = "RUNNING"
       /\ d.active = Append(c.active, e) /\ e.kind = "keep" /\ e.task = k
       /\ d.posted = c.posted /\ d.inCharge = c.inCharge /\ d.maintaining = c.maintaining
    BY DEF Completing
<1> USE <1>00
<1>1. /\ c.maintaining = k /\ Staged(c.tasks[k]) /\ ~Obtained(c.tasks[k]) /\ ~Waits(c.tasks[k])
      /\ ~Runs(c.tasks[k]) /\ ~c.tasks[k].finished
      /\ \A j \in DOMAIN c.tasks : Syncing(c.tasks[j]) => j = k
      /\ \A j \in DOMAIN c.tasks : ~(Runs(c.tasks[j]) /\ Engaged(c, j))
      /\ \A i \in DOMAIN q : q[i].kind # "SELECT"
      /\ \A i \in DOMAIN tc : ~Selection(tc, i)
      /\ \A i \in DOMAIN c.posted : ~Connects(c.posted[i])
    BY ReadyFacts
<1>2. Obtained(d.tasks[k]) /\ Runs(d.tasks[k]) /\ ~Waits(d.tasks[k]) /\ ~Syncing(d.tasks[k])
    BY DEF Obtained, Runs, Waits, Syncing
<1>3. \A i \in DOMAIN d.active : (i \in DOMAIN c.active /\ d.active[i] = c.active[i]) \/ d.active[i] = e
    <2>1. /\ DOMAIN c.active = 1 .. Len(c.active) /\ Len(c.active) \in Nat
          /\ \A i \in 1 .. Len(c.active) : Append(c.active, e)[i] = c.active[i]
          /\ Append(c.active, e)[Len(c.active) + 1] = e
          /\ DOMAIN Append(c.active, e) = 1 .. Len(c.active) + 1
        BY SeqFacts, AppendFacts
    <2> QED
        BY <2>1
<1>4. Stages(d)
    <2>1. Staged(d.tasks[k])
        BY <1>1, <1>2 DEF Staged
    <2> QED
        BY <2>1 DEF Core, Stages
<1>5. Maintaining(d)
    <2>1. \A i \in DOMAIN c.tasks \ {k} : HasKeep(d.active, i) => HasKeep(c.active, i)
        BY <1>3 DEF HasKeep
    <2>2. \A i \in DOMAIN c.tasks \ {k} : Engaged(d, i) => Engaged(c, i)
        BY <2>1 DEF Engaged
    <2>3. \A i \in DOMAIN c.tasks \ {k} : ~Syncing(d.tasks[i]) /\ ~(Runs(d.tasks[i]) /\ Engaged(d, i))
        BY <1>1, <2>2
    <2> QED
        BY <1>1, <1>2, <2>3 DEF Core, Maintaining
<1>6. Active(d, k)
    <2>1. \A i \in DOMAIN c.active : c.active[i].kind = "obtain" => c.active[i].task = k
        BY <1>1 DEF Core, Active
    <2> QED
        BY <1>2, <1>3, <2>1 DEF Core, Active
<1>7. Posted(d)
    <2>1. ASSUME NEW i \in DOMAIN c.posted PROVE PostedFor(d, c.posted[i])
        <3>1. \A j : j # k /\ HasKeep(d.active, j) => HasKeep(c.active, j)
            BY <1>3 DEF HasKeep
        <3> QED
            BY <1>1, <1>2, <3>1 DEF Core, Posted, PostedFor
    <2> QED
        BY <1>1, <2>1 DEF Posted
<1>8. \A j \in DOMAIN c.tasks : Patient(c, j) => Patient(d, j)
    <2>1. \A j \in DOMAIN c.tasks : \A a \in DOMAIN c.tasks[j].waiting :
              c.tasks[j].waiting[a] \in DOMAIN c.tasks
        BY DEF Core, Waiting
    <2> QED
        BY <1>1, <2>1 DEF Patient
<1>9. Waiting(d)
    BY <1>8 DEF Core, Waiting
<1>10. Wired(d, q, tc, sel)
    <2>1. Asking(d, q, tc, sel)
        BY <1>1 DEF Core, Wired, Asking
    <2>2. Answering(d, q, tc, sel)
        BY <1>1 DEF Core, Wired, Answering
    <2>3. \A j \in DOMAIN c.tasks : Uses(d, j) => j = k
        BY <1>1 DEF Uses
    <2>4. Using(d, q, tc, sel)
        BY <1>8, <2>3, ZenonT(60) DEF Core, Wired, Using, Ready
    <2> QED
        BY <2>1, <2>2, <2>4 DEF Wired
<1> QED
    BY <1>4, <1>5, <1>6, <1>7, <1>9, <1>10 DEF Core

\* Who has the connection: nobody else synchronizes, runs, or is told to connect.
LEMMA RunnerFacts ==
    ASSUME NEW c, NEW x, NEW q, NEW tc, NEW sel, NEW k \in DOMAIN c.tasks,
           Core(c, x, q, tc, sel), c.maintaining = k, Runs(c.tasks[k])
    PROVE  /\ Staged(c.tasks[k]) /\ Obtained(c.tasks[k]) /\ ~Waits(c.tasks[k])
           /\ ~c.tasks[k].aborted /\ Patient(c, k) /\ Uses(c, k)
           /\ \A j \in DOMAIN c.tasks : ~Syncing(c.tasks[j]) /\ c.tasks[j].obtain # "SELECTING"
           /\ \A j \in DOMAIN c.tasks : Runs(c.tasks[j]) /\ Engaged(c, j) => j = k
           /\ \A i \in DOMAIN q : q[i].kind # "SELECT"
           /\ \A i \in DOMAIN tc : ~Selection(tc, i)
           /\ \A i \in DOMAIN c.posted : ~Connects(c.posted[i])
<1>1. Staged(c.tasks[k])
    BY DEF Core, Stages
<1>2. Obtained(c.tasks[k]) /\ ~Waits(c.tasks[k]) /\ ~Syncing(c.tasks[k]) /\ ~c.tasks[k].aborted
    BY <1>1 DEF Staged, Runs, Obtained, Waits, Syncing
<1>3. Patient(c, k) /\ Uses(c, k)
    BY <1>2 DEF Core, Waiting, Uses
<1>4. \A j \in DOMAIN c.tasks : ~Syncing(c.tasks[j]) /\ c.tasks[j].obtain # "SELECTING"
    BY <1>2 DEF Core, Maintaining, Syncing
<1>5. \A j \in DOMAIN c.tasks : Runs(c.tasks[j]) /\ Engaged(c, j) => j = k
    BY DEF Core, Maintaining
<1>6. \A i \in DOMAIN q : q[i].kind # "SELECT"
    BY <1>4 DEF Core, Wired, Asking
<1>7. \A i \in DOMAIN tc : ~Selection(tc, i)
    BY <1>4 DEF Core, Wired, Answering, Selection
<1>8. \A i \in DOMAIN c.posted : ~Connects(c.posted[i])
    BY <1>2 DEF Core, Posted, PostedFor
<1> QED
    BY <1>1, <1>2, <1>3, <1>4, <1>5, <1>6, <1>7, <1>8

\* What changes when k gives the connection away.
Quieting(c, d, k) ==
    /\ DOMAIN d.tasks = DOMAIN c.tasks /\ \A i \in DOMAIN c.tasks \ {k} : d.tasks[i] = c.tasks[i]
    /\ d.tasks[k].mailbox = c.tasks[k].mailbox /\ d.tasks[k].obtain = c.tasks[k].obtain
    /\ d.tasks[k].waiting = c.tasks[k].waiting /\ d.tasks[k].dead = c.tasks[k].dead
    /\ d.tasks[k].aborted /\ d.tasks[k].isRunning = "NOT_ANYMORE"
    /\ c.tasks[k].finished => d.tasks[k].finished
    /\ d.active = c.active /\ d.posted = c.posted /\ d.inCharge = Without(c.inCharge, {k})
    /\ d.maintaining = NoTask

\* The keeper gives the connection away, and nobody waits for it.
LEMMA Quiets ==
    ASSUME NEW c, NEW d, NEW x, NEW q, NEW tc, NEW sel, NEW k \in DOMAIN c.tasks,
           NoTask \notin DOMAIN c.tasks, Core(c, x, q, tc, sel), c.maintaining = k, Runs(c.tasks[k]),
           Quieting(c, d, k)
    PROVE  Core(d, x, q, tc, sel)
<1>00. /\ DOMAIN d.tasks = DOMAIN c.tasks /\ \A i \in DOMAIN c.tasks \ {k} : d.tasks[i] = c.tasks[i]
       /\ d.tasks[k].mailbox = c.tasks[k].mailbox /\ d.tasks[k].obtain = c.tasks[k].obtain
       /\ d.tasks[k].waiting = c.tasks[k].waiting /\ d.tasks[k].dead = c.tasks[k].dead
       /\ d.tasks[k].aborted /\ d.tasks[k].isRunning = "NOT_ANYMORE"
       /\ c.tasks[k].finished => d.tasks[k].finished
       /\ d.active = c.active /\ d.posted = c.posted /\ d.inCharge = Without(c.inCharge, {k})
       /\ d.maintaining = NoTask
    BY DEF Quieting
<1> USE <1>00
<1>1. /\ Staged(c.tasks[k]) /\ Obtained(c.tasks[k]) /\ ~Waits(c.tasks[k])
      /\ \A j \in DOMAIN c.tasks : ~Syncing(c.tasks[j])
      /\ \A j \in DOMAIN c.tasks : Runs(c.tasks[j]) /\ Engaged(c, j) => j = k
      /\ \A i \in DOMAIN q : q[i].kind # "SELECT"
      /\ \A i \in DOMAIN tc : ~Selection(tc, i)
      /\ \A i \in DOMAIN c.posted : ~Connects(c.posted[i])
    BY RunnerFacts
<1>2. \A i \in DOMAIN c.tasks : /\ Obtained(d.tasks[i]) <=> Obtained(c.tasks[i])
                                /\ Waits(d.tasks[i]) <=> Waits(c.tasks[i])
                                /\ Syncing(d.tasks[i]) <=> Syncing(c.tasks[i])
                                /\ Runs(d.tasks[i]) <=> Runs(c.tasks[i]) /\ i # k
    BY DEF Obtained, Waits, Syncing, Runs
<1>3. Stages(d)
    <2>1. Staged(d.tasks[k])
        BY <1>1, <1>2 DEF Staged, Runs
    <2> QED
        BY <2>1 DEF Core, Stages
<1>4. Maintaining(d)
    <2>1. \A i \in DOMAIN c.tasks : InCharge(d.inCharge, i) => InCharge(c.inCharge, i)
        BY DEF InCharge, Without
    <2>2. \A i \in DOMAIN c.tasks : i # k /\ Engaged(d, i) => Engaged(c, i)
        BY <2>1 DEF Engaged
    <2>3. \A m \in Mailboxes : d.inCharge[m] = NoTask \/ d.inCharge[m] \in DOMAIN d.tasks
        BY DEF Core, Maintaining, Without
    <2> QED
        BY <1>1, <1>2, <2>2, <2>3 DEF Maintaining
<1>5. Active(d, x)
    <2>1. \A j \in DOMAIN c.tasks : c.tasks[j].isRunning # "NOT_YET" => d.tasks[j].isRunning # "NOT_YET"
        OBVIOUS
    <2> QED
        BY <1>2, <2>1 DEF Core, Active
<1>6. Posted(d)
    <2>1. \A i \in DOMAIN c.posted : PostedFor(d, c.posted[i])
        BY <1>1, <1>2, SMTT(30) DEF Core, Posted, PostedFor
    <2> QED
        BY <1>1, <2>1 DEF Posted
<1>7. \A j \in DOMAIN c.tasks : Patient(c, j) => Patient(d, j)
    <2>1. \A j \in DOMAIN c.tasks : \A a \in DOMAIN c.tasks[j].waiting :
              c.tasks[j].waiting[a] \in DOMAIN c.tasks
        BY DEF Core, Waiting
    <2> QED
        BY <1>2, <2>1 DEF Patient
<1>8. Waiting(d)
    BY <1>7 DEF Core, Waiting
<1>9. Wired(d, q, tc, sel)
    <2>1. Asking(d, q, tc, sel)
        BY <1>1 DEF Core, Wired, Asking
    <2>2. Answering(d, q, tc, sel)
        BY <1>1 DEF Core, Wired, Answering
    <2>3. \A j \in DOMAIN c.tasks : ~Uses(d, j)
        BY DEF Uses
    <2>4. Using(d, q, tc, sel)
        BY <1>7, <2>3, ZenonT(60) DEF Core, Wired, Using
    <2> QED
        BY <2>1, <2>2, <2>4 DEF Wired
<1> QED
    BY <1>3, <1>4, <1>5, <1>6, <1>8, <1>9 DEF Core

\* Nobody is in a list twice.
NoDup(s) == \A a, b \in DOMAIN s : s[a] = s[b] => a = b

\* r are the others of queue and those of own.
Joins(queue, own, r) ==
    /\ NoDup(r)
    /\ \A a \in DOMAIN r : \/ \E i \in DOMAIN queue : r[a] = queue[i] /\ r[a] # Head(queue)
                           \/ \E i \in DOMAIN own : r[a] = own[i]
    /\ \A a \in DOMAIN Tail(queue) :
         \E i \in DOMAIN queue : Tail(queue)[a] = queue[i] /\ Tail(queue)[a] # Head(queue)

\* The list of those that wait for the first of queue, which has a list of its own
LEMMA JoinedQueues ==
    ASSUME NEW queue, IsSeq(queue), queue # <<>>, NEW own, IsSeq(own), NoDup(queue), NoDup(own),
           \A a \in DOMAIN queue, b \in DOMAIN own : queue[a] # own[b],
           NEW r, r = Tail(queue) \o own
    PROVE  Joins(queue, own, r)
<1>1. /\ Len(queue) \in Nat /\ DOMAIN queue = 1 .. Len(queue) /\ Len(queue) >= 1
      /\ Head(queue) = queue[1] /\ 1 \in DOMAIN queue
      /\ IsSeq(Tail(queue)) /\ Len(Tail(queue)) = Len(queue) - 1
      /\ \A a \in 1 .. Len(queue) - 1 : Tail(queue)[a] = queue[a + 1]
      /\ DOMAIN Tail(queue) = 1 .. Len(queue) - 1
    BY SeqFacts, TailFacts
<1>2. Len(own) \in Nat /\ DOMAIN own = 1 .. Len(own)
    BY SeqFacts
<1>3. /\ DOMAIN r = 1 .. Len(queue) - 1 + Len(own)
      /\ \A a \in 1 .. Len(queue) - 1 : r[a] = Tail(queue)[a]
      /\ \A b \in 1 .. Len(own) : r[Len(queue) - 1 + b] = own[b]
    BY <1>1, <1>2, CatFacts
<1>4. \A a \in DOMAIN r :
        /\ a < Len(queue) => a + 1 \in DOMAIN queue /\ a + 1 # 1 /\ r[a] = queue[a + 1]
        /\ ~(a < Len(queue)) => /\ a - (Len(queue) - 1) \in DOMAIN own
                                /\ r[a] = own[a - (Len(queue) - 1)]
    <2>1. TAKE a \in DOMAIN r
    <2>2. CASE a < Len(queue)
        BY <1>1, <1>2, <1>3, <2>2
    <2>3. CASE ~(a < Len(queue))
        <3>1. a - (Len(queue) - 1) \in 1 .. Len(own) /\ Len(queue) - 1 + (a - (Len(queue) - 1)) = a
            BY <1>1, <1>2, <1>3, <2>3
        <3> QED
            BY <1>2, <1>3, <2>3, <3>1
    <2> QED
        BY <2>2, <2>3
<1>5. NoDup(r)
    <2>1. SUFFICES ASSUME NEW a \in DOMAIN r, NEW b \in DOMAIN r, r[a] = r[b] PROVE a = b
        BY DEF NoDup
    <2>2. a \in Nat /\ b \in Nat
        BY <1>1, <1>2, <1>3
    <2>3. a < Len(queue) <=> b < Len(queue)
        BY <1>4, <2>1
    <2>4. CASE a < Len(queue)
        BY <1>1, <1>4, <2>1, <2>2, <2>3, <2>4 DEF NoDup
    <2>5. CASE ~(a < Len(queue))
        BY <1>1, <1>4, <2>1, <2>2, <2>3, <2>5 DEF NoDup
    <2> QED
        BY <2>4, <2>5
<1>6. \A i \in DOMAIN queue : i # 1 => queue[i] # Head(queue)
    BY <1>1 DEF NoDup
<1>7. \A a \in DOMAIN Tail(queue) :
        \E i \in DOMAIN queue : Tail(queue)[a] = queue[i] /\ Tail(queue)[a] # Head(queue)
    <2>1. TAKE a \in DOMAIN Tail(queue)
    <2>2. a + 1 \in DOMAIN queue /\ a + 1 # 1 /\ Tail(queue)[a] = queue[a + 1]
        BY <1>1
    <2> QED
        BY <1>6, <2>2
<1>8. \A a \in DOMAIN r : \/ \E i \in DOMAIN queue : r[a] = queue[i] /\ r[a] # Head(queue)
                          \/ \E i \in DOMAIN own : r[a] = own[i]
    BY <1>4, <1>6
<1> QED
    BY <1>5, <1>7, <1>8 DEF Joins

\* What changes when k gives the connection away to the first that waits; the others wait for
\* that one.
HandOver(c, d, k, first) ==
    /\ DOMAIN d.tasks = DOMAIN c.tasks
    /\ \A i \in DOMAIN c.tasks \ {k, first} : d.tasks[i] = c.tasks[i]
    /\ d.tasks[k].mailbox = c.tasks[k].mailbox /\ d.tasks[k].obtain = c.tasks[k].obtain
    /\ d.tasks[k].dead = c.tasks[k].dead /\ d.tasks[k].finished = c.tasks[k].finished
    /\ d.tasks[k].aborted /\ d.tasks[k].isRunning = "NOT_ANYMORE"
    /\ d.tasks[k].waiting = Tail(c.tasks[k].waiting)
    /\ d.tasks[first].mailbox = c.tasks[first].mailbox /\ d.tasks[first].obtain = c.tasks[first].obtain
    /\ d.tasks[first].dead = c.tasks[first].dead /\ d.tasks[first].finished = c.tasks[first].finished
    /\ d.tasks[first].aborted = c.tasks[first].aborted
    /\ d.tasks[first].isRunning = c.tasks[first].isRunning
    /\ d.tasks[first].successor = c.tasks[first].successor
    /\ d.tasks[first].waiting = Tail(c.tasks[k].waiting) \o c.tasks[first].waiting
    /\ d.active = c.active /\ d.posted = c.posted /\ d.inCharge = Without(c.inCharge, {k})
    /\ d.maintaining = first

\* The lists after that
LEMMA HandsOverWaiting ==
    ASSUME NEW c, NEW d, NEW k \in DOMAIN c.tasks, Tasked(c.tasks), Waiting(c), NEW first \in DOMAIN c.tasks,
           c.tasks[k].waiting # <<>>, first = Head(c.tasks[k].waiting), first # k,
           ~c.tasks[first].aborted, ~c.tasks[k].aborted, HandOver(c, d, k, first)
    PROVE  Waiting(d) /\ Patient(d, k)
<1> DEFINE queue == c.tasks[k].waiting
           own == c.tasks[first].waiting
           list(j) == d.tasks[j].waiting
           Good(w) == w \in DOMAIN c.tasks /\ (Waits(c.tasks[w]) \/ Obtained(c.tasks[w]))
<1>1. /\ DOMAIN d.tasks = DOMAIN c.tasks /\ d.maintaining = first
      /\ list(first) = Tail(queue) \o own /\ list(k) = Tail(queue)
      /\ \A j \in DOMAIN c.tasks : j \notin {k, first} => list(j) = c.tasks[j].waiting
      /\ \A j \in DOMAIN c.tasks : d.tasks[j].aborted <=> c.tasks[j].aborted \/ j = k
      /\ \A w \in DOMAIN c.tasks : d.tasks[w].obtain = c.tasks[w].obtain
    BY DEF HandOver
<1>2. \A w \in DOMAIN c.tasks : Good(w) => Waits(d.tasks[w]) \/ Obtained(d.tasks[w])
    BY <1>1 DEF Waits, Obtained
<1>3. /\ \A j \in DOMAIN c.tasks : \A a \in DOMAIN c.tasks[j].waiting :
            c.tasks[j].waiting[a] \in DOMAIN c.tasks
      /\ \A j \in DOMAIN c.tasks : ~c.tasks[j].aborted => \A a \in DOMAIN c.tasks[j].waiting :
            Good(c.tasks[j].waiting[a])
      /\ \A j, l \in DOMAIN c.tasks : ~c.tasks[j].aborted /\ ~c.tasks[l].aborted =>
              \A a \in DOMAIN c.tasks[j].waiting, b \in DOMAIN c.tasks[l].waiting :
                 c.tasks[j].waiting[a] = c.tasks[l].waiting[b] => j = l /\ a = b
    BY DEF Waiting, Patient
<1>4. /\ IsSeq(queue) /\ IsSeq(own) /\ NoDup(queue) /\ NoDup(own)
      /\ \A a \in DOMAIN queue, b \in DOMAIN own : queue[a] # own[b]
    BY <1>3, SMTT(30) DEF Tasked, NoDup
<1>5. 1 \in DOMAIN queue /\ first = queue[1]
    BY <1>4, TailFacts
<1>6. \A j \in DOMAIN c.tasks : ~c.tasks[j].aborted /\ j # k =>
          \A a \in DOMAIN c.tasks[j].waiting : c.tasks[j].waiting[a] # first
    BY <1>3, <1>5
<1> HIDE DEF queue, own, list, Good
<1>7. /\ NoDup(list(first))
      /\ \A a \in DOMAIN list(first) :
            \/ \E i \in DOMAIN queue : list(first)[a] = queue[i] /\ list(first)[a] # first
            \/ \E i \in DOMAIN own : list(first)[a] = own[i]
      /\ \A a \in DOMAIN list(k) : \E i \in DOMAIN queue : list(k)[a] = queue[i] /\ list(k)[a] # first
    <2>1. queue # <<>> /\ Head(queue) = first
        BY DEF queue
    <2>2. Joins(queue, own, list(first))
        BY <1>1, <1>4, <2>1, JoinedQueues
    <2> QED
        BY <1>1, <2>1, <2>2, SMTT(30) DEF Joins
<1>8. /\ \A i \in DOMAIN queue : Good(queue[i])
      /\ \A i \in DOMAIN own : Good(own[i]) /\ own[i] # first
    BY <1>3, <1>6 DEF queue, own
<1>9. /\ \A a \in DOMAIN list(first) : Good(list(first)[a]) /\ list(first)[a] # first
      /\ \A a \in DOMAIN list(k) : Good(list(k)[a]) /\ list(k)[a] # first
    BY <1>7, <1>8
<1>10. \A j \in DOMAIN c.tasks : ~d.tasks[j].aborted =>
          \A a \in DOMAIN list(j) : Good(list(j)[a]) /\ list(j)[a] # first
    <2>1. TAKE j \in DOMAIN c.tasks
    <2>2. CASE j = first
        BY <1>9, <2>2
    <2>3. CASE j # first
        BY <1>1, <1>3, <1>6, <2>3, SMTT(30)
    <2> QED
        BY <2>2, <2>3
<1>11. \A j \in DOMAIN c.tasks : \A a \in DOMAIN list(j) : list(j)[a] \in DOMAIN c.tasks
    <2>1. TAKE j \in DOMAIN c.tasks
    <2>2. CASE j \in {first, k}
        BY <1>9, <2>2 DEF Good
    <2>3. CASE j \notin {first, k}
        BY <1>1, <1>3, <2>3
    <2> QED
        BY <2>2, <2>3
<1>12. ASSUME NEW j \in DOMAIN c.tasks, NEW l \in DOMAIN c.tasks, ~d.tasks[j].aborted, ~d.tasks[l].aborted,
              NEW a \in DOMAIN list(j), NEW b \in DOMAIN list(l), list(j)[a] = list(l)[b]
       PROVE  j = l /\ a = b
    <2>1. ~c.tasks[j].aborted /\ ~c.tasks[l].aborted /\ j # k /\ l # k
        BY <1>1, <1>12
    <2>2. ASSUME NEW i \in DOMAIN c.tasks, i # first, i # k, ~c.tasks[i].aborted,
                 NEW e \in DOMAIN list(i), NEW f \in DOMAIN list(first)
          PROVE  list(i)[e] # list(first)[f]
        <3>1. list(i) = c.tasks[i].waiting
            BY <1>1, <2>2
        <3>2. /\ \A g \in DOMAIN queue : queue[g] # list(i)[e]
              /\ \A g \in DOMAIN own : own[g] # list(i)[e]
            BY <1>3, <2>2, <3>1, SMTT(30) DEF queue, own
        <3> QED
            BY <1>7, <3>2
    <2>3. CASE j = first /\ l = first
        BY <1>7, <1>12, <2>3 DEF NoDup
    <2>4. CASE j = first /\ l # first
        BY <1>12, <2>1, <2>2, <2>4
    <2>5. CASE j # first /\ l = first
        BY <1>12, <2>1, <2>2, <2>5
    <2>6. CASE j # first /\ l # first
        <3>1. list(j) = c.tasks[j].waiting /\ list(l) = c.tasks[l].waiting
            BY <1>1, <2>1, <2>6
        <3> QED
            BY <1>3, <1>12, <2>1, <3>1
    <2> QED
        BY <2>3, <2>4, <2>5, <2>6
<1>13. \A j \in DOMAIN c.tasks : ~d.tasks[j].aborted => Patient(d, j)
    BY <1>1, <1>2, <1>10, <1>11 DEF Patient, list
<1>14. Patient(d, k)
    BY <1>1, <1>2, <1>9, <1>11 DEF Patient, list
<1> QED
    BY <1>1, <1>11, <1>12, <1>13, <1>14, ZenonT(60) DEF Waiting, list

Giving(c, d, k, first) ==
    /\ Tasked(c.tasks) /\ c.maintaining = k /\ Runs(c.tasks[k]) /\ c.tasks[k].waiting # <<>>
    /\ first = Head(c.tasks[k].waiting) /\ ~Obtained(c.tasks[first]) /\ HandOver(c, d, k, first)

Given(d, first) == Waits(d.tasks[first]) /\ \A i \in DOMAIN d.posted : ~Connects(d.posted[i])

LEMMA HandsOver ==
    ASSUME NEW c, NEW d, NEW x, NEW q, NEW tc, NEW sel, NEW k \in DOMAIN c.tasks,
           NoTask \notin DOMAIN c.tasks, Core(c, x, q, tc, sel), NEW first, Giving(c, d, k, first)
    PROVE  Core(d, x, q, tc, sel) /\ Given(d, first)
<1>00. /\ Tasked(c.tasks) /\ c.maintaining = k /\ Runs(c.tasks[k]) /\ c.tasks[k].waiting # <<>>
       /\ first = Head(c.tasks[k].waiting) /\ ~Obtained(c.tasks[first]) /\ HandOver(c, d, k, first)
    BY DEF Giving
<1> USE <1>00
<1>1. /\ Staged(c.tasks[k]) /\ Obtained(c.tasks[k]) /\ ~Waits(c.tasks[k]) /\ ~c.tasks[k].aborted
      /\ Patient(c, k) /\ Uses(c, k)
      /\ \A j \in DOMAIN c.tasks : ~Syncing(c.tasks[j])
      /\ \A j \in DOMAIN c.tasks : Runs(c.tasks[j]) /\ Engaged(c, j) => j = k
      /\ \A i \in DOMAIN q : q[i].kind # "SELECT"
      /\ \A i \in DOMAIN tc : ~Selection(tc, i)
      /\ \A i \in DOMAIN c.posted : ~Connects(c.posted[i])
    BY RunnerFacts
<1>3. /\ first \in DOMAIN c.tasks /\ Waits(c.tasks[first]) /\ first # k /\ Staged(c.tasks[first])
      /\ ~c.tasks[first].aborted /\ ~Runs(c.tasks[first]) /\ first # NoTask
    <2>0. 1 \in DOMAIN c.tasks[k].waiting /\ first = c.tasks[k].waiting[1]
        BY TailFacts DEF Tasked
    <2>1. first \in DOMAIN c.tasks /\ Waits(c.tasks[first]) /\ first # k
        BY <1>1, <2>0, SMTT(30) DEF Patient, Core, Waiting
    <2>2. Staged(c.tasks[first])
        BY <2>1 DEF Core, Stages
    <2>3. ~Obtained(c.tasks[first])
        BY <2>1 DEF Waits, Obtained
    <2> QED
        BY <2>1, <2>2, <2>3 DEF Staged, Runs
<1>4. Waiting(d) /\ Patient(d, k)
    BY <1>1, <1>3, HandsOverWaiting DEF Core
<1>5. /\ DOMAIN d.tasks = DOMAIN c.tasks
      /\ \A i \in DOMAIN c.tasks : /\ d.tasks[i].obtain = c.tasks[i].obtain
                                   /\ d.tasks[i].finished = c.tasks[i].finished
                                   /\ d.tasks[i].mailbox = c.tasks[i].mailbox
                                   /\ d.tasks[i].dead = c.tasks[i].dead
                                   /\ d.tasks[i].aborted <=> c.tasks[i].aborted \/ i = k
                                   /\ i # k => d.tasks[i].isRunning = c.tasks[i].isRunning
                                   /\ i # k => d.tasks[i].successor = c.tasks[i].successor
      /\ d.tasks[k].isRunning = "NOT_ANYMORE"
      /\ d.active = c.active /\ d.posted = c.posted /\ d.inCharge = Without(c.inCharge, {k})
      /\ d.maintaining = first
    BY <1>3, ZenonT(60) DEF HandOver
<1>6. \A i \in DOMAIN c.tasks : /\ Obtained(d.tasks[i]) <=> Obtained(c.tasks[i])
                                /\ Waits(d.tasks[i]) <=> Waits(c.tasks[i])
                                /\ Syncing(d.tasks[i]) <=> Syncing(c.tasks[i])
                                /\ Runs(d.tasks[i]) <=> Runs(c.tasks[i]) /\ i # k
    BY <1>5 DEF Obtained, Waits, Syncing, Runs
<1>7. Stages(d)
    <2>1. \A i \in DOMAIN c.tasks : Staged(d.tasks[i])
        <3>1. TAKE i \in DOMAIN c.tasks
        <3>2. CASE i = k
            BY <1>1, <1>5, <1>6, <3>2 DEF Staged, Runs
        <3>3. CASE i # k
            BY <1>5, <1>6, <3>3 DEF Core, Stages, Staged
        <3> QED
            BY <3>2, <3>3
    <2> QED
        BY <1>5, <2>1 DEF Stages
<1>8. Maintaining(d)
    <2>1. \A i \in DOMAIN c.tasks : InCharge(d.inCharge, i) => InCharge(c.inCharge, i)
        BY <1>5 DEF InCharge, Without
    <2>2. \A i \in DOMAIN c.tasks : Engaged(d, i) => Engaged(c, i)
        BY <1>5, <2>1 DEF Engaged
    <2>3. \A m \in Mailboxes : d.inCharge[m] = NoTask \/ d.inCharge[m] \in DOMAIN d.tasks
        BY <1>5 DEF Core, Maintaining, Without
    <2>4. ~Obtained(d.tasks[first])
        BY <1>3, <1>6 DEF Obtained, Waits
    <2> QED
        BY <1>1, <1>3, <1>5, <1>6, <2>2, <2>3, <2>4, ZenonT(60) DEF Maintaining
<1>9. Active(d, x)
    BY <1>5, <1>6, SMTT(30) DEF Core, Active
<1>10. Posted(d)
    <2>1. \A i \in DOMAIN c.posted : PostedFor(d, c.posted[i])
        BY <1>1, <1>5, <1>6 DEF Core, Posted, PostedFor
    <2> QED
        BY <1>1, <1>5, <2>1 DEF Posted
<1>11. Wired(d, q, tc, sel)
    <2>1. Asking(d, q, tc, sel)
        BY <1>1, <1>5 DEF Core, Wired, Asking
    <2>2. Answering(d, q, tc, sel)
        BY <1>1, <1>5 DEF Core, Wired, Answering
    <2>3. \A j \in DOMAIN c.tasks : ~Uses(d, j)
        BY <1>3, <1>5, <1>6, SMTT(30) DEF Uses, Waits
    <2>4. \A j \in DOMAIN c.tasks : Token(q, tc, "UID FETCH", j) => j = k
        BY <1>1 DEF Core, Wired, Using
    <2>6. Using(d, q, tc, sel)
        BY <1>4, <1>5, <2>3, <2>4 DEF Core, Wired, Using
    <2> QED
        BY <2>1, <2>2, <2>6 DEF Wired
<1> QED
    BY <1>1, <1>3, <1>4, <1>5, <1>6, <1>7, <1>8, <1>9, <1>10, <1>11 DEF Core, Given

\* Only k changed.
OnlyOne(c, d, k) == DOMAIN d.tasks = DOMAIN c.tasks /\ \A i \in DOMAIN c.tasks \ {k} : d.tasks[i] = c.tasks[i]

\* What changes when k says SELECT.
SaysSelect(c, d, q, r, k, e, p, cmd) ==
    /\ OnlyOne(c, d, k)
    /\ d.tasks[k].mailbox = c.tasks[k].mailbox /\ d.tasks[k].aborted = c.tasks[k].aborted
    /\ d.tasks[k].isRunning = c.tasks[k].isRunning /\ d.tasks[k].waiting = c.tasks[k].waiting
    /\ d.tasks[k].successor = c.tasks[k].successor /\ d.tasks[k].dead = c.tasks[k].dead
    /\ d.tasks[k].finished = c.tasks[k].finished /\ d.tasks[k].obtain = "SELECTING"
    /\ d.active = Append(c.active, e) /\ e.kind = "obtain" /\ e.task = k
    /\ d.posted = Append(c.posted, p) /\ p.event = "executeCommands" /\ p.of = NoTask
    /\ d.inCharge = c.inCharge /\ d.maintaining = c.maintaining
    /\ r = Append(q, cmd) /\ cmd.kind = "SELECT" /\ cmd.task = k

\* SELECT is the last that is said.
LEMMA Obtains ==
    ASSUME NEW c, NEW d, NEW q, NEW r, NEW tc, NEW sel, NEW k \in DOMAIN c.tasks, NEW e, NEW p, NEW cmd,
           Typed(c), IsSeq(q), Core(c, NoTask, q, tc, sel), c.maintaining = k, Waits(c.tasks[k]),
           \A i \in DOMAIN c.posted : ~Connects(c.posted[i]), SaysSelect(c, d, q, r, k, e, p, cmd)
    PROVE  Core(d, NoTask, r, tc, sel)
<1>00. /\ DOMAIN d.tasks = DOMAIN c.tasks /\ \A i \in DOMAIN c.tasks \ {k} : d.tasks[i] = c.tasks[i]
       /\ d.tasks[k].mailbox = c.tasks[k].mailbox /\ d.tasks[k].aborted = c.tasks[k].aborted
       /\ d.tasks[k].isRunning = c.tasks[k].isRunning /\ d.tasks[k].waiting = c.tasks[k].waiting
       /\ d.tasks[k].successor = c.tasks[k].successor /\ d.tasks[k].dead = c.tasks[k].dead
       /\ d.tasks[k].finished = c.tasks[k].finished /\ d.tasks[k].obtain = "SELECTING"
       /\ d.active = Append(c.active, e) /\ e.kind = "obtain" /\ e.task = k
       /\ d.posted = Append(c.posted, p) /\ p.event = "executeCommands" /\ p.of = NoTask
       /\ d.inCharge = c.inCharge /\ d.maintaining = c.maintaining
       /\ r = Append(q, cmd) /\ cmd.kind = "SELECT" /\ cmd.task = k
    BY DEF SaysSelect, OnlyOne
<1> USE <1>00
<1>0. NoTask \notin DOMAIN c.tasks
    BY TasksCounted
<1>1. /\ Staged(c.tasks[k]) /\ ~Obtained(c.tasks[k]) /\ c.tasks[k].isRunning = "NOT_YET"
      /\ \A j \in DOMAIN c.tasks : ~Syncing(c.tasks[j]) /\ c.tasks[j].obtain # "SELECTING"
      /\ \A j \in DOMAIN c.tasks : ~(Runs(c.tasks[j]) /\ Engaged(c, j))
      /\ \A i \in DOMAIN q : q[i].kind # "SELECT"
      /\ \A i \in DOMAIN tc : ~Selection(tc, i)
    <2>1. Staged(c.tasks[k]) /\ ~Obtained(c.tasks[k]) /\ ~Syncing(c.tasks[k])
        BY DEF Core, Stages, Waits, Obtained, Syncing
    <2>2. c.tasks[k].isRunning = "NOT_YET" /\ ~Runs(c.tasks[k])
        BY <2>1 DEF Staged, Runs
    <2>3. \A j \in DOMAIN c.tasks : ~Syncing(c.tasks[j]) /\ c.tasks[j].obtain # "SELECTING"
        BY <2>1 DEF Core, Maintaining, Syncing
    <2>4. \A j \in DOMAIN c.tasks : ~(Runs(c.tasks[j]) /\ Engaged(c, j))
        BY <2>2 DEF Core, Maintaining
    <2>5. \A i \in DOMAIN q : q[i].kind # "SELECT"
        BY <2>3 DEF Core, Wired, Asking
    <2>6. \A i \in DOMAIN tc : ~Selection(tc, i)
        BY <2>3 DEF Core, Wired, Answering, Selection
    <2> QED
        BY <2>1, <2>2, <2>3, <2>4, <2>5, <2>6
<1>2. \A i \in DOMAIN d.active : (i \in DOMAIN c.active /\ d.active[i] = c.active[i]) \/ d.active[i] = e
    <2>1. /\ DOMAIN c.active = 1 .. Len(c.active) /\ Len(c.active) \in Nat
          /\ \A i \in 1 .. Len(c.active) : Append(c.active, e)[i] = c.active[i]
          /\ Append(c.active, e)[Len(c.active) + 1] = e
          /\ DOMAIN Append(c.active, e) = 1 .. Len(c.active) + 1
        BY SeqFacts, AppendFacts DEF Typed
    <2> QED
        BY <2>1
<1>3. \A i \in DOMAIN d.posted : (i \in DOMAIN c.posted /\ d.posted[i] = c.posted[i]) \/ d.posted[i] = p
    <2>1. /\ DOMAIN c.posted = 1 .. Len(c.posted) /\ Len(c.posted) \in Nat
          /\ \A i \in 1 .. Len(c.posted) : Append(c.posted, p)[i] = c.posted[i]
          /\ Append(c.posted, p)[Len(c.posted) + 1] = p
          /\ DOMAIN Append(c.posted, p) = 1 .. Len(c.posted) + 1
        BY SeqFacts, AppendFacts, SMTT(30) DEF Typed
    <2> QED
        BY <2>1
<1>4. \A i \in DOMAIN r : (i \in DOMAIN q /\ r[i] = q[i]) \/ (r[i] = cmd /\ i = Len(r))
    <2>1. /\ DOMAIN q = 1 .. Len(q) /\ Len(q) \in Nat /\ \A i \in 1 .. Len(q) : Append(q, cmd)[i] = q[i]
          /\ Append(q, cmd)[Len(q) + 1] = cmd /\ Len(Append(q, cmd)) = Len(q) + 1
          /\ DOMAIN Append(q, cmd) = 1 .. Len(q) + 1
        BY SeqFacts, AppendFacts
    <2> QED
        BY <2>1
<1>5. \A i \in DOMAIN c.tasks : /\ Obtained(d.tasks[i]) <=> Obtained(c.tasks[i])
                                /\ Waits(d.tasks[i]) <=> Waits(c.tasks[i]) /\ i # k
                                /\ Syncing(d.tasks[i]) <=> i = k
                                /\ Runs(d.tasks[i]) <=> Runs(c.tasks[i])
                                /\ d.tasks[i].finished = c.tasks[i].finished
                                /\ d.tasks[i].mailbox = c.tasks[i].mailbox
                                /\ d.tasks[i].aborted = c.tasks[i].aborted
                                /\ d.tasks[i].isRunning = c.tasks[i].isRunning
                                /\ d.tasks[i].waiting = c.tasks[i].waiting
    BY <1>1 DEF Obtained, Waits, Syncing, Runs
<1>6. Stages(d)
    <2>1. Staged(d.tasks[k])
        BY <1>1, <1>5 DEF Staged, Runs
    <2> QED
        BY <2>1 DEF Core, Stages
<1>7. Maintaining(d)
    <2>1. \A j \in DOMAIN c.tasks : HasKeep(d.active, j) => HasKeep(c.active, j)
        BY <1>2 DEF HasKeep
    <2>2. \A j \in DOMAIN c.tasks : Called(d.posted, j) => Called(c.posted, j)
        BY <1>0, <1>3 DEF Called
    <2>3. \A j \in DOMAIN c.tasks : Engaged(d, j) => Engaged(c, j)
        BY <1>5, <2>1, <2>2 DEF Engaged
    <2> QED
        BY <1>1, <1>5, <2>3 DEF Core, Maintaining
<1>8. Active(d, NoTask)
    <2>1. \A i \in DOMAIN c.active : /\ c.active[i].kind # "obtain" /\ c.active[i].task \in DOMAIN c.tasks
                                     /\ c.active[i].kind = "keep" => c.tasks[c.active[i].task].isRunning # "NOT_YET"
        BY <1>0, <1>1 DEF Core, Active
    <2> QED
        BY <1>0, <1>2, <1>5, <2>1, SMTT(30) DEF Active
<1>9. Posted(d)
    <2>1. \A j : HasKeep(d.active, j) => HasKeep(c.active, j)
        BY <1>2 DEF HasKeep
    <2>2. \A i \in DOMAIN c.posted : PostedFor(d, c.posted[i])
        BY <1>5, <2>1 DEF Core, Posted, PostedFor
    <2>3. PostedFor(d, p) /\ ~Connects(p)
        BY DEF PostedFor, Connects
    <2> QED
        BY <1>3, <2>2, <2>3 DEF Posted
<1>10. \A j \in DOMAIN c.tasks : Patient(c, j) => Patient(d, j)
    <2>1. \A j \in DOMAIN c.tasks : \A a \in DOMAIN c.tasks[j].waiting :
              c.tasks[j].waiting[a] \in DOMAIN c.tasks
        BY DEF Core, Waiting
    <2>2. ASSUME NEW j \in DOMAIN c.tasks, Patient(c, j), NEW a \in DOMAIN c.tasks[j].waiting
          PROVE  LET w == c.tasks[j].waiting[a] IN
                 w # d.maintaining /\ (Waits(d.tasks[w]) \/ Obtained(d.tasks[w]))
        <3>1. c.tasks[j].waiting[a] \in DOMAIN c.tasks /\ c.tasks[j].waiting[a] # k
            BY <2>1, <2>2 DEF Patient
        <3> QED
            BY <1>5, <2>2, <3>1 DEF Patient
    <2>3. \A j \in DOMAIN c.tasks : d.tasks[j].waiting = c.tasks[j].waiting
        BY <1>5
    <2> QED
        BY <2>2, <2>3 DEF Patient
<1>11. Waiting(d)
    <2>1. Waiting(c)
        BY DEF Core
    <2>2. \A j \in DOMAIN c.tasks : d.tasks[j].waiting = c.tasks[j].waiting
                                    /\ d.tasks[j].aborted = c.tasks[j].aborted
        BY <1>5
    <2> HIDE <1>5
    <2>3. \A j \in DOMAIN c.tasks : ~d.tasks[j].aborted => Patient(d, j)
        BY <1>10, <2>1, <2>2 DEF Waiting
    <2>4. \A j \in DOMAIN c.tasks : \A a \in DOMAIN d.tasks[j].waiting :
              d.tasks[j].waiting[a] \in DOMAIN c.tasks
        BY <2>1, <2>2 DEF Waiting
    <2>5. \A i, j \in DOMAIN c.tasks : ~d.tasks[i].aborted /\ ~d.tasks[j].aborted =>
              \A a \in DOMAIN d.tasks[i].waiting, b \in DOMAIN d.tasks[j].waiting :
                 d.tasks[i].waiting[a] = d.tasks[j].waiting[b] => i = j /\ a = b
        BY <2>1, <2>2 DEF Waiting
    <2>6. DOMAIN d.tasks = DOMAIN c.tasks
        BY <1>00
    <2> HIDE <1>00
    <2> QED
        BY <2>3, <2>4, <2>5, <2>6 DEF Waiting
<1>12. Wired(d, r, tc, sel)
    <2>1. Asking(d, r, tc, sel)
        <3>1. \A i \in DOMAIN q : q[i].task \in DOMAIN c.tasks /\ c.tasks[q[i].task].mailbox = sel
            BY <1>1 DEF Core, Wired, Asking
        <3> QED
            BY <1>1, <1>4, <1>5, <3>1 DEF Asking
    <2>2. Answering(d, r, tc, sel)
        BY <1>1 DEF Core, Wired, Answering
    <2>3. \A j \in DOMAIN c.tasks : ~Uses(d, j)
        BY <1>1, <1>5 DEF Uses, Runs
    <2>4. \A j : /\ Token(r, tc, "UID FETCH", j) => Token(q, tc, "UID FETCH", j)
                 /\ Token(r, tc, "UID SEARCH", j) => Token(q, tc, "UID SEARCH", j)
        BY <1>4 DEF Token, In
    <2>5. ~Token(q, tc, "UID SEARCH", k)
        BY DEF Core, Wired, Using, Waits
    <2>6. Using(d, r, tc, sel)
        BY <1>10, <2>3, <2>4, <2>5 DEF Core, Wired, Using
    <2> QED
        BY <2>1, <2>2, <2>6 DEF Wired
<1> QED
    BY <1>6, <1>7, <1>8, <1>9, <1>11, <1>12 DEF Core

\* A pair of tasks is made; j waits for it, or nobody does.
Opening(c, d, m, k) ==
    /\ DOMAIN d.tasks = DOMAIN c.tasks \cup {k} /\ d.tasks[k] = NewTask(m)
    /\ \A i \in DOMAIN c.tasks \ {c.maintaining} : d.tasks[i] = c.tasks[i]
    /\ d.active = c.active
    /\ d.inCharge = [c.inCharge EXCEPT ![m] = k]

LEMMA NewTaskFacts ==
    ASSUME NEW m
    PROVE  LET t == NewTask(m) IN
           /\ TaskShape(t) /\ IsSeq(t.waiting) /\ t.depending \in Nat /\ Staged(t) /\ Waits(t)
           /\ ~Obtained(t) /\ ~Syncing(t) /\ ~Runs(t) /\ ~t.aborted /\ t.mailbox = m
           /\ t.obtain = "WAIT_FOR_CONN" /\ DOMAIN t.waiting = {}
<1>1. IsSeq(<<>>) /\ DOMAIN <<>> = {}
    BY DEF IsSeq
<1> QED
    BY <1>1 DEF NewTask, TaskShape, TaskFields, Staged, Waits, Obtained, Syncing, Runs, NoTask

\* The first on the connection
LEMMA OpensFirst ==
    ASSUME NEW c, NEW d, NEW x, NEW q, NEW tc, NEW sel, NEW m \in Mailboxes, NEW k, NEW p,
           Typed(c), Core(c, x, q, tc, sel), x \in DOMAIN c.tasks \cup {NoTask},
           k \notin DOMAIN c.tasks, k # NoTask, c.maintaining = NoTask, Opening(c, d, m, k),
           d.maintaining = k, d.posted = Append(c.posted, p), Connects(p), p.of = k
    PROVE  Core(d, x, q, tc, sel)
<1>0. NoTask \notin DOMAIN c.tasks
    BY TasksCounted
<1>1. /\ DOMAIN d.tasks = DOMAIN c.tasks \cup {k} /\ d.tasks[k] = NewTask(m)
      /\ \A i \in DOMAIN c.tasks : d.tasks[i] = c.tasks[i] /\ i # k
      /\ d.active = c.active
      /\ \A n \in Mailboxes : d.inCharge[n] = IF n = m THEN k ELSE c.inCharge[n]
    BY <1>0 DEF Opening, Typed
<1>2. \A i \in DOMAIN d.posted : (i \in DOMAIN c.posted /\ d.posted[i] = c.posted[i])
                                   \/ (d.posted[i] = p /\ i = Len(c.posted) + 1)
    <2>1. /\ DOMAIN c.posted = 1 .. Len(c.posted) /\ Len(c.posted) \in Nat
          /\ \A i \in 1 .. Len(c.posted) : Append(c.posted, p)[i] = c.posted[i]
          /\ Append(c.posted, p)[Len(c.posted) + 1] = p
          /\ DOMAIN Append(c.posted, p) = 1 .. Len(c.posted) + 1
        BY SeqFacts, AppendFacts DEF Typed
    <2> QED
        BY <2>1
<1>3. /\ Staged(d.tasks[k]) /\ Waits(d.tasks[k]) /\ ~Obtained(d.tasks[k]) /\ ~Syncing(d.tasks[k])
      /\ ~Runs(d.tasks[k]) /\ d.tasks[k].obtain = "WAIT_FOR_CONN" /\ DOMAIN d.tasks[k].waiting = {}
    BY <1>1, NewTaskFacts
<1>4. Stages(d)
    BY <1>1, <1>3 DEF Core, Stages
<1>5. \A i \in DOMAIN c.tasks : ~Syncing(c.tasks[i]) /\ ~(Runs(c.tasks[i]) /\ Engaged(c, i))
    BY <1>0 DEF Core, Maintaining
<1>6. Maintaining(d)
    <2>1. \A i \in DOMAIN c.tasks : Called(d.posted, i) => Called(c.posted, i)
        BY <1>1, <1>2 DEF Called
    <2>2. \A i \in DOMAIN c.tasks : InCharge(d.inCharge, i) => InCharge(c.inCharge, i)
        BY <1>1 DEF InCharge
    <2>3. \A i \in DOMAIN c.tasks : Engaged(d, i) => Engaged(c, i)
        BY <1>1, <2>1, <2>2 DEF Engaged
    <2> QED
        BY <1>1, <1>3, <1>5, <2>3 DEF Core, Maintaining
<1>7. Active(d, x)
    BY <1>0, <1>1 DEF Core, Active
<1>8. Posted(d)
    <2>1. \A i \in DOMAIN c.posted : ~Connects(c.posted[i])
        BY <1>0 DEF Core, Posted, PostedFor
    <2>2. \A i \in DOMAIN c.posted : PostedFor(d, c.posted[i])
        BY <1>1, <2>1 DEF Core, Posted, PostedFor
    <2>3. PostedFor(d, p)
        BY <1>1, <1>3 DEF PostedFor, Connects
    <2> QED
        BY <1>2, <2>1, <2>2, <2>3 DEF Posted
<1>9. /\ \A j \in DOMAIN c.tasks : \A a \in DOMAIN c.tasks[j].waiting :
              c.tasks[j].waiting[a] \in DOMAIN c.tasks
      /\ \A j \in DOMAIN c.tasks : Patient(c, j) => Patient(d, j)
    <2>1. \A j \in DOMAIN c.tasks : \A a \in DOMAIN c.tasks[j].waiting :
              c.tasks[j].waiting[a] \in DOMAIN c.tasks
        BY DEF Core, Waiting
    <2> QED
        BY <1>1, <2>1 DEF Patient
<1>10. Patient(d, k)
    BY <1>3 DEF Patient
<1>11. Waiting(d)
    BY <1>1, <1>3, <1>9, <1>10 DEF Core, Waiting
<1>12. Wired(d, q, tc, sel)
    <2>1. Asking(d, q, tc, sel)
        BY <1>1 DEF Core, Wired, Asking
    <2>2. Answering(d, q, tc, sel)
        BY <1>1 DEF Core, Wired, Answering, Selection
    <2>3. \A j \in DOMAIN d.tasks : ~Uses(d, j)
        BY <1>1, <1>3 DEF Uses
    <2>4. ~Token(q, tc, "UID SEARCH", k)
        BY DEF Core, Wired, Asking, Answering, Token, In, AnswerIn
    <2>5. Using(d, q, tc, sel)
        BY <1>1, <1>9, <1>10, <2>3, <2>4 DEF Core, Wired, Using
    <2> QED
        BY <2>1, <2>2, <2>5 DEF Wired
<1> QED
    BY <1>4, <1>6, <1>7, <1>8, <1>11, <1>12 DEF Core

\* One that waits for the keeper which has the connection
LEMMA OpensLater ==
    ASSUME NEW c, NEW d, NEW x, NEW q, NEW tc, NEW sel, NEW m \in Mailboxes, NEW k, NEW j,
           Typed(c), Core(c, x, q, tc, sel), x \in DOMAIN c.tasks \cup {NoTask},
           k \notin DOMAIN c.tasks, k # NoTask, c.maintaining = j, j # NoTask, Opening(c, d, m, k),
           LikeTask([c.tasks[j] EXCEPT !.waiting = Append(@, k)], d.tasks[j]),
           d.maintaining = j, d.posted = c.posted
    PROVE  Core(d, x, q, tc, sel)
<1>0. NoTask \notin DOMAIN c.tasks /\ j \in DOMAIN c.tasks
    BY TasksCounted DEF Core, Maintaining
<1> DEFINE list == c.tasks[j].waiting
<1>1. /\ DOMAIN d.tasks = DOMAIN c.tasks \cup {k} /\ d.tasks[k] = NewTask(m)
      /\ \A i \in DOMAIN c.tasks \ {j} : d.tasks[i] = c.tasks[i]
      /\ d.active = c.active
      /\ \A n \in Mailboxes : d.inCharge[n] = IF n = m THEN k ELSE c.inCharge[n]
    BY <1>0 DEF Opening, Typed
<1>2. /\ d.tasks[j].mailbox = c.tasks[j].mailbox /\ d.tasks[j].obtain = c.tasks[j].obtain
      /\ d.tasks[j].isRunning = c.tasks[j].isRunning /\ d.tasks[j].aborted = c.tasks[j].aborted
      /\ d.tasks[j].finished = c.tasks[j].finished /\ d.tasks[j].dead = c.tasks[j].dead
      /\ d.tasks[j].successor = c.tasks[j].successor /\ d.tasks[j].waiting = Append(list, k)
    <2>1. TaskShape(c.tasks[j])
        BY <1>0 DEF Typed, Tasked
    <2> QED
        BY <2>1 DEF TaskShape, TaskFields, LikeTask
<1>3. /\ Staged(d.tasks[k]) /\ Waits(d.tasks[k]) /\ ~Obtained(d.tasks[k]) /\ ~Syncing(d.tasks[k])
      /\ ~Runs(d.tasks[k]) /\ d.tasks[k].obtain = "WAIT_FOR_CONN" /\ DOMAIN d.tasks[k].waiting = {}
    BY <1>1, NewTaskFacts
<1>4. /\ \A i \in DOMAIN c.tasks : /\ Obtained(d.tasks[i]) <=> Obtained(c.tasks[i])
                                   /\ Waits(d.tasks[i]) <=> Waits(c.tasks[i])
                                   /\ Syncing(d.tasks[i]) <=> Syncing(c.tasks[i])
                                   /\ Runs(d.tasks[i]) <=> Runs(c.tasks[i])
                                   /\ Staged(d.tasks[i]) <=> Staged(c.tasks[i])
                                   /\ d.tasks[i].finished = c.tasks[i].finished
                                   /\ d.tasks[i].mailbox = c.tasks[i].mailbox
                                   /\ d.tasks[i].obtain = c.tasks[i].obtain
                                   /\ d.tasks[i].aborted = c.tasks[i].aborted
                                   /\ d.tasks[i].isRunning = c.tasks[i].isRunning
                                   /\ i # k
      /\ \A i \in DOMAIN c.tasks : i # j => d.tasks[i].waiting = c.tasks[i].waiting
    BY <1>1, <1>2, SMTT(30) DEF Obtained, Waits, Syncing, Runs, Staged
<1>5. Stages(d)
    BY <1>1, <1>3, <1>4 DEF Core, Stages
<1>6. Maintaining(d)
    <2>1. \A i \in DOMAIN c.tasks : InCharge(d.inCharge, i) => InCharge(c.inCharge, i)
        BY <1>1, <1>4 DEF InCharge
    <2>2. \A i \in DOMAIN c.tasks : Engaged(d, i) => Engaged(c, i)
        BY <1>1, <1>4, <2>1 DEF Engaged
    <2> QED
        BY <1>0, <1>1, <1>3, <1>4, <2>2 DEF Core, Maintaining
<1>7. Active(d, x)
    BY <1>0, <1>1, <1>4 DEF Core, Active
<1>8. Posted(d)
    <2>1. \A p : PostedFor(c, p) => PostedFor(d, p)
        BY <1>1, <1>4 DEF PostedFor
    <2> QED
        BY <2>1 DEF Core, Posted
<1>9. ~c.tasks[j].aborted
    BY <1>0 DEF Core, Maintaining, Stages, Staged, Runs
<1>10. /\ DOMAIN list = 1 .. Len(list) /\ Len(list) \in Nat
       /\ \A a \in DOMAIN d.tasks[j].waiting :
            (a \in DOMAIN list /\ d.tasks[j].waiting[a] = list[a])
              \/ (d.tasks[j].waiting[a] = k /\ a = Len(list) + 1)
    <2>1. IsSeq(list)
        BY <1>0 DEF Typed, Tasked
    <2>2. /\ DOMAIN list = 1 .. Len(list) /\ Len(list) \in Nat
          /\ \A a \in 1 .. Len(list) : Append(list, k)[a] = list[a]
          /\ Append(list, k)[Len(list) + 1] = k
          /\ DOMAIN Append(list, k) = 1 .. Len(list) + 1
        BY <2>1, SeqFacts, AppendFacts
    <2> HIDE DEF list
    <2> QED
        BY <1>2, <2>2
<1>11. \A i \in DOMAIN c.tasks : \A a \in DOMAIN c.tasks[i].waiting :
              c.tasks[i].waiting[a] \in DOMAIN c.tasks
    BY DEF Core, Waiting
<1>12. \A i \in DOMAIN c.tasks : Patient(c, i) => Patient(d, i)
    <2>1. \A i \in DOMAIN c.tasks : i # j /\ Patient(c, i) => Patient(d, i)
        BY <1>4, <1>11 DEF Patient
    <2>2. Patient(c, j) => Patient(d, j)
        BY <1>0, <1>3, <1>4, <1>10, <1>11, SMTT(30) DEF Patient
    <2> QED
        BY <2>1, <2>2
<1>13. Patient(d, k)
    BY <1>3 DEF Patient
<1>14. Waiting(d)
    <2>1. \A i \in DOMAIN d.tasks : \A a \in DOMAIN d.tasks[i].waiting :
              d.tasks[i].waiting[a] \in DOMAIN d.tasks
        <3>1. \A a \in DOMAIN d.tasks[j].waiting : d.tasks[j].waiting[a] \in DOMAIN d.tasks
            BY <1>0, <1>1, <1>10, <1>11
        <3> QED
            BY <1>1, <1>3, <1>4, <1>11, <3>1
    <2>2. \A i \in DOMAIN d.tasks : ~d.tasks[i].aborted => Patient(d, i)
        BY <1>1, <1>4, <1>12, <1>13 DEF Core, Waiting
    <2>3. \A i, l \in DOMAIN c.tasks : ~c.tasks[i].aborted /\ ~c.tasks[l].aborted =>
          \A a \in DOMAIN c.tasks[i].waiting, b \in DOMAIN c.tasks[l].waiting :
             c.tasks[i].waiting[a] = c.tasks[l].waiting[b] => i = l /\ a = b
        BY DEF Core, Waiting
    <2>4. ASSUME NEW a \in DOMAIN d.tasks[j].waiting, NEW b \in DOMAIN d.tasks[j].waiting,
                 d.tasks[j].waiting[a] = d.tasks[j].waiting[b]
          PROVE  a = b
        BY <1>0, <1>4, <1>9, <1>10, <1>11, <2>3, <2>4
    <2>5. ASSUME NEW a \in DOMAIN d.tasks[j].waiting, NEW l \in DOMAIN c.tasks, l # j, ~c.tasks[l].aborted,
                 NEW b \in DOMAIN c.tasks[l].waiting
          PROVE  d.tasks[j].waiting[a] # c.tasks[l].waiting[b]
        BY <1>0, <1>4, <1>9, <1>10, <1>11, <2>3, <2>5
    <2>6. \A i, l \in DOMAIN d.tasks : ~d.tasks[i].aborted /\ ~d.tasks[l].aborted =>
          \A a \in DOMAIN d.tasks[i].waiting, b \in DOMAIN d.tasks[l].waiting :
             d.tasks[i].waiting[a] = d.tasks[l].waiting[b] => i = l /\ a = b
        <3>1. SUFFICES ASSUME NEW i \in DOMAIN d.tasks, NEW l \in DOMAIN d.tasks,
                              ~d.tasks[i].aborted, ~d.tasks[l].aborted,
                              NEW a \in DOMAIN d.tasks[i].waiting, NEW b \in DOMAIN d.tasks[l].waiting,
                              d.tasks[i].waiting[a] = d.tasks[l].waiting[b]
                       PROVE  i = l /\ a = b
            OBVIOUS
        <3>2. i \in DOMAIN c.tasks /\ l \in DOMAIN c.tasks /\ ~c.tasks[i].aborted /\ ~c.tasks[l].aborted
            BY <1>1, <1>3, <1>4, <3>1
        <3>3. /\ i # j => d.tasks[i].waiting = c.tasks[i].waiting
              /\ l # j => d.tasks[l].waiting = c.tasks[l].waiting
            BY <1>4, <3>2
        <3>4. CASE i = j /\ l = j
            BY <2>4, <3>1, <3>4
        <3>5. CASE i = j /\ l # j
            BY <2>5, <3>1, <3>2, <3>3, <3>5
        <3>6. CASE i # j /\ l = j
            BY <2>5, <3>1, <3>2, <3>3, <3>6
        <3>7. CASE i # j /\ l # j
            BY <2>3, <3>1, <3>2, <3>3, <3>7
        <3> QED
            BY <3>4, <3>5, <3>6, <3>7
    <2> QED
        BY <2>1, <2>2, <2>6 DEF Waiting
<1>15. Wired(d, q, tc, sel)
    <2>1. Asking(d, q, tc, sel)
        BY <1>1, <1>4 DEF Core, Wired, Asking
    <2>2. Answering(d, q, tc, sel)
        BY <1>1, <1>4 DEF Core, Wired, Answering, Selection
    <2>3. \A i \in DOMAIN c.tasks : Uses(d, i) => Uses(c, i)
        BY <1>4 DEF Uses
    <2>4. \A kind : ~Token(q, tc, kind, k)
        BY DEF Core, Wired, Asking, Answering, Token, In, AnswerIn
    <2>5. Using(c, q, tc, sel)
        BY DEF Core, Wired
    <2>6. \A i \in DOMAIN c.tasks :
            /\ Token(q, tc, "UID SEARCH", i) => d.tasks[i].obtain \notin {"WAIT_FOR_CONN", "SELECTING"}
            /\ Token(q, tc, "UID FETCH", i) => Patient(d, i)
            /\ Uses(d, i) => /\ d.tasks[i].mailbox = sel
                             /\ \A l \in DOMAIN c.tasks : Token(q, tc, "UID FETCH", l) => l = i
        BY <1>4, <1>12, <2>3, <2>5 DEF Using
    <2>7. ~Uses(d, k)
        BY <1>0 DEF Uses
    <2>8. Using(d, q, tc, sel)
        BY <1>1, <2>4, <2>6, <2>7 DEF Using
    <2> QED
        BY <2>1, <2>2, <2>8 DEF Wired
<1> QED
    BY <1>5, <1>6, <1>7, <1>8, <1>14, <1>15 DEF Core

-----------------------------------------------------------------------------
(* What is done when the response has been handled                          *)

\* What changes when the tasks that are over are taken out.
Removing(c, d) ==
    /\ d.tasks = c.tasks /\ d.maintaining = c.maintaining /\ d.inCharge = c.inCharge
    /\ \A i \in DOMAIN d.active : \E j \in DOMAIN c.active :
         d.active[i] = c.active[j] /\ ~isFinished(c, c.active[j])
    /\ More(c.posted, d.posted)
    /\ \A i \in New(c.posted, d.posted) :
         /\ d.posted[i].event = "destroyed"
         /\ \E j \in DOMAIN c.active : d.posted[i].of = c.active[j]
              /\ (c.active[j].kind = "command" \/ isFinished(c, c.active[j]))

\* What is over is no longer active; all of what k made active, when k is over.
LEMMA Removes ==
    ASSUME NEW c, NEW d, NEW x, NEW q, NEW tc, NEW sel,
           NoTask \notin DOMAIN c.tasks, Core(c, x, q, tc, sel), Removing(c, d)
    PROVE  Core(d, NoTask, q, tc, sel)
<1>00. /\ d.tasks = c.tasks /\ d.maintaining = c.maintaining /\ d.inCharge = c.inCharge
       /\ \A i \in DOMAIN d.active : \E j \in DOMAIN c.active :
            d.active[i] = c.active[j] /\ ~isFinished(c, c.active[j])
       /\ More(c.posted, d.posted)
       /\ \A i \in New(c.posted, d.posted) :
            /\ d.posted[i].event = "destroyed"
            /\ \E j \in DOMAIN c.active : d.posted[i].of = c.active[j]
                 /\ (c.active[j].kind = "command" \/ isFinished(c, c.active[j]))
    BY DEF Removing
<1> USE <1>00
<1>1. \A k : /\ HasKeep(d.active, k) => HasKeep(c.active, k) /\ ~c.tasks[k].finished
             /\ Called(d.posted, k) => Called(c.posted, k)
    <2>1. \A k : HasKeep(d.active, k) => HasKeep(c.active, k) /\ ~c.tasks[k].finished
        BY DEF HasKeep, isFinished
    <2>2. \A k : Called(d.posted, k) => Called(c.posted, k)
        BY DEF Called, More, New
    <2> QED
        BY <2>1, <2>2
<1>2. Maintaining(d)
    BY <1>1 DEF Core, Maintaining, Engaged
<1>3. Active(d, NoTask)
    BY DEF Core, Active, isFinished
<1>4. Posted(d)
    <2>1. \A i \in DOMAIN c.posted : PostedFor(d, c.posted[i])
        BY <1>1 DEF Core, Posted, PostedFor
    <2>2. \A i \in New(c.posted, d.posted) : PostedFor(d, d.posted[i]) /\ ~Connects(d.posted[i])
        BY <1>1 DEF Core, Active, PostedFor, Connects, isFinished
    <2>3. \A i \in DOMAIN d.posted : (i \in DOMAIN c.posted /\ d.posted[i] = c.posted[i])
                                        \/ i \in New(c.posted, d.posted)
        BY DEF More, New
    <2> QED
        BY <2>1, <2>2, <2>3 DEF Core, Posted
<1>5. Stages(d) /\ Waiting(d) /\ \A k : Patient(d, k) <=> Patient(c, k)
    BY DEF Core, Stages, Waiting, Patient
<1>6. Wired(d, q, tc, sel)
    BY <1>5 DEF Core, Wired, Asking, Answering, Using, Uses
<1> QED
    BY <1>2, <1>3, <1>4, <1>5, <1>6 DEF Core

-----------------------------------------------------------------------------
(* The wire                                                                 *)

LEMMA NothingLeft ==
    ASSUME NEW s, IsSeq(s), Len(s) = 0
    PROVE  s = <<>> /\ DOMAIN s = {}
BY SeqFacts

\* A response is received.
LEMMA Hears ==
    ASSUME NEW c, NEW x, NEW q, NEW tc, NEW sel, IsSeq(tc), tc # <<>>, Core(c, x, q, tc, sel)
    PROVE  /\ Core(c, x, q, Tail(tc), sel)
           /\ Selection(tc, 1) => q = <<>> /\ \A i \in DOMAIN Tail(tc) : ~Tagged(Tail(tc)[i])
<1>1. \A i \in DOMAIN Tail(tc) : i + 1 \in DOMAIN tc /\ Tail(tc)[i] = tc[i + 1] /\ i + 1 # 1
    BY SeqFacts, TailFacts
<1>2. \A i \in DOMAIN Tail(tc) : i \in Nat /\ 1 <= i
    BY SeqFacts, TailFacts
<1>3. 1 \in DOMAIN tc
    BY TailFacts
<1>4. Asking(c, q, Tail(tc), sel)
    BY <1>1 DEF Core, Wired, Asking, Selection
<1>5. Answering(c, q, Tail(tc), sel)
    BY <1>1, <1>2 DEF Core, Wired, Answering, Selection
<1>6. Using(c, q, Tail(tc), sel)
    <2>1. \A kind, k : Token(q, Tail(tc), kind, k) => Token(q, tc, kind, k)
        BY <1>1 DEF Token, AnswerIn
    <2> QED
        BY <2>1 DEF Core, Wired, Using
<1>7. Selection(tc, 1) => q = <<>> /\ \A i \in DOMAIN Tail(tc) : ~Tagged(Tail(tc)[i])
    BY <1>1, <1>2, <1>3 DEF Core, Wired, Answering
<1> QED
    BY <1>4, <1>5, <1>6, <1>7 DEF Core, Wired

\* The server says something that answers no command.
LEMMA Mentions ==
    ASSUME NEW c, NEW x, NEW q, NEW tc, NEW sel, NEW r, IsSeq(tc), ~Tagged(r), Core(c, x, q, tc, sel)
    PROVE  Core(c, x, q, Append(tc, r), sel)
<1> DEFINE t == Append(tc, r)
<1>1. \A i \in DOMAIN t : (i \in DOMAIN tc /\ t[i] = tc[i]) \/ ~Tagged(t[i])
    BY SeqFacts, AppendFacts
<1> HIDE DEF t
<1>4. Asking(c, q, t, sel)
    BY <1>1 DEF Core, Wired, Asking, Selection
<1>5. Answering(c, q, t, sel)
    BY <1>1 DEF Core, Wired, Answering, Selection
<1>6. Using(c, q, t, sel)
    <2>1. \A kind, k : Token(q, t, kind, k) => Token(q, tc, kind, k)
        BY <1>1 DEF Token, AnswerIn
    <2> QED
        BY <2>1 DEF Core, Wired, Using
<1> QED
    BY <1>4, <1>5, <1>6 DEF Core, Wired, t

\* It answers a command on the messages of the mailbox.
LEMMA AnswersOne ==
    ASSUME NEW c, NEW x, NEW q, NEW tc, NEW sel, NEW r, IsSeq(q), IsSeq(tc), q # <<>>,
           Core(c, x, q, tc, sel), q[1].kind # "SELECT", r.of = q[1].kind, r.task = q[1].task
    PROVE  Core(c, x, Tail(q), Append(tc, r), sel)
<1> DEFINE t == Append(tc, r)
           rest == Tail(q)
<1>1. \A i \in DOMAIN t : (i \in DOMAIN tc /\ t[i] = tc[i]) \/ t[i] = r
    BY SeqFacts, AppendFacts
<1>2. /\ \A i \in DOMAIN rest : i + 1 \in DOMAIN q /\ rest[i] = q[i + 1] /\ i \in Nat
      /\ Len(rest) = Len(q) - 1 /\ Len(q) \in Nat /\ 1 \in DOMAIN q
    BY SeqFacts, TailFacts
<1> HIDE DEF t, rest
<1>3. \A i \in DOMAIN tc : ~Selection(tc, i)
    BY DEF Core, Wired, Answering
<1>4. \A i \in DOMAIN t : ~Selection(t, i)
    BY <1>1, <1>3 DEF Selection
<1>5. Asking(c, rest, t, sel)
    BY <1>2, <1>4 DEF Core, Wired, Asking
<1>6. Answering(c, rest, t, sel)
    <2>1. q[1].task \in DOMAIN c.tasks
        BY <1>2 DEF Core, Wired, Asking
    <2> QED
        BY <1>1, <1>4, <2>1 DEF Core, Wired, Answering
<1>7. Using(c, rest, t, sel)
    <2>1. \A kind, k : Token(rest, t, kind, k) => Token(q, tc, kind, k)
        BY <1>1, <1>2 DEF Token, AnswerIn, In
    <2> QED
        BY <2>1 DEF Core, Wired, Using
<1> QED
    BY <1>5, <1>6, <1>7 DEF Core, Wired, t, rest

\* It answers SELECT, which was the last it was told.
LEMMA AnswersSelect ==
    ASSUME NEW c, NEW x, NEW q, NEW tc, NEW sel, NEW r, NEW new, IsSeq(q), IsSeq(tc), q # <<>>,
           Core(c, x, q, tc, sel), q[1].kind = "SELECT", Tagged(r), r.of = "SELECT", r.task = q[1].task,
           r.kind = "OK" => new = c.tasks[q[1].task].mailbox
    PROVE  Core(c, x, Tail(q), Append(tc, r), new)
<1> DEFINE t == Append(tc, r)
           k == q[1].task
<1>1. \A i \in DOMAIN t : (i \in DOMAIN tc /\ t[i] = tc[i] /\ i <= Len(t)) \/ (t[i] = r /\ i = Len(t))
    BY SeqFacts, AppendFacts
<1>2. 1 \in DOMAIN q /\ Len(q) \in Nat
    BY SeqFacts, TailFacts
<1>3. /\ k \in DOMAIN c.tasks /\ c.tasks[k].obtain = "SELECTING" /\ Len(q) = 1
      /\ \A i \in DOMAIN tc : ~Selection(tc, i)
    BY <1>2 DEF Core, Wired, Asking
<1>4. Tail(q) = <<>> /\ DOMAIN Tail(q) = {}
    <2>1. IsSeq(Tail(q)) /\ Len(Tail(q)) = 0
        BY <1>3, TailFacts
    <2> QED
        BY <2>1, NothingLeft
<1> HIDE DEF t
<1>5. Asking(c, Tail(q), t, new)
    BY <1>4 DEF Asking
<1>6. Answering(c, Tail(q), t, new)
    <2>1. \A i \in DOMAIN t : Tagged(t[i]) => t[i].task \in DOMAIN c.tasks
        BY <1>1, <1>3 DEF Core, Wired, Answering
    <2>2. \A i \in DOMAIN t : Selection(t, i) => t[i] = r /\ i = Len(t)
        BY <1>1, <1>3 DEF Selection
    <2>3. \A i \in DOMAIN t : i <= Len(t)
        BY <1>1, SeqFacts, AppendFacts DEF t
    <2> QED
        BY <1>3, <1>4, <2>1, <2>2, <2>3 DEF Answering
<1>7. Using(c, Tail(q), t, new)
    <2>1. \A j : /\ Token(Tail(q), t, "UID SEARCH", j) => Token(q, tc, "UID SEARCH", j)
                 /\ Token(Tail(q), t, "UID FETCH", j) => Token(q, tc, "UID FETCH", j)
        BY <1>1, <1>4 DEF Token, AnswerIn, In
    <2>2. c.maintaining = k /\ Staged(c.tasks[k]) /\ ~Obtained(c.tasks[k])
        BY <1>3 DEF Core, Stages, Maintaining, Syncing, Obtained
    <2>3. \A j \in DOMAIN c.tasks : ~Uses(c, j)
        BY <1>3, <2>2 DEF Uses, Staged, Runs
    <2> QED
        BY <2>1, <2>3 DEF Core, Wired, Using
<1> QED
    BY <1>5, <1>6, <1>7 DEF Core, Wired, t

-----------------------------------------------------------------------------
(* What the methods change                                                  *)

\* d is c but for some fields.
But(c, d, S) == Shape(d) /\ \A f \in Fields \ S : d[f] = c[f]
TaskBut(t, u, S) == TaskShape(u) /\ \A f \in TaskFields \ S : u[f] = t[f]

\* Only the task k is another one.
TasksBut(s, r, k, S) ==
    /\ IsSeq(r) /\ Len(r) = Len(s) /\ DOMAIN r = DOMAIN s
    /\ \A j \in DOMAIN s \ {k} : r[j] = s[j]
    /\ k \in DOMAIN s => TaskBut(s[k], r[k], S)

\* A task in its place is another one.
LEMMA SetOne ==
    ASSUME NEW s, IsSeq(s), NEW k, NEW u, NEW r, r = [s EXCEPT ![k] = u]
    PROVE  /\ IsSeq(r) /\ Len(r) = Len(s) /\ DOMAIN r = DOMAIN s
           /\ \A j \in DOMAIN s \ {k} : r[j] = s[j]
           /\ k \in DOMAIN s => r[k] = u
<1>1. Len(s) \in Nat /\ DOMAIN s = 1 .. Len(s) /\ s = [j \in 1 .. Len(s) |-> s[j]]
    BY SeqFacts
<1>2. r = [j \in 1 .. Len(s) |-> IF j = k THEN u ELSE s[j]]
    BY <1>1
<1>3. r = [j \in 1 .. Len(s) |-> r[j]]
    BY <1>2
<1>4. IsSeq(r) /\ Len(r) = Len(s) /\ DOMAIN r = 1 .. Len(s)
    BY <1>1, <1>3, MadeSeq
<1> QED
    BY <1>1, <1>2, <1>4

LEMMA CheckFields ==
    ASSUME NEW c, Shape(c), NEW condition, NEW d, d = Check(c, condition)
    PROVE  But(c, d, {"asserted"}) /\ (d.asserted <=> c.asserted \/ ~condition)
BY DEF Shape, Fields, But, Check

LEMMA KillFields ==
    ASSUME NEW c, Shape(c), NEW d, d = Kill(c)
    PROVE  But(c, d, {"killed"}) /\ d.killed
BY DEF Shape, Fields, But, Kill

LEMMA DetachFields ==
    ASSUME NEW c, Shape(c), NEW ks, NEW d, d = detachFromMailbox(c, ks)
    PROVE  /\ But(c, d, {"inCharge", "maintaining"}) /\ d.inCharge = Without(c.inCharge, ks)
           /\ d.maintaining = (IF c.maintaining \in ks THEN NoTask ELSE c.maintaining)
<1>1. But(c, d, {"inCharge", "maintaining"})
    BY DEF Shape, Fields, But, detachFromMailbox
<1>2. d.inCharge = Without(c.inCharge, ks)
    BY DEF Shape, Fields, Without, detachFromMailbox
<1>3. d.maintaining = (IF c.maintaining \in ks THEN NoTask ELSE c.maintaining)
    BY DEF Shape, Fields, detachFromMailbox
<1> QED
    BY <1>1, <1>2, <1>3

LEMMA PostFields ==
    ASSUME NEW c, Shape(c), NEW event, NEW k, NEW d, d = Post(c, event, k)
    PROVE  /\ But(c, d, {"posted"})
           /\ \E p : d.posted = Append(c.posted, p) /\ p.event = event /\ p.of = k
<1>1. But(c, d, {"posted"}) /\ d.posted = Append(c.posted, [event |-> event, of |-> k])
    BY DEF Shape, Fields, But, Post
<1> QED
    BY <1>1

LEMMA QueueFields ==
    ASSUME NEW c, Shape(c), NEW kind, NEW k, NEW d, d = queueCommand(c, kind, k)
    PROVE  /\ But(c, d, {"queue", "posted"})
           /\ \E p : d.posted = Append(c.posted, p) /\ p.event = "executeCommands" /\ p.of = NoTask
           /\ \E cmd : d.queue = Append(c.queue, cmd) /\ cmd.kind = kind /\ cmd.task = k
<1> DEFINE b == [c EXCEPT !.queue = Append(@, [kind |-> kind, task |-> k])]
<1>1. But(c, b, {"queue"}) /\ b.queue = Append(c.queue, [kind |-> kind, task |-> k])
    BY DEF Shape, Fields, But
<1>2. d = Post(b, "executeCommands", NoTask)
    BY DEF queueCommand
<1> HIDE DEF b
<1>3. /\ But(b, d, {"posted"})
      /\ \E p : d.posted = Append(b.posted, p) /\ p.event = "executeCommands" /\ p.of = NoTask
    BY <1>1, <1>2, PostFields DEF But
<1> QED
    BY <1>1, <1>3 DEF But, Fields

LEMMA MarkFields ==
    ASSUME NEW c, Shape(c), NEW kind, NEW k, NEW watchers, NEW d, d = markAsActiveTask(c, kind, k, watchers)
    PROVE  /\ But(c, d, {"active"})
           /\ \E e : d.active = Append(c.active, e) /\ e.kind = kind /\ e.task = k
<1> DEFINE w == (watchers \cup {c.maintaining}) \ (IF kind = "keep" THEN {NoTask, k} ELSE {NoTask})
<1>1. But(c, d, {"active"}) /\ d.active = Append(c.active, [kind |-> kind, task |-> k, watchers |-> w])
    BY DEF Shape, Fields, But, markAsActiveTask
<1> QED
    BY <1>1

\* Where the tasks are sent
LEMMA TypedBut ==
    ASSUME NEW c, NEW d, Typed(c), But(c, d, {"connState", "maintaining", "killed", "asserted", "commands"})
    PROVE  Typed(d)
BY DEF Typed, But, Fields

\* Commands are on their way in the order in which they were said.
LEMMA Piped ==
    ASSUME NEW ts, IsSeq(ts), NEW q, IsSeq(q), NEW r, IsSeq(r)
    PROVE  ts \o (q \o r) = (ts \o q) \o r
<1>1. /\ IsSeq(q \o r) /\ IsSeq(ts \o q)
      /\ Len(q \o r) = Len(q) + Len(r) /\ Len(ts \o q) = Len(ts) + Len(q)
      /\ Len(ts) \in Nat /\ Len(q) \in Nat /\ Len(r) \in Nat
      /\ DOMAIN ts = 1 .. Len(ts) /\ DOMAIN q = 1 .. Len(q) /\ DOMAIN r = 1 .. Len(r)
    BY CatFacts, SeqFacts
<1> DEFINE a == ts \o (q \o r)
           b == (ts \o q) \o r
<1>2. /\ IsSeq(a) /\ Len(a) = Len(ts) + (Len(q) + Len(r))
      /\ \A i \in 1 .. Len(ts) : a[i] = ts[i]
      /\ \A i \in 1 .. Len(q) + Len(r) : a[Len(ts) + i] = (q \o r)[i]
    BY <1>1, CatFacts
<1>3. /\ IsSeq(b) /\ Len(b) = (Len(ts) + Len(q)) + Len(r)
      /\ \A i \in 1 .. Len(ts) + Len(q) : b[i] = (ts \o q)[i]
      /\ \A i \in 1 .. Len(r) : b[Len(ts) + Len(q) + i] = r[i]
    BY <1>1, CatFacts
<1>4. /\ \A i \in 1 .. Len(q) : (q \o r)[i] = q[i]
      /\ \A i \in 1 .. Len(r) : (q \o r)[Len(q) + i] = r[i]
      /\ \A i \in 1 .. Len(ts) : (ts \o q)[i] = ts[i]
      /\ \A i \in 1 .. Len(q) : (ts \o q)[Len(ts) + i] = q[i]
    BY CatFacts
<1> HIDE DEF a, b
<1>5. \A i \in 1 .. Len(ts) + (Len(q) + Len(r)) : a[i] = b[i]
    <2>1. TAKE i \in 1 .. Len(ts) + (Len(q) + Len(r))
    <2>2. CASE i <= Len(ts)
        BY <1>1, <1>2, <1>3, <1>4, <2>2
    <2>3. CASE i > Len(ts) /\ i <= Len(ts) + Len(q)
        <3>1. i - Len(ts) \in 1 .. Len(q) /\ i - Len(ts) \in 1 .. Len(q) + Len(r)
            BY <1>1, <2>3
        <3>2. Len(ts) + (i - Len(ts)) = i /\ i \in 1 .. Len(ts) + Len(q)
            BY <1>1, <2>3
        <3>3. a[i] = (q \o r)[i - Len(ts)] /\ b[i] = (ts \o q)[i] /\ (ts \o q)[i] = q[i - Len(ts)]
            BY <1>2, <1>3, <1>4, <3>1, <3>2
        <3> QED
            BY <1>4, <3>1, <3>3
    <2>4. CASE i > Len(ts) + Len(q)
        <3>1. i - (Len(ts) + Len(q)) \in 1 .. Len(r) /\ i - Len(ts) \in 1 .. Len(q) + Len(r)
            BY <1>1, <2>4
        <3>2. /\ Len(ts) + (i - Len(ts)) = i /\ Len(ts) + Len(q) + (i - (Len(ts) + Len(q))) = i
              /\ Len(q) + (i - (Len(ts) + Len(q))) = i - Len(ts)
            BY <1>1, <2>4
        <3>3. a[i] = (q \o r)[i - Len(ts)] /\ b[i] = r[i - (Len(ts) + Len(q))]
            BY <1>2, <1>3, <3>1, <3>2
        <3>4. (q \o r)[Len(q) + (i - (Len(ts) + Len(q)))] = r[i - (Len(ts) + Len(q))]
            BY <1>4, <3>1
        <3> QED
            BY <3>2, <3>3, <3>4
    <2> QED
        BY <1>1, <2>2, <2>3, <2>4
<1>6. /\ Len(a) = Len(b) /\ a = [i \in 1 .. Len(a) |-> a[i]] /\ b = [i \in 1 .. Len(b) |-> b[i]]
      /\ Len(a) = Len(ts) + (Len(q) + Len(r))
    BY <1>1, <1>2, <1>3, SeqFacts
<1> QED
    BY <1>5, <1>6 DEF a, b

\* One command more
LEMMA PipedOne ==
    ASSUME NEW ts, IsSeq(ts), NEW q, IsSeq(q), NEW cmd
    PROVE  ts \o Append(q, cmd) = Append(ts \o q, cmd) /\ IsSeq(ts \o q) /\ IsSeq(Append(q, cmd))
<1> DEFINE S == {ts[i] : i \in 1 .. Len(ts)}
           T == {q[i] : i \in 1 .. Len(q)}
<1>1. ts \in Seq(S) /\ q \in Seq(T)
    BY DEF IsSeq
<1> HIDE DEF S, T
<1> DEFINE U == (S \cup T) \cup {cmd}
<1>2. ts \in Seq(U) /\ q \in Seq(U) /\ cmd \in U
    BY <1>1
<1> HIDE DEF U
<1>3. ts \o Append(q, cmd) = Append(ts \o q, cmd)
    <2>1. /\ (ts \o Append(q, cmd)) \in Seq(U) /\ Append(ts \o q, cmd) \in Seq(U)
          /\ Len(ts \o Append(q, cmd)) = Len(ts) + (Len(q) + 1)
          /\ Len(Append(ts \o q, cmd)) = (Len(ts) + Len(q)) + 1
          /\ Len(ts) \in Nat /\ Len(q) \in Nat
        BY <1>2
    <2>2. \A i \in 1 .. (Len(ts) + Len(q)) + 1 : (ts \o Append(q, cmd))[i] = Append(ts \o q, cmd)[i]
        BY <1>2
    <2> QED
        BY <2>1, <2>2
<1>4. IsSeq(ts \o q)
    BY CatFacts
<1>5. IsSeq(Append(q, cmd))
    BY AppendFacts
<1> QED
    BY <1>3, <1>4, <1>5

\* One field of one task is another one.
Sets(s, r, k, f, v) == r = [s EXCEPT ![k] = [s[k] EXCEPT ![f] = v]]

LEMMA SetField ==
    ASSUME NEW s, Tasked(s), NEW k \in DOMAIN s, NEW f \in TaskFields, NEW v, NEW r,
           Sets(s, r, k, f, v)
    PROVE  TasksBut(s, r, k, {f}) /\ r[k][f] = v
<1>0. r = [s EXCEPT ![k] = [s[k] EXCEPT ![f] = v]]
    BY DEF Sets
<1>1. IsSeq(s) /\ TaskShape(s[k])
    BY DEF Tasked
<1>2. Len(s) \in Nat /\ DOMAIN s = 1 .. Len(s) /\ s = [j \in 1 .. Len(s) |-> s[j]]
    BY <1>1, SeqFacts
<1>3. r = [j \in 1 .. Len(s) |-> r[j]]
    BY <1>0, <1>2
<1>4. IsSeq(r) /\ Len(r) = Len(s) /\ DOMAIN r = 1 .. Len(s)
    BY <1>2, <1>3, MadeSeq
<1>5. \A j \in DOMAIN s \ {k} : r[j] = s[j]
    BY <1>0, <1>2
<1>6. r[k] = [s[k] EXCEPT ![f] = v]
    BY <1>0, <1>2
<1>7. TaskShape(r[k]) /\ r[k][f] = v /\ \A g \in TaskFields \ {f} : r[k][g] = s[k][g]
    BY <1>1, <1>6 DEF TaskShape
<1> QED
    BY <1>2, <1>4, <1>5, <1>7 DEF TasksBut, TaskBut

\* Changes one after the other
LEMMA TasksButTwice ==
    ASSUME NEW s, NEW r, NEW t, NEW k, NEW S, NEW T, TasksBut(s, r, k, S), TasksBut(r, t, k, T)
    PROVE  TasksBut(s, t, k, S \cup T)
BY DEF TasksBut, TaskBut

LEMMA ButTwice ==
    ASSUME NEW c, NEW d, NEW e, NEW S, NEW T, But(c, d, S), But(d, e, T)
    PROVE  But(c, e, S \cup T)
BY DEF But

LEMMA TaskedBut ==
    ASSUME NEW s, NEW r, NEW k, NEW S, Tasked(s), TasksBut(s, r, k, S),
           k \in DOMAIN s => IsSeq(r[k].waiting) /\ r[k].depending \in Nat
    PROVE  Tasked(r)
<1>1. IsSeq(r) /\ DOMAIN r = DOMAIN s
    BY DEF TasksBut
<1>2. ASSUME NEW j \in DOMAIN r
      PROVE  TaskShape(r[j]) /\ IsSeq(r[j].waiting) /\ r[j].depending \in Nat
    <2>1. CASE j = k
        BY <1>1, <2>1 DEF TasksBut, TaskBut
    <2>2. CASE j # k
        <3>1. r[j] = s[j]
            BY <1>1, <2>2 DEF TasksBut
        <3> QED
            BY <1>1, <3>1 DEF Tasked
    <2> QED
        BY <2>1, <2>2
<1> QED
    BY <1>1, <1>2 DEF Tasked

\* ObtainSynchronizedMailboxTask::perform()
LEMMA ObtainFields ==
    ASSUME NEW c, Typed(c), NEW k \in DOMAIN c.tasks, NEW d, d = Obtain(c, k)
    PROVE  /\ But(c, d, {"tasks", "active", "posted", "queue", "connState"})
           /\ TasksBut(c.tasks, d.tasks, k, {"obtain"}) /\ d.tasks[k].obtain = "SELECTING"
           /\ \E e : d.active = Append(c.active, e) /\ e.kind = "obtain" /\ e.task = k
           /\ \E p : d.posted = Append(c.posted, p) /\ p.event = "executeCommands" /\ p.of = NoTask
           /\ \E cmd : d.queue = Append(c.queue, cmd) /\ cmd.kind = "SELECT" /\ cmd.task = k
<1> DEFINE a == markAsActiveTask(c, "obtain", k, {k})
           b == queueCommand(a, "SELECT", k)
<1>0. Shape(c) /\ Tasked(c.tasks)
    BY DEF Typed
<1>1. But(c, a, {"active"}) /\ \E e : a.active = Append(c.active, e) /\ e.kind = "obtain" /\ e.task = k
    BY <1>0, MarkFields
<1> HIDE DEF a
<1>2. /\ But(a, b, {"queue", "posted"})
      /\ \E p : b.posted = Append(a.posted, p) /\ p.event = "executeCommands" /\ p.of = NoTask
      /\ \E cmd : b.queue = Append(a.queue, cmd) /\ cmd.kind = "SELECT" /\ cmd.task = k
    <2>1. Shape(a)
        BY <1>1 DEF But
    <2> QED
        BY <2>1, QueueFields
<1> DEFINE s == IF server.kind # "no" /\ b.connState # "AUTHENTICATED"
                THEN "WAIT_FOR_CLOSE" ELSE "SELECTING"
           r == [c.tasks EXCEPT ![k] = [c.tasks[k] EXCEPT !["obtain"] = "SELECTING"]]
<1>3. d = [b EXCEPT !.tasks[k].obtain = "SELECTING", !.connState = s]
    BY DEF Obtain, a, b, s
<1> HIDE DEF b, s
<1>4. Shape(b) /\ b.tasks = c.tasks
    BY <1>1, <1>2 DEF But, Fields
<1>5. But(b, d, {"tasks", "connState"}) /\ d.tasks = r
    BY <1>3, <1>4, ZenonT(60) DEF Shape, Fields, But
<1>6. TasksBut(c.tasks, r, k, {"obtain"}) /\ r[k]["obtain"] = "SELECTING"
    <2>1. "obtain" \in TaskFields
        BY DEF TaskFields
    <2>2. Sets(c.tasks, r, k, "obtain", "SELECTING")
        BY DEF Sets
    <2> HIDE DEF r
    <2> QED
        BY <1>0, <2>1, <2>2, SetField
<1> HIDE DEF r
<1>7. But(c, d, {"tasks", "active", "posted", "queue", "connState"})
    BY <1>1, <1>2, <1>5 DEF But
<1>8. a.posted = c.posted /\ a.queue = c.queue /\ b.active = a.active
      /\ d.posted = b.posted /\ d.queue = b.queue /\ d.active = b.active
    BY <1>1, <1>2, <1>5 DEF But, Fields
<1> QED
    BY <1>1, <1>2, <1>5, <1>6, <1>7, <1>8

-----------------------------------------------------------------------------
(* What the methods do                                                      *)

\* The program goes on for a while after an assertion has failed.
Halted(c) == Shape(c) /\ c.asserted
Safe(c, x, ts, tc, sel) == Halted(c) \/ Fine(c, x, ts, tc, sel)

LEMMA ObtainFine ==
    ASSUME NEW c, NEW ts, IsSeq(ts), NEW tc, NEW sel, Fine(c, NoTask, ts, tc, sel),
           NEW k \in DOMAIN c.tasks, c.maintaining = k, Waits(c.tasks[k]),
           \A i \in DOMAIN c.posted : ~Connects(c.posted[i]), NEW d, d = Obtain(c, k)
    PROVE  Fine(d, NoTask, ts, tc, sel) /\ OnlyOne(c, d, k)
<1> DEFINE q == ts \o c.queue
           r == ts \o d.queue
<1>0. Typed(c) /\ Core(c, NoTask, q, tc, sel)
    BY DEF Fine
<1>1. IsSeq(c.active) /\ IsSeq(c.posted) /\ IsSeq(c.queue) /\ Tasked(c.tasks)
    BY <1>0 DEF Typed
<1>2. /\ But(c, d, {"tasks", "active", "posted", "queue", "connState"})
      /\ TasksBut(c.tasks, d.tasks, k, {"obtain"}) /\ d.tasks[k].obtain = "SELECTING"
      /\ \E e : d.active = Append(c.active, e) /\ e.kind = "obtain" /\ e.task = k
      /\ \E p : d.posted = Append(c.posted, p) /\ p.event = "executeCommands" /\ p.of = NoTask
      /\ \E cmd : d.queue = Append(c.queue, cmd) /\ cmd.kind = "SELECT" /\ cmd.task = k
    BY <1>0, ObtainFields, SMTT(30)
<1>3. PICK e : d.active = Append(c.active, e) /\ e.kind = "obtain" /\ e.task = k
    BY <1>2
<1>4. PICK p : d.posted = Append(c.posted, p) /\ p.event = "executeCommands" /\ p.of = NoTask
    BY <1>2
<1>5. PICK cmd : d.queue = Append(c.queue, cmd) /\ cmd.kind = "SELECT" /\ cmd.task = k
    BY <1>2
<1>6. IsSeq(q) /\ r = Append(q, cmd) /\ IsSeq(d.queue)
    <2>1. /\ ts \o Append(c.queue, cmd) = Append(ts \o c.queue, cmd)
          /\ IsSeq(ts \o c.queue) /\ IsSeq(Append(c.queue, cmd))
        BY <1>1, PipedOne, SMTT(30)
    <2> QED
        BY <1>5, <2>1
<1>7. OnlyOne(c, d, k)
    BY <1>2 DEF TasksBut, OnlyOne
<1>8. /\ d.tasks[k].mailbox = c.tasks[k].mailbox /\ d.tasks[k].aborted = c.tasks[k].aborted
      /\ d.tasks[k].isRunning = c.tasks[k].isRunning /\ d.tasks[k].waiting = c.tasks[k].waiting
      /\ d.tasks[k].successor = c.tasks[k].successor /\ d.tasks[k].dead = c.tasks[k].dead
      /\ d.tasks[k].finished = c.tasks[k].finished /\ d.tasks[k].depending = c.tasks[k].depending
    BY <1>2 DEF TasksBut, TaskBut, TaskFields
<1>9. d.inCharge = c.inCharge /\ d.maintaining = c.maintaining /\ Shape(d)
    BY <1>2 DEF But, Fields
<1>10. Typed(d)
    <2>1. IsSeq(d.active) /\ IsSeq(d.posted)
        BY <1>1, <1>3, <1>4, AppendFacts
    <2>2. IsSeq(c.tasks[k].waiting) /\ c.tasks[k].depending \in Nat
        BY <1>1 DEF Tasked
    <2>3. Tasked(d.tasks)
        BY <1>1, <1>2, <1>8, <2>2, TaskedBut
    <2> QED
        BY <1>0, <1>6, <1>9, <2>1, <2>3 DEF Typed
<1> HIDE DEF q, r
<1>12. SaysSelect(c, d, q, r, k, e, p, cmd)
    BY <1>2, <1>3, <1>4, <1>5, <1>6, <1>7, <1>8, <1>9 DEF SaysSelect
<1>11. Core(d, NoTask, r, tc, sel)
    BY <1>0, <1>6, <1>12, Obtains
<1> QED
    BY <1>7, <1>10, <1>11 DEF Fine, r

LEMMA TypedShape ==
    ASSUME NEW c, NEW x, NEW ts, NEW tc, NEW sel, Fine(c, x, ts, tc, sel)
    PROVE  Shape(c) /\ Tasked(c.tasks) /\ NoTask \notin DOMAIN c.tasks
<1>1. Typed(c)
    BY DEF Fine
<1> QED
    BY <1>1, TasksCounted DEF Typed

LEMMA SomeSelf ==
    ASSUME NEW s
    PROVE  Some(s, s)
<1> DEFINE f == [k \in DOMAIN s |-> k]
<1>1. f \in [DOMAIN s -> DOMAIN s]
    OBVIOUS
<1> QED
    BY <1>1 DEF Some

\* What the invariant says does not depend on the ParserState, nor on what has gone wrong.
LEMMA StateFine ==
    ASSUME NEW c, NEW x, NEW ts, NEW tc, NEW sel, Fine(c, x, ts, tc, sel),
           NEW d, But(c, d, {"connState", "killed", "asserted", "commands"})
    PROVE  Fine(d, x, ts, tc, sel)
<1>1. Typed(c) /\ Core(c, x, ts \o c.queue, tc, sel)
    BY DEF Fine
<1>2. /\ d.tasks = c.tasks /\ d.active = c.active /\ d.maintaining = c.maintaining
      /\ d.inCharge = c.inCharge /\ d.posted = c.posted /\ d.queue = c.queue /\ Shape(d)
    BY DEF But, Fields
<1>3. Typed(d)
    BY <1>1, <1>2 DEF Typed
<1>4. Core(d, x, ts \o d.queue, tc, sel)
    <2> DEFINE q == ts \o c.queue
    <2>1. Core(c, x, q, tc, sel) /\ q = ts \o d.queue
        BY <1>1, <1>2
    <2>2. Some(d.posted, c.posted)
        BY <1>2, SomeSelf
    <2> HIDE DEF q
    <2> QED
        BY <1>2, <2>1, <2>2, Dispatched
<1> QED
    BY <1>3, <1>4 DEF Fine

\* slotPerformConnection() for a task that has not had the connection
LEMMA ConnectionFine ==
    ASSUME NEW c, NEW ts, IsSeq(ts), NEW tc, NEW sel, Fine(c, NoTask, ts, tc, sel),
           NEW k \in DOMAIN c.tasks, c.maintaining = k, Waits(c.tasks[k]),
           \A i \in DOMAIN c.posted : ~Connects(c.posted[i]), NEW d, d = slotPerformConnection(c, k)
    PROVE  Safe(d, NoTask, ts, tc, sel) /\ OnlyOne(c, d, k)
<1> DEFINE a == Check(c, ~Obtained(c.tasks[k]))
<1>1. But(c, a, {"asserted"})
    BY TypedShape, CheckFields
<1> HIDE DEF a
<1>2. Fine(a, NoTask, ts, tc, sel)
    <2>1. But(c, a, {"connState", "killed", "asserted", "commands"})
        BY <1>1 DEF But
    <2> QED
        BY <2>1, StateFine
<1>3. a.tasks = c.tasks /\ a.maintaining = c.maintaining /\ a.posted = c.posted /\ Shape(a)
    BY <1>1 DEF But, Fields
<1>4. CASE a.asserted
    <2>1. d = a
        BY <1>4 DEF slotPerformConnection, a
    <2> QED
        BY <1>3, <1>4, <2>1 DEF Safe, Halted, OnlyOne
<1>5. CASE ~a.asserted
    <2>1. ~c.tasks[k].dead
        BY DEF Fine, Core, Stages, Staged, Waits, Obtained
    <2>2. d = Obtain(a, k)
        BY <1>3, <1>5, <2>1 DEF slotPerformConnection, a
    <2>3. Fine(d, NoTask, ts, tc, sel) /\ OnlyOne(a, d, k)
        BY <1>2, <1>3, <2>2, ObtainFine
    <2> QED
        BY <1>3, <2>3 DEF Safe, OnlyOne
<1> QED
    BY <1>4, <1>5

Quieted(c, d, k) ==
    /\ But(c, d, {"asserted", "inCharge", "maintaining", "tasks"})
    /\ c.asserted => d.asserted
    /\ d.inCharge = Without(c.inCharge, {k})
    /\ d.maintaining = (IF c.maintaining = k THEN NoTask ELSE c.maintaining)
    /\ TasksBut(c.tasks, d.tasks, k, {"aborted", "isRunning"})
    /\ d.tasks[k].aborted /\ d.tasks[k].isRunning = "NOT_ANYMORE"

LEMMA QuietFields ==
    ASSUME NEW c, Typed(c), NEW k \in DOMAIN c.tasks, NEW d, d = Quiet(c, k)
    PROVE  Quieted(c, d, k)
<1>0. Shape(c) /\ Tasked(c.tasks)
    BY DEF Typed
<1> DEFINE condition == c.tasks[k].depending = 0 /\ c.tasks[k].busy = 0
           a == Check(c, condition)
           b == detachFromMailbox(a, {k})
<1>1. But(c, a, {"asserted"}) /\ (c.asserted => a.asserted)
    BY <1>0, CheckFields
<1>2. d = [b EXCEPT !.tasks[k].aborted = TRUE, !.tasks[k].isRunning = "NOT_ANYMORE"]
    BY DEF Quiet
<1> HIDE DEF a
<1>3. /\ But(a, b, {"inCharge", "maintaining"}) /\ b.inCharge = Without(a.inCharge, {k})
      /\ b.maintaining = (IF a.maintaining \in {k} THEN NoTask ELSE a.maintaining)
    <2>1. Shape(a)
        BY <1>1 DEF But
    <2> QED
        BY <2>1, DetachFields
<1> HIDE DEF b
<1>4. Shape(b) /\ b.tasks = c.tasks /\ a.inCharge = c.inCharge /\ a.maintaining = c.maintaining
      /\ a.asserted = b.asserted
    BY <1>1, <1>3 DEF But, Fields
<1>5. But(b, d, {"tasks"})
    BY <1>2, <1>4 DEF Shape, Fields, But
<1>6. TasksBut(c.tasks, d.tasks, k, {"aborted", "isRunning"})
      /\ d.tasks[k].aborted /\ d.tasks[k].isRunning = "NOT_ANYMORE"
    <2>1. IsSeq(b.tasks) /\ k \in DOMAIN b.tasks /\ TaskShape(b.tasks[k])
        BY <1>0, <1>4 DEF Tasked
    <2>2. /\ Len(b.tasks) \in Nat /\ DOMAIN b.tasks = 1 .. Len(b.tasks)
          /\ b.tasks = [i \in 1 .. Len(b.tasks) |-> b.tasks[i]]
        BY <2>1, SeqFacts
    <2>3. d.tasks = [i \in 1 .. Len(b.tasks) |-> d.tasks[i]]
        BY <1>2, <1>4, <2>2, ZenonT(60) DEF Shape, Fields
    <2>4. \A i \in DOMAIN b.tasks \ {k} : d.tasks[i] = b.tasks[i]
        BY <1>2, <1>4, <2>2 DEF Shape, Fields
    <2>5. d.tasks[k].aborted /\ d.tasks[k].isRunning = "NOT_ANYMORE"
        BY <1>2, <1>4, <2>1, <2>2 DEF Shape, Fields, TaskShape, TaskFields
    <2>6. TaskBut(b.tasks[k], d.tasks[k], {"aborted", "isRunning"})
        <3> DEFINE t == b.tasks[k]
                   u == d.tasks[k]
        <3>1. u = [t EXCEPT !.aborted = TRUE, !.isRunning = "NOT_ANYMORE"] /\ TaskShape(t)
            BY <1>2, <1>4, <2>1, <2>2 DEF Shape, Fields
        <3> HIDE DEF t, u
        <3>2. TaskBut(t, u, {"aborted", "isRunning"})
            BY <3>1 DEF TaskShape, TaskFields, TaskBut
        <3> QED
            BY <3>2 DEF t, u
    <2>7. IsSeq(d.tasks) /\ Len(d.tasks) = Len(b.tasks) /\ DOMAIN d.tasks = 1 .. Len(b.tasks)
        BY <2>2, <2>3, MadeSeq
    <2> QED
        BY <1>4, <2>2, <2>4, <2>5, <2>6, <2>7 DEF TasksBut
<1>7. But(c, d, {"asserted", "inCharge", "maintaining", "tasks"})
    BY <1>1, <1>3, <1>5 DEF But
<1>8. d.asserted = b.asserted /\ d.inCharge = b.inCharge /\ d.maintaining = b.maintaining
    BY <1>5 DEF But, Fields
<1> QED
    BY <1>1, <1>3, <1>4, <1>6, <1>7, <1>8 DEF Quieted

LEMMA GivesAwayFields ==
    ASSUME NEW c, Typed(c), NEW k \in DOMAIN c.tasks, NEW first \in DOMAIN c.tasks, first # k,
           c.tasks[k].waiting # <<>>, NEW d, d = GivesAway(c, k, first)
    PROVE  /\ But(c, d, {"asserted", "inCharge", "maintaining", "tasks"})
           /\ c.asserted => d.asserted
           /\ Typed(d) /\ HandOver(c, d, k, first)
<1>0. Shape(c) /\ Tasked(c.tasks)
    BY DEF Typed
<1> DEFINE a == Quiet(c, k)
           others == Tail(c.tasks[k].waiting)
           all == others \o c.tasks[first].waiting
<1>1. /\ But(c, a, {"asserted", "inCharge", "maintaining", "tasks"})
      /\ c.asserted => a.asserted
      /\ a.inCharge = Without(c.inCharge, {k})
      /\ TasksBut(c.tasks, a.tasks, k, {"aborted", "isRunning"})
      /\ a.tasks[k].aborted /\ a.tasks[k].isRunning = "NOT_ANYMORE"
    <2>1. a = Quiet(c, k)
        OBVIOUS
    <2> HIDE DEF a
    <2>2. Quieted(c, a, k)
        BY <2>1, QuietFields
    <2> QED
        BY <2>2 DEF Quieted
<1>2. d = [a EXCEPT !.tasks = [a.tasks EXCEPT ![k].waiting = others, ![k].successor = first,
                                              ![first].waiting = others \o @],
                    !.maintaining = first]
    BY DEF GivesAway
<1> HIDE DEF a
<1>3. Shape(a)
    BY <1>1 DEF But
<1>4. IsSeq(c.tasks[k].waiting) /\ IsSeq(c.tasks[first].waiting) /\ c.tasks[k].depending \in Nat
      /\ c.tasks[first].depending \in Nat /\ TaskShape(c.tasks[first])
    BY <1>0 DEF Tasked
<1>5. IsSeq(others) /\ IsSeq(all)
    <2>1. IsSeq(others)
        BY <1>4, TailFacts
    <2> HIDE DEF others
    <2> QED
        BY <1>4, <2>1, CatFacts
<1>6. /\ a.tasks[k].waiting = c.tasks[k].waiting /\ a.tasks[k].depending = c.tasks[k].depending
      /\ a.tasks[first] = c.tasks[first] /\ DOMAIN a.tasks = DOMAIN c.tasks
      /\ TaskShape(a.tasks[k]) /\ TaskShape(a.tasks[first]) /\ IsSeq(a.tasks)
    BY <1>1, <1>4 DEF TasksBut, TaskBut, TaskFields
<1>7. d = [a EXCEPT !.tasks = [a.tasks EXCEPT ![k].waiting = others, ![k].successor = first,
                                              ![first].waiting = all],
                    !.maintaining = first]
    BY <1>2, <1>6 DEF all
<1> HIDE DEF others, all
<1>8. But(a, d, {"tasks", "maintaining"}) /\ d.maintaining = first
    BY <1>3, <1>7 DEF Shape, Fields, But
<1>9. /\ Len(a.tasks) \in Nat /\ DOMAIN a.tasks = 1 .. Len(a.tasks)
      /\ a.tasks = [i \in 1 .. Len(a.tasks) |-> a.tasks[i]]
    BY <1>6, SeqFacts
<1>24. d.tasks = [a.tasks EXCEPT ![k].waiting = others, ![k].successor = first, ![first].waiting = all]
    BY <1>3, <1>7 DEF Shape, Fields
<1>10. d.tasks = [i \in 1 .. Len(a.tasks) |-> d.tasks[i]]
    BY <1>9, <1>24
<1>11. \A i \in DOMAIN a.tasks \ {k, first} : d.tasks[i] = a.tasks[i]
    BY <1>9, <1>24
<1>12. TaskBut(a.tasks[k], d.tasks[k], {"waiting", "successor"})
    <2> DEFINE t == a.tasks[k]
               u == d.tasks[k]
    <2>1. u = [t EXCEPT !.waiting = others, !.successor = first] /\ TaskShape(t)
        BY <1>6, <1>9, <1>24
    <2> HIDE DEF t, u
    <2>2. TaskBut(t, u, {"waiting", "successor"})
        BY <2>1 DEF TaskShape, TaskFields, TaskBut
    <2> QED
        BY <2>2 DEF t, u
<1>13. TaskBut(a.tasks[first], d.tasks[first], {"waiting"})
    <2> DEFINE t == a.tasks[first]
               u == d.tasks[first]
    <2>1. u = [t EXCEPT !.waiting = all] /\ TaskShape(t)
        BY <1>6, <1>9, <1>24
    <2> HIDE DEF t, u
    <2>2. TaskBut(t, u, {"waiting"})
        BY <2>1 DEF TaskShape, TaskFields, TaskBut
    <2> QED
        BY <2>2 DEF t, u
<1>14. d.tasks[k].waiting = others
    BY <1>3, <1>6, <1>7, <1>9 DEF Shape, Fields, TaskShape, TaskFields
<1>15. d.tasks[first].waiting = all
    BY <1>3, <1>6, <1>7, <1>9 DEF Shape, Fields, TaskShape, TaskFields
<1>16. IsSeq(d.tasks) /\ DOMAIN d.tasks = DOMAIN c.tasks
    BY <1>6, <1>9, <1>10, MadeSeq
<1>17. d.tasks[k].depending = c.tasks[k].depending /\ d.tasks[first].depending = c.tasks[first].depending
    BY <1>6, <1>12, <1>13 DEF TaskBut, TaskFields
<1>18. \A i \in DOMAIN c.tasks \ {k, first} : d.tasks[i] = c.tasks[i]
    BY <1>1, <1>6, <1>11 DEF TasksBut
<1>19. Tasked(d.tasks)
    <2>1. ASSUME NEW i \in DOMAIN c.tasks
          PROVE  TaskShape(d.tasks[i]) /\ IsSeq(d.tasks[i].waiting) /\ d.tasks[i].depending \in Nat
        <3>1. CASE i = k
            BY <1>4, <1>5, <1>12, <1>14, <1>17, <3>1 DEF TaskBut
        <3>2. CASE i = first
            BY <1>4, <1>5, <1>13, <1>15, <1>17, <3>2 DEF TaskBut
        <3>3. CASE i \notin {k, first}
            BY <1>0, <1>18, <3>3 DEF Tasked
        <3> QED
            BY <3>1, <3>2, <3>3
    <2> QED
        BY <1>16, <2>1 DEF Tasked
<1>20. But(c, d, {"asserted", "inCharge", "maintaining", "tasks"})
    BY <1>1, <1>8 DEF But
<1>21. /\ d.asserted = a.asserted /\ d.inCharge = a.inCharge
       /\ d.active = c.active /\ d.posted = c.posted /\ d.queue = c.queue /\ Shape(d)
    BY <1>8, <1>20 DEF But, Fields
<1>22. Typed(d)
    BY <1>1, <1>19, <1>21 DEF Typed, Without
<1>23. HandOver(c, d, k, first)
    <2>1. /\ d.tasks[k].mailbox = c.tasks[k].mailbox /\ d.tasks[k].obtain = c.tasks[k].obtain
          /\ d.tasks[k].dead = c.tasks[k].dead /\ d.tasks[k].finished = c.tasks[k].finished
          /\ d.tasks[k].aborted /\ d.tasks[k].isRunning = "NOT_ANYMORE"
        BY <1>1, <1>12 DEF TasksBut, TaskBut, TaskFields
    <2>2. /\ d.tasks[first].mailbox = c.tasks[first].mailbox
          /\ d.tasks[first].obtain = c.tasks[first].obtain
          /\ d.tasks[first].dead = c.tasks[first].dead /\ d.tasks[first].finished = c.tasks[first].finished
          /\ d.tasks[first].aborted = c.tasks[first].aborted
          /\ d.tasks[first].isRunning = c.tasks[first].isRunning
          /\ d.tasks[first].successor = c.tasks[first].successor
        BY <1>6, <1>13 DEF TaskBut, TaskFields
    <2> QED
        BY <1>1, <1>8, <1>14, <1>15, <1>16, <1>18, <1>21, <2>1, <2>2 DEF HandOver, others, all
<1> QED
    BY <1>1, <1>20, <1>21, <1>22, <1>23

Ending(c, k) == [c EXCEPT !.tasks[k].finished = @ \/ c.connState # "WAIT_FOR_CLOSE"]

LEMMA TerminateIs ==
    ASSUME NEW c, NEW k
    PROVE  terminate(c, k) =
             IF c.tasks[k].aborted THEN c
             ELSE Ending(IF c.tasks[k].waiting = <<>> THEN Quiet(c, k)
                         ELSE slotPerformConnection(GivesAway(c, k, Head(c.tasks[k].waiting)),
                                                    Head(c.tasks[k].waiting)), k)
BY DEF terminate, Ending

LEMMA EndingFields ==
    ASSUME NEW c, Typed(c), NEW k \in DOMAIN c.tasks, NEW d, d = Ending(c, k)
    PROVE  /\ But(c, d, {"tasks"}) /\ TasksBut(c.tasks, d.tasks, k, {"finished"})
           /\ c.tasks[k].finished => d.tasks[k].finished
<1> DEFINE v == c.tasks[k].finished \/ c.connState # "WAIT_FOR_CLOSE"
           r == [c.tasks EXCEPT ![k] = [c.tasks[k] EXCEPT !["finished"] = v]]
<1>1. Shape(c) /\ Tasked(c.tasks)
    BY DEF Typed
<1>2. d = [c EXCEPT !.tasks[k].finished = v]
    BY DEF Ending
<1> HIDE DEF v
<1>3. But(c, d, {"tasks"}) /\ d.tasks = r
    BY <1>1, <1>2 DEF Shape, Fields, But
<1>4. TasksBut(c.tasks, r, k, {"finished"}) /\ r[k]["finished"] = v
    <2>1. "finished" \in TaskFields /\ Sets(c.tasks, r, k, "finished", v)
        BY DEF TaskFields, Sets
    <2> HIDE DEF r
    <2> QED
        BY <1>1, <2>1, SetField, SMTT(30)
<1> HIDE DEF r
<1> QED
    BY <1>3, <1>4 DEF v

LEMMA EndingHalted ==
    ASSUME NEW c, Halted(c), NEW k, NEW d, d = Ending(c, k)
    PROVE  Halted(d)
BY DEF Halted, Ending, Shape, Fields

LEMMA NobodyLess ==
    ASSUME NEW c, Typed(c)
    PROVE  Without(c.inCharge, {}) = c.inCharge
BY DEF Typed, Without

\* The keeper that has given the connection away ends.
LEMMA EndingFine ==
    ASSUME NEW c, NEW x, NEW ts, NEW tc, NEW sel, Fine(c, x, ts, tc, sel),
           NEW k \in DOMAIN c.tasks, c.tasks[k].aborted, NEW d, d = Ending(c, k)
    PROVE  Fine(d, x, ts, tc, sel) /\ OnlyOne(c, d, k) /\ d.tasks[k].aborted
<1> DEFINE q == ts \o c.queue
<1>1. Typed(c) /\ Core(c, x, q, tc, sel)
    BY DEF Fine
<1>2. /\ But(c, d, {"tasks"}) /\ TasksBut(c.tasks, d.tasks, k, {"finished"})
      /\ c.tasks[k].finished => d.tasks[k].finished
    BY <1>1, EndingFields
<1>3. /\ d.active = c.active /\ d.posted = c.posted /\ d.queue = c.queue /\ Shape(d)
      /\ d.inCharge = c.inCharge /\ d.maintaining = c.maintaining
    BY <1>2 DEF But, Fields
<1>4. Tasked(c.tasks) /\ NoTask \notin DOMAIN c.tasks
    BY <1>1, TasksCounted DEF Typed
<1>5. /\ d.tasks[k].mailbox = c.tasks[k].mailbox /\ d.tasks[k].aborted = c.tasks[k].aborted
      /\ d.tasks[k].isRunning = c.tasks[k].isRunning /\ d.tasks[k].waiting = c.tasks[k].waiting
      /\ d.tasks[k].successor = c.tasks[k].successor /\ d.tasks[k].dead = c.tasks[k].dead
      /\ d.tasks[k].obtain = c.tasks[k].obtain /\ d.tasks[k].depending = c.tasks[k].depending
    BY <1>2 DEF TasksBut, TaskBut, TaskFields
<1>6. OnlyOne(c, d, k)
    BY <1>2 DEF TasksBut, OnlyOne
<1>7. Typed(d)
    <2>1. IsSeq(d.tasks[k].waiting) /\ d.tasks[k].depending \in Nat
        BY <1>4, <1>5 DEF Tasked
    <2>2. Tasked(d.tasks)
        BY <1>2, <1>4, <2>1, TaskedBut
    <2> QED
        BY <1>1, <1>3, <2>2 DEF Typed
<1>8. Obtained(c.tasks[k])
    BY <1>1 DEF Core, Stages, Staged
<1>9. Failing(c, d, {})
    <2>1. d.inCharge = Without(c.inCharge, {})
        BY <1>1, <1>3, NobodyLess
    <2> QED
        BY <1>2, <1>3, <1>5, <1>6, <1>8, <2>1 DEF Failing, OnlyOne
<1> HIDE DEF q
<1>10. Core(d, x, q, tc, sel)
    <2>1. {} \in SUBSET Idle(c)
        OBVIOUS
    <2> QED
        BY <1>1, <1>4, <1>9, <2>1, Fails
<1> QED
    BY <1>3, <1>5, <1>6, <1>7, <1>10 DEF Fine, q

\* A keeper gives the connection away that has it.
LEMMA TerminateFine ==
    ASSUME NEW c, NEW ts, IsSeq(ts), NEW tc, NEW sel, Fine(c, NoTask, ts, tc, sel),
           NEW k \in DOMAIN c.tasks, c.tasks[k].aborted \/ (Runs(c.tasks[k]) /\ c.maintaining = k),
           NEW d, d = terminate(c, k)
    PROVE  /\ Safe(d, NoTask, ts, tc, sel)
           /\ d.asserted \/ (DOMAIN d.tasks = DOMAIN c.tasks /\ d.tasks[k].aborted)
<1> DEFINE waiting == c.tasks[k].waiting
           q == ts \o c.queue
<1>1. Typed(c) /\ Core(c, NoTask, q, tc, sel)
    BY DEF Fine
<1>2. Tasked(c.tasks) /\ NoTask \notin DOMAIN c.tasks
    BY <1>1, TasksCounted DEF Typed
<1>3. CASE c.tasks[k].aborted
    BY <1>3 DEF terminate, Safe
<1> SUFFICES ASSUME ~c.tasks[k].aborted, Runs(c.tasks[k]), c.maintaining = k
             PROVE  /\ Safe(d, NoTask, ts, tc, sel)
                    /\ d.asserted \/ (DOMAIN d.tasks = DOMAIN c.tasks /\ d.tasks[k].aborted)
    BY <1>3
<1>4. CASE waiting = <<>>
    <2> DEFINE a == Quiet(c, k)
    <2>1. d = Ending(a, k)
        BY <1>4, TerminateIs
    <2>2. Quieted(c, a, k)
        <3>1. a = Quiet(c, k)
            OBVIOUS
        <3> HIDE DEF a
        <3> QED
            BY <1>1, <3>1, QuietFields
    <2> HIDE DEF a
    <2>3. /\ a.active = c.active /\ a.posted = c.posted /\ a.queue = c.queue /\ Shape(a)
          /\ a.inCharge = Without(c.inCharge, {k}) /\ a.maintaining = NoTask
        BY <2>2 DEF Quieted, But, Fields
    <2>4. /\ a.tasks[k].mailbox = c.tasks[k].mailbox /\ a.tasks[k].obtain = c.tasks[k].obtain
          /\ a.tasks[k].waiting = c.tasks[k].waiting /\ a.tasks[k].dead = c.tasks[k].dead
          /\ a.tasks[k].finished = c.tasks[k].finished /\ a.tasks[k].depending = c.tasks[k].depending
          /\ a.tasks[k].aborted /\ a.tasks[k].isRunning = "NOT_ANYMORE"
        BY <2>2 DEF Quieted, TasksBut, TaskBut, TaskFields
    <2>5. DOMAIN a.tasks = DOMAIN c.tasks /\ \A i \in DOMAIN c.tasks \ {k} : a.tasks[i] = c.tasks[i]
        BY <2>2 DEF Quieted, TasksBut
    <2>6. Typed(a)
        <3>1. IsSeq(a.tasks[k].waiting) /\ a.tasks[k].depending \in Nat
            BY <1>2, <2>4 DEF Tasked
        <3>2. Tasked(a.tasks)
            BY <1>2, <2>2, <3>1, TaskedBut DEF Quieted
        <3> QED
            BY <1>1, <2>3, <3>2 DEF Typed, Without
    <2>7. Quieting(c, a, k)
        BY <2>3, <2>4, <2>5 DEF Quieting
    <2>8. Core(a, NoTask, q, tc, sel)
        <3> HIDE DEF q
        <3> QED
            BY <1>1, <1>2, <2>7, Quiets
    <2>9. Fine(a, NoTask, ts, tc, sel)
        BY <2>3, <2>6, <2>8 DEF Fine
    <2>10. Fine(d, NoTask, ts, tc, sel) /\ OnlyOne(a, d, k) /\ d.tasks[k].aborted
        BY <2>1, <2>4, <2>5, <2>9, EndingFine
    <2> QED
        BY <2>5, <2>10 DEF Safe, OnlyOne
<1>5. CASE waiting # <<>>
    <2> DEFINE first == Head(waiting)
               a == GivesAway(c, k, first)
               b == slotPerformConnection(a, first)
    <2>1. d = Ending(b, k)
        BY <1>5, TerminateIs
    <2>2. first \in DOMAIN c.tasks /\ first # k
        <3>1. IsSeq(waiting)
            BY <1>2 DEF Tasked
        <3>2. first = waiting[1] /\ 1 \in DOMAIN waiting
            <4> HIDE DEF waiting
            <4> QED
                BY <1>5, <3>1, TailFacts
        <3>3. waiting[1] \in DOMAIN c.tasks /\ waiting[1] # c.maintaining
            BY <1>1, <3>2 DEF Core, Waiting, Patient
        <3> QED
            BY <3>2, <3>3
    <2>3. Typed(a) /\ HandOver(c, a, k, first) /\ But(c, a, {"asserted", "inCharge", "maintaining", "tasks"})
        <3>1. a = GivesAway(c, k, first)
            OBVIOUS
        <3> HIDE DEF a, first
        <3> QED
            BY <1>1, <1>5, <2>2, <3>1, GivesAwayFields
    <2>4. first = Head(c.tasks[k].waiting)
        OBVIOUS
    <2>5. b = slotPerformConnection(a, first)
        OBVIOUS
    <2> HIDE DEF a, first, b
    <2>6. Shape(a) /\ a.queue = c.queue
        BY <2>3 DEF But, Fields
    <2>7. CASE Obtained(a.tasks[first])
        <3> DEFINE condition == ~Obtained(a.tasks[first])
                   e == Check(a, condition)
        <3>1. But(a, e, {"asserted"}) /\ (e.asserted <=> a.asserted \/ ~condition)
            <4> HIDE DEF condition
            <4> QED
                BY <2>6, CheckFields
        <3>2. Halted(b)
            <4>1. e.asserted
                BY <2>7, <3>1
            <4>2. b = e
                BY <2>5, <4>1 DEF slotPerformConnection
            <4> HIDE DEF e
            <4> QED
                BY <3>1, <4>1, <4>2 DEF Halted, But
        <3>3. Halted(d)
            BY <2>1, <3>2, EndingHalted
        <3> QED
            BY <3>3 DEF Safe, Halted
    <2>8. CASE ~Obtained(a.tasks[first])
        <3>1. ~Obtained(c.tasks[first])
            BY <2>3, <2>8 DEF HandOver, Obtained
        <3>2. /\ Core(a, NoTask, q, tc, sel) /\ Waits(a.tasks[first])
              /\ \A i \in DOMAIN a.posted : ~Connects(a.posted[i])
            <4>1. c.tasks[k].waiting # <<>>
                BY <1>5
            <4> HIDE DEF q, waiting
            <4>2. Giving(c, a, k, first)
                BY <1>2, <2>3, <2>4, <3>1, <4>1 DEF Giving
            <4>3. Core(a, NoTask, q, tc, sel) /\ Given(a, first)
                BY <1>1, <1>2, <4>2, HandsOver
            <4> QED
                BY <4>3 DEF Given
        <3>3. Fine(a, NoTask, ts, tc, sel)
            BY <2>3, <2>6, <3>2 DEF Fine
        <3>4. /\ DOMAIN a.tasks = DOMAIN c.tasks /\ a.maintaining = first /\ a.tasks[k].aborted
            BY <2>3 DEF HandOver
        <3>5. Safe(b, NoTask, ts, tc, sel) /\ OnlyOne(a, b, first)
            BY <2>2, <2>5, <3>2, <3>3, <3>4, ConnectionFine
        <3>6. DOMAIN b.tasks = DOMAIN c.tasks /\ b.tasks[k].aborted
            BY <2>2, <3>4, <3>5 DEF OnlyOne
        <3>7. CASE Halted(b)
            <4>1. Halted(d)
                BY <2>1, <3>7, EndingHalted
            <4> QED
                BY <4>1 DEF Safe, Halted
        <3>8. CASE Fine(b, NoTask, ts, tc, sel)
            <4>1. Fine(d, NoTask, ts, tc, sel) /\ OnlyOne(b, d, k) /\ d.tasks[k].aborted
                BY <2>1, <3>6, <3>8, EndingFine
            <4> QED
                BY <3>6, <4>1 DEF Safe, OnlyOne
        <3> QED
            BY <3>5, <3>7, <3>8 DEF Safe
    <2> QED
        BY <2>7, <2>8
<1> QED
    BY <1>4, <1>5

\* r is s and at the end perhaps x, more than once.
Extends(s, r, x) == IsSeq(r) /\ More(s, r) /\ \A i \in New(s, r) : r[i] = x

LEMMA TimesExtend ==
    ASSUME NEW s, IsSeq(s), NEW n \in Nat, NEW x
    PROVE  Extends(s, s \o Times(n, x), x)
<1> DEFINE t == Times(n, x)
           r == s \o t
<1>1. t = [i \in 1 .. n |-> x]
    BY DEF Times
<1>2. IsSeq(t) /\ Len(t) = n /\ \A i \in 1 .. n : t[i] = x
    <2>1. t = [i \in 1 .. n |-> t[i]]
        BY <1>1
    <2>2. \A i \in 1 .. n : t[i] = x
        BY <1>1
    <2> HIDE DEF t
    <2> QED
        BY <2>1, <2>2, MadeSeq
<1> HIDE DEF t
<1>3. /\ IsSeq(r) /\ Len(r) = Len(s) + n /\ DOMAIN r = 1 .. Len(s) + n
      /\ \A i \in 1 .. Len(s) : r[i] = s[i]
      /\ \A i \in 1 .. n : r[Len(s) + i] = t[i]
    <2>1. r = s \o t
        OBVIOUS
    <2> HIDE DEF r
    <2>2. Joined(r, s, t)
        BY <1>2, <2>1, CatIs
    <2> QED
        BY <1>2, <2>2 DEF Joined
<1>4. Len(s) \in Nat /\ DOMAIN s = 1 .. Len(s)
    BY SeqFacts
<1> HIDE DEF r
<1>5. \A i \in New(s, r) : i - Len(s) \in 1 .. n /\ Len(s) + (i - Len(s)) = i
    BY <1>3, <1>4 DEF New
<1>6. \A i \in New(s, r) : r[i] = x
    BY <1>2, <1>3, <1>5
<1>7. More(s, r)
    BY <1>3, <1>4 DEF More
<1> QED
    BY <1>3, <1>6, <1>7 DEF Extends, r, t

LEMMA AppendExtends ==
    ASSUME NEW s, IsSeq(s), NEW x
    PROVE  Extends(s, Append(s, x), x)
<1>1. /\ IsSeq(Append(s, x)) /\ DOMAIN Append(s, x) = 1 .. Len(s) + 1
      /\ \A k \in 1 .. Len(s) : Append(s, x)[k] = s[k]
      /\ Append(s, x)[Len(s) + 1] = x
    BY AppendFacts
<1>2. Len(s) \in Nat /\ DOMAIN s = 1 .. Len(s)
    BY SeqFacts
<1> QED
    BY <1>1, <1>2 DEF Extends, More, New

LEMMA SaidBehind ==
    ASSUME NEW ts, IsSeq(ts), NEW q, IsSeq(q), NEW r, IsSeq(r), NEW k, Said(q, r, k)
    PROVE  Said(ts \o q, ts \o r, k)
<1> DEFINE a == ts \o q
           b == ts \o r
<1>1. /\ IsSeq(a) /\ DOMAIN a = 1 .. Len(ts) + Len(q)
      /\ \A i \in 1 .. Len(ts) : a[i] = ts[i]
      /\ \A i \in 1 .. Len(q) : a[Len(ts) + i] = q[i]
    BY CatFacts
<1>2. /\ IsSeq(b) /\ DOMAIN b = 1 .. Len(ts) + Len(r)
      /\ \A i \in 1 .. Len(ts) : b[i] = ts[i]
      /\ \A i \in 1 .. Len(r) : b[Len(ts) + i] = r[i]
    BY CatFacts
<1>3. /\ Len(ts) \in Nat /\ Len(q) \in Nat /\ Len(r) \in Nat
      /\ DOMAIN q = 1 .. Len(q) /\ DOMAIN r = 1 .. Len(r)
    BY SeqFacts
<1> HIDE DEF a, b
<1>4. \A i \in 1 .. Len(q) : i \in 1 .. Len(r) /\ r[i] = q[i]
    BY <1>3 DEF Said, More
<1>5. More(a, b)
    <2> SUFFICES ASSUME NEW i \in DOMAIN a PROVE i \in DOMAIN b /\ b[i] = a[i]
        BY DEF More
    <2>1. CASE i \in 1 .. Len(ts)
        BY <1>1, <1>2, <1>3, <2>1
    <2>2. CASE i \notin 1 .. Len(ts)
        <3>1. i - Len(ts) \in 1 .. Len(q) /\ Len(ts) + (i - Len(ts)) = i
            BY <1>1, <1>3, <2>2
        <3>2. a[i] = q[i - Len(ts)]
            BY <1>1, <3>1
        <3>3. i - Len(ts) \in 1 .. Len(r) /\ r[i - Len(ts)] = q[i - Len(ts)]
            BY <1>4, <3>1
        <3>4. b[i] = r[i - Len(ts)] /\ i \in 1 .. Len(ts) + Len(r)
            BY <1>2, <1>3, <3>1, <3>3
        <3> QED
            BY <1>2, <3>2, <3>3, <3>4
    <2> QED
        BY <2>1, <2>2
<1>6. ASSUME NEW i \in New(a, b) PROVE b[i].kind # "SELECT" /\ b[i].task = k
    <2>1. i - Len(ts) \in DOMAIN r \ DOMAIN q /\ Len(ts) + (i - Len(ts)) = i
        BY <1>1, <1>2, <1>3, <1>6 DEF New
    <2>2. b[i] = r[i - Len(ts)]
        BY <1>2, <1>3, <2>1
    <2> QED
        BY <2>1, <2>2 DEF Said, New
<1> QED
    BY <1>5, <1>6 DEF Said, a, b

\* Whoever has the connection says something.
LEMMA SpeaksFine ==
    ASSUME NEW c, NEW x, NEW ts, IsSeq(ts), NEW tc, NEW sel, Fine(c, x, ts, tc, sel), NEW d, Typed(d),
           NEW k \in DOMAIN c.tasks, Alike(c, d), Speaking(c, d, k), Said(c.queue, d.queue, k),
           d.queue = c.queue \/ Uses(c, k)
    PROVE  Fine(d, x, ts, tc, sel)
<1> DEFINE q == ts \o c.queue
           r == ts \o d.queue
<1>1. Typed(c) /\ Core(c, x, q, tc, sel)
    BY DEF Fine
<1>2. Said(q, r, k)
    <2>1. IsSeq(c.queue) /\ IsSeq(d.queue)
        BY <1>1 DEF Typed
    <2> QED
        BY <2>1, SaidBehind
<1>3. r = q \/ Uses(c, k)
    OBVIOUS
<1>4. NoTask \notin DOMAIN c.tasks
    BY <1>1, TasksCounted
<1> HIDE DEF q, r
<1>5. Core(d, x, r, tc, sel)
    BY <1>1, <1>2, <1>3, <1>4, Speaks
<1> QED
    BY <1>5 DEF Fine, r

Started(c, d, k, n) ==
    /\ But(c, d, {"tasks", "active", "queue", "posted"})
    /\ TasksBut(c.tasks, d.tasks, k, {"depending", "busy"}) /\ d.tasks[k].depending = 0
    /\ \E e : d.active = c.active \o Times(n, e) /\ e.kind = "command" /\ e.task = k
    /\ \E e : d.queue = c.queue \o Times(n, e) /\ e.kind = "STORE" /\ e.task = k
    /\ \E e : d.posted = c.posted \o Times(n, e) /\ e.event = "executeCommands" /\ e.of = NoTask

LEMMA StartFields ==
    ASSUME NEW c, Typed(c), NEW k \in DOMAIN c.tasks, NEW d, d = StartAll(c, k), NEW n, n = c.tasks[k].depending
    PROVE  Started(c, d, k, n)
<1> DEFINE entry == [kind |-> "command", task |-> k, watchers |-> {k, c.maintaining} \ {NoTask}]
           active == c.active \o Times(n, entry)
           queue == c.queue \o Times(n, [kind |-> "STORE", task |-> k])
           posted == c.posted \o Times(n, [event |-> "executeCommands", of |-> NoTask])
           busy == c.tasks[k].busy + n
<1>1. Shape(c) /\ Tasked(c.tasks)
    BY DEF Typed
<1>2. d = [c EXCEPT !.tasks[k].depending = 0, !.tasks[k].busy = busy, !.active = active,
                    !.queue = queue, !.posted = posted]
    BY DEF StartAll
<1>3. /\ \E e : active = c.active \o Times(n, e) /\ e.kind = "command" /\ e.task = k
      /\ \E e : queue = c.queue \o Times(n, e) /\ e.kind = "STORE" /\ e.task = k
      /\ \E e : posted = c.posted \o Times(n, e) /\ e.event = "executeCommands" /\ e.of = NoTask
    <2>1. \E e : active = c.active \o Times(n, e) /\ e.kind = "command" /\ e.task = k
        <3>1. entry.kind = "command" /\ entry.task = k
            OBVIOUS
        <3> HIDE DEF entry
        <3> QED
            BY <3>1
    <2> DEFINE cmd == [kind |-> "STORE", task |-> k]
               p == [event |-> "executeCommands", of |-> NoTask]
    <2>2. \E e : queue = c.queue \o Times(n, e) /\ e.kind = "STORE" /\ e.task = k
        <3>1. cmd.kind = "STORE" /\ cmd.task = k /\ queue = c.queue \o Times(n, cmd)
            OBVIOUS
        <3> HIDE DEF cmd, queue
        <3> QED
            BY <3>1
    <2>3. \E e : posted = c.posted \o Times(n, e) /\ e.event = "executeCommands" /\ e.of = NoTask
        <3>1. p.event = "executeCommands" /\ p.of = NoTask /\ posted = c.posted \o Times(n, p)
            OBVIOUS
        <3> HIDE DEF p, posted
        <3> QED
            BY <3>1
    <2> QED
        BY <2>1, <2>2, <2>3
<1> HIDE DEF active, queue, posted, busy
<1>4. /\ But(c, d, {"tasks", "active", "queue", "posted"})
      /\ d.active = active /\ d.queue = queue /\ d.posted = posted
    BY <1>1, <1>2 DEF Shape, Fields, But
<1>5. d.tasks = [c.tasks EXCEPT ![k].depending = 0, ![k].busy = busy]
    BY <1>1, <1>2 DEF Shape, Fields
<1>6. IsSeq(c.tasks) /\ TaskShape(c.tasks[k])
    BY <1>1 DEF Tasked
<1>7. /\ Len(c.tasks) \in Nat /\ DOMAIN c.tasks = 1 .. Len(c.tasks)
      /\ c.tasks = [i \in 1 .. Len(c.tasks) |-> c.tasks[i]]
    BY <1>6, SeqFacts
<1>8. d.tasks = [i \in 1 .. Len(c.tasks) |-> d.tasks[i]]
    BY <1>5, <1>7
<1>9. \A i \in DOMAIN c.tasks \ {k} : d.tasks[i] = c.tasks[i]
    BY <1>5, <1>7
<1>10. TaskBut(c.tasks[k], d.tasks[k], {"depending", "busy"}) /\ d.tasks[k].depending = 0
    <2> DEFINE t == c.tasks[k]
               u == d.tasks[k]
    <2>1. u = [t EXCEPT !.depending = 0, !.busy = busy] /\ TaskShape(t)
        BY <1>5, <1>6, <1>7
    <2> HIDE DEF t, u
    <2>2. TaskBut(t, u, {"depending", "busy"}) /\ u.depending = 0
        BY <2>1 DEF TaskShape, TaskFields, TaskBut
    <2> QED
        BY <2>2 DEF t, u
<1>11. IsSeq(d.tasks) /\ Len(d.tasks) = Len(c.tasks) /\ DOMAIN d.tasks = 1 .. Len(c.tasks)
    BY <1>7, <1>8, MadeSeq
<1>12. TasksBut(c.tasks, d.tasks, k, {"depending", "busy"})
    BY <1>7, <1>9, <1>10, <1>11 DEF TasksBut
<1> QED
    BY <1>3, <1>4, <1>10, <1>12 DEF Started

\* The tasks of the user which depend on an open mailbox are performed.
LEMMA StartFine ==
    ASSUME NEW c, NEW x, NEW ts, IsSeq(ts), NEW tc, NEW sel, Fine(c, x, ts, tc, sel),
           NEW k \in DOMAIN c.tasks, Uses(c, k), NEW d, d = StartAll(c, k)
    PROVE  Fine(d, x, ts, tc, sel) /\ DOMAIN d.tasks = DOMAIN c.tasks
<1> DEFINE n == c.tasks[k].depending
<1>1. Typed(c)
    BY DEF Fine
<1>2. n \in Nat /\ IsSeq(c.active) /\ IsSeq(c.queue) /\ IsSeq(c.posted) /\ Tasked(c.tasks)
    BY <1>1 DEF Typed, Tasked
<1>3. /\ But(c, d, {"tasks", "active", "queue", "posted"})
      /\ TasksBut(c.tasks, d.tasks, k, {"depending", "busy"}) /\ d.tasks[k].depending = 0
      /\ \E e : d.active = c.active \o Times(n, e) /\ e.kind = "command" /\ e.task = k
      /\ \E e : d.queue = c.queue \o Times(n, e) /\ e.kind = "STORE" /\ e.task = k
      /\ \E e : d.posted = c.posted \o Times(n, e) /\ e.event = "executeCommands" /\ e.of = NoTask
    <2>1. n = c.tasks[k].depending
        OBVIOUS
    <2> HIDE DEF n
    <2>2. Started(c, d, k, n)
        BY <1>1, <2>1, StartFields
    <2> QED
        BY <2>2 DEF Started
<1> HIDE DEF n
<1>4. PICK e : d.active = c.active \o Times(n, e) /\ e.kind = "command" /\ e.task = k
    BY <1>3
<1>5. PICK cmd : d.queue = c.queue \o Times(n, cmd) /\ cmd.kind = "STORE" /\ cmd.task = k
    BY <1>3
<1>6. PICK p : d.posted = c.posted \o Times(n, p) /\ p.event = "executeCommands" /\ p.of = NoTask
    BY <1>3
<1>7. Extends(c.active, d.active, e) /\ Extends(c.queue, d.queue, cmd) /\ Extends(c.posted, d.posted, p)
    BY <1>2, <1>4, <1>5, <1>6, TimesExtend
<1>8. d.inCharge = c.inCharge /\ d.maintaining = c.maintaining /\ Shape(d)
    BY <1>3 DEF But, Fields
<1>9. Typed(d)
    <2>1. IsSeq(d.tasks[k].waiting) /\ d.tasks[k].depending \in Nat
        BY <1>2, <1>3, SMTT(30) DEF TasksBut, TaskBut, TaskFields, Tasked
    <2>2. Tasked(d.tasks)
        BY <1>2, <1>3, <2>1, TaskedBut
    <2> QED
        BY <1>1, <1>7, <1>8, <2>2 DEF Typed, Extends
<1>10. Alike(c, d)
    <2>1. DOMAIN d.tasks = DOMAIN c.tasks
        BY <1>3 DEF TasksBut
    <2>2. \A i \in DOMAIN c.tasks : LikeTask(c.tasks[i], d.tasks[i])
        BY <1>3, ZenonT(60) DEF TasksBut, TaskBut, TaskFields, LikeTask
    <2> QED
        BY <1>8, <2>1, <2>2 DEF Alike, LikeTasks
<1>11. Speaking(c, d, k)
    BY <1>4, <1>6, <1>7 DEF Speaking, Extends, More
<1>12. Said(c.queue, d.queue, k)
    BY <1>5, <1>7 DEF Said, Extends
<1>13. Fine(d, x, ts, tc, sel)
    BY <1>9, <1>10, <1>11, <1>12, SpeaksFine
<1> QED
    BY <1>10, <1>13 DEF Alike, LikeTasks

LEMMA ActivateFine ==
    ASSUME NEW c, NEW x, NEW ts, IsSeq(ts), NEW tc, NEW sel, Fine(c, x, ts, tc, sel),
           NEW k \in DOMAIN c.tasks, Runs(c.tasks[k]) => c.maintaining = k, NEW d, d = activateTasks(c, k)
    PROVE  Fine(d, x, ts, tc, sel) /\ DOMAIN d.tasks = DOMAIN c.tasks
<1>1. CASE Runs(c.tasks[k])
    <2>1. d = StartAll(c, k) /\ Uses(c, k)
        BY <1>1 DEF activateTasks, Runs, Uses
    <2> QED
        BY <2>1, StartFine
<1>2. CASE ~Runs(c.tasks[k])
    BY <1>2 DEF activateTasks, Runs
<1> QED
    BY <1>1, <1>2

LEMMA TasksButMore ==
    ASSUME NEW s, NEW r, NEW k, NEW S, NEW T, S \subseteq T, TasksBut(s, r, k, S)
    PROVE  TasksBut(s, r, k, T)
BY DEF TasksBut, TaskBut

\* What is counted, or meant for later
Counts == {"depending", "busy", "arrivals", "shouldExit"}

LEMMA CountsFine ==
    ASSUME NEW c, NEW x, NEW ts, IsSeq(ts), NEW tc, NEW sel, Fine(c, x, ts, tc, sel), NEW k \in DOMAIN c.tasks,
           NEW d, But(c, d, {"tasks", "connState", "commands"}), TasksBut(c.tasks, d.tasks, k, Counts),
           d.tasks[k].depending \in Nat
    PROVE  Fine(d, x, ts, tc, sel) /\ Alike(c, d)
<1>1. Typed(c)
    BY DEF Fine
<1>2. Tasked(c.tasks)
    BY <1>1 DEF Typed
<1>3. /\ d.active = c.active /\ d.posted = c.posted /\ d.queue = c.queue /\ Shape(d)
      /\ d.inCharge = c.inCharge /\ d.maintaining = c.maintaining
    BY DEF But, Fields
<1>4. Tasked(d.tasks)
    <2>1. IsSeq(d.tasks[k].waiting)
        BY <1>2 DEF TasksBut, TaskBut, TaskFields, Counts, Tasked
    <2> QED
        BY <1>2, <2>1, TaskedBut
<1>5. Typed(d)
    BY <1>1, <1>3, <1>4 DEF Typed
<1>6. Alike(c, d)
    <2>1. DOMAIN d.tasks = DOMAIN c.tasks
        BY DEF TasksBut
    <2>2. ASSUME NEW i \in DOMAIN c.tasks PROVE LikeTask(c.tasks[i], d.tasks[i])
        <3>1. CASE i = k
            BY <3>1 DEF TasksBut, TaskBut, TaskFields, LikeTask, Counts
        <3>2. CASE i # k
            <4>1. d.tasks[i] = c.tasks[i]
                BY <3>2 DEF TasksBut
            <4> QED
                BY <4>1 DEF LikeTask
        <3> QED
            BY <3>1, <3>2
    <2> QED
        BY <1>3, <2>1, <2>2 DEF Alike, LikeTasks
<1>7. Speaking(c, d, k)
    BY <1>3 DEF Speaking, More, New
<1>8. Said(c.queue, d.queue, k)
    BY <1>3 DEF Said, More, New
<1>9. Fine(d, x, ts, tc, sel)
    BY <1>3, <1>5, <1>6, <1>7, <1>8, SpeaksFine
<1> QED
    BY <1>6, <1>9

\* One field of one task
SetsTask(c, d, k, f, v) == d = [c EXCEPT !.tasks = [c.tasks EXCEPT ![k] = [c.tasks[k] EXCEPT ![f] = v]]]

LEMMA TaskFields1 ==
    ASSUME NEW c, Typed(c), NEW k \in DOMAIN c.tasks, NEW f \in TaskFields, NEW v, NEW d,
           SetsTask(c, d, k, f, v)
    PROVE  But(c, d, {"tasks"}) /\ TasksBut(c.tasks, d.tasks, k, {f}) /\ d.tasks[k][f] = v
<1> DEFINE r == [c.tasks EXCEPT ![k] = [c.tasks[k] EXCEPT ![f] = v]]
<1>1. Shape(c) /\ Tasked(c.tasks)
    BY DEF Typed
<1>2. Sets(c.tasks, r, k, f, v)
    BY DEF Sets
<1> HIDE DEF r
<1>3. TasksBut(c.tasks, r, k, {f}) /\ r[k][f] = v
    BY <1>1, <1>2, SetField
<1>4. d = [c EXCEPT !.tasks = r]
    BY DEF r, SetsTask
<1>5. But(c, d, {"tasks"}) /\ d.tasks = r
    BY <1>1, <1>4 DEF Shape, Fields, But
<1> QED
    BY <1>3, <1>5

LEMMA HaltedActivate ==
    ASSUME NEW c, Halted(c), NEW k, NEW d, d = activateTasks(c, k)
    PROVE  Halted(d)
<1>1. CASE d = c
    BY <1>1
<1>2. CASE d = StartAll(c, k)
    BY <1>2 DEF Halted, StartAll, Shape, Fields
<1> QED
    BY <1>1, <1>2 DEF activateTasks

LEMMA HaltedQuiet ==
    ASSUME NEW c, Halted(c), NEW k, NEW d, d = Quiet(c, k)
    PROVE  Halted(d)
<1> DEFINE a == Check(c, c.tasks[k].depending = 0 /\ c.tasks[k].busy = 0)
           b == detachFromMailbox(a, {k})
<1>1. d = [b EXCEPT !.tasks[k].aborted = TRUE, !.tasks[k].isRunning = "NOT_ANYMORE"]
    BY DEF Quiet
<1>2. Halted(a)
    BY DEF Halted, Check, Shape, Fields
<1> HIDE DEF a
<1>3. Halted(b)
    BY <1>2 DEF Halted, detachFromMailbox, Shape, Fields
<1> HIDE DEF b
<1> QED
    BY <1>1, <1>3 DEF Halted, Shape, Fields

LEMMA HaltedTerminate ==
    ASSUME NEW c, Halted(c), NEW k, NEW d, d = terminate(c, k)
    PROVE  Halted(d)
<1> DEFINE waiting == c.tasks[k].waiting
           first == Head(waiting)
           a == Quiet(c, k)
           b == GivesAway(c, k, first)
           e == slotPerformConnection(b, first)
<1>1. CASE c.tasks[k].aborted
    BY <1>1 DEF terminate
<1>2. Halted(a)
    <2>1. a = Quiet(c, k)
        OBVIOUS
    <2> HIDE DEF a
    <2> QED
        BY <2>1, HaltedQuiet
<1>3. Halted(b)
    <2> DEFINE u == [a.tasks EXCEPT ![k].waiting = Tail(waiting), ![k].successor = first,
                                    ![first].waiting = Tail(waiting) \o @]
    <2>1. b = [a EXCEPT !.tasks = u, !.maintaining = first]
        BY DEF GivesAway
    <2> HIDE DEF a, b, first, u
    <2> QED
        BY <1>2, <2>1 DEF Halted, Shape, Fields
<1>4. Halted(e)
    <2>1. e = slotPerformConnection(b, first)
        OBVIOUS
    <2> HIDE DEF b, e, first
    <2> DEFINE condition == ~Obtained(b.tasks[first])
               z == Check(b, condition)
    <2>2. Shape(b) /\ b.asserted
        BY <1>3 DEF Halted
    <2>3. But(b, z, {"asserted"}) /\ (z.asserted <=> b.asserted \/ ~condition)
        <3> HIDE DEF condition
        <3> QED
            BY <2>2, CheckFields
    <2>4. e = z
        BY <2>1, <2>2, <2>3 DEF slotPerformConnection
    <2> HIDE DEF z
    <2> QED
        BY <2>2, <2>3, <2>4 DEF Halted, But
<1>5. CASE ~c.tasks[k].aborted
    <2>1. d = Ending(IF waiting = <<>> THEN a ELSE e, k)
        BY <1>5, TerminateIs
    <2>2. Halted(IF waiting = <<>> THEN a ELSE e)
        <3> HIDE DEF a, e, waiting
        <3> QED
            BY <1>2, <1>4
    <2> HIDE DEF a, e, waiting
    <2> QED
        BY <2>1, <2>2, EndingHalted
<1> QED
    BY <1>1, <1>5

\* slotTaskDeleted()
OneLess(c, k, e) ==
    IF e.kind = "command" /\ e.task = k THEN [c EXCEPT !.tasks[k].busy = @ - 1] ELSE c

LEMMA DeletedIs ==
    ASSUME NEW c, NEW k, NEW e, NEW b, b = OneLess(c, k, e), NEW d, d = slotTaskDeleted(c, k, e)
    PROVE  \/ c.tasks[k].finished /\ d = c
           \/ /\ ~c.tasks[k].finished /\ isReadyToTerminate(b.tasks[k])
              /\ d = activateTasks(terminate(b, k), k)
           \/ ~c.tasks[k].finished /\ ~isReadyToTerminate(b.tasks[k]) /\ d = activateTasks(b, k)
BY DEF slotTaskDeleted, OneLess

LEMMA HaltedDeleted ==
    ASSUME NEW c, Halted(c), NEW k, NEW e, NEW d, d = slotTaskDeleted(c, k, e)
    PROVE  Halted(d)
<1> DEFINE b == OneLess(c, k, e)
           t == terminate(b, k)
<1>1. b = OneLess(c, k, e) /\ t = terminate(b, k)
    OBVIOUS
<1>2. Halted(b)
    BY DEF OneLess, Halted, Shape, Fields
<1> HIDE DEF b, t
<1>3. Halted(t)
    BY <1>1, <1>2, HaltedTerminate
<1>4. d = c \/ d = activateTasks(t, k) \/ d = activateTasks(b, k)
    BY <1>1, DeletedIs
<1> QED
    BY <1>2, <1>3, <1>4, HaltedActivate

LEMMA DeletedFine ==
    ASSUME NEW c, NEW ts, IsSeq(ts), NEW tc, NEW sel, Fine(c, NoTask, ts, tc, sel),
           NEW k \in DOMAIN c.tasks, NEW e, NEW d, d = slotTaskDeleted(c, k, e)
    PROVE  /\ Safe(d, NoTask, ts, tc, sel)
           /\ d.asserted \/ DOMAIN d.tasks = DOMAIN c.tasks
<1> DEFINE b == OneLess(c, k, e)
           t == terminate(b, k)
<1>1. b = OneLess(c, k, e) /\ t = terminate(b, k)
    OBVIOUS
<1> HIDE DEF b, t
<1>2. Typed(c) /\ Tasked(c.tasks)
    BY DEF Fine, Typed
<1>3. Fine(b, NoTask, ts, tc, sel) /\ Alike(c, b)
    <2>1. CASE b = c
        BY <2>1 DEF Alike, LikeTasks, LikeTask
    <2>2. CASE b = [c EXCEPT !.tasks[k].busy = @ - 1]
        <3> DEFINE v == c.tasks[k].busy - 1
        <3>1. SetsTask(c, b, k, "busy", v)
            BY <2>2 DEF SetsTask
        <3> HIDE DEF v
        <3>2. But(c, b, {"tasks"}) /\ TasksBut(c.tasks, b.tasks, k, {"busy"})
            BY <1>2, <3>1, TaskFields1 DEF TaskFields
        <3>3. But(c, b, {"tasks", "connState", "commands"})
            BY <3>2 DEF But
        <3>4. TasksBut(c.tasks, b.tasks, k, Counts)
            BY <3>2, TasksButMore DEF Counts
        <3>5. b.tasks[k].depending \in Nat
            BY <1>2, <3>2 DEF TasksBut, TaskBut, TaskFields, Tasked
        <3> QED
            BY <3>3, <3>4, <3>5, CountsFine
    <2> QED
        BY <1>1, <2>1, <2>2 DEF OneLess
<1>4. /\ k \in DOMAIN b.tasks /\ DOMAIN b.tasks = DOMAIN c.tasks
      /\ b.tasks[k].finished = c.tasks[k].finished
    BY <1>3 DEF Alike, LikeTasks, LikeTask
<1>5. ~b.tasks[k].finished => /\ Runs(b.tasks[k]) => b.maintaining = k
                              /\ Obtained(b.tasks[k]) => Runs(b.tasks[k]) \/ b.tasks[k].aborted
    BY <1>3, <1>4 DEF Fine, Core, Maintaining, Engaged, Stages, Staged
<1>6. CASE c.tasks[k].finished /\ d = c
    BY <1>6 DEF Safe
<1>7. CASE ~c.tasks[k].finished /\ isReadyToTerminate(b.tasks[k]) /\ d = activateTasks(t, k)
    <2>1. b.tasks[k].aborted \/ (Runs(b.tasks[k]) /\ b.maintaining = k)
        BY <1>4, <1>5, <1>7 DEF isReadyToTerminate
    <2>2. /\ Safe(t, NoTask, ts, tc, sel)
          /\ t.asserted \/ (DOMAIN t.tasks = DOMAIN b.tasks /\ t.tasks[k].aborted)
        BY <1>1, <1>3, <1>4, <2>1, TerminateFine
    <2>3. CASE Halted(t)
        <3>1. Halted(d)
            BY <1>7, <2>3, HaltedActivate
        <3> QED
            BY <3>1 DEF Safe, Halted
    <2>4. CASE t.asserted /\ Fine(t, NoTask, ts, tc, sel)
        BY <2>3, <2>4, TypedShape DEF Halted
    <2>5. CASE DOMAIN t.tasks = DOMAIN b.tasks /\ t.tasks[k].aborted /\ Fine(t, NoTask, ts, tc, sel)
        <3>1. t.tasks[k].isRunning # "RUNNING"
            BY <1>4, <2>5 DEF Fine, Core, Stages, Staged
        <3>2. d = t
            BY <1>7, <3>1 DEF activateTasks
        <3> QED
            BY <1>4, <2>5, <3>2 DEF Safe
    <2> QED
        BY <2>2, <2>3, <2>4, <2>5 DEF Safe
<1>8. CASE ~c.tasks[k].finished /\ d = activateTasks(b, k)
    <2>1. Fine(d, NoTask, ts, tc, sel) /\ DOMAIN d.tasks = DOMAIN b.tasks
        BY <1>3, <1>4, <1>5, <1>8, ActivateFine
    <2> QED
        BY <1>4, <2>1 DEF Safe
<1> QED
    BY <1>1, <1>6, <1>7, <1>8, DeletedIs

-----------------------------------------------------------------------------
(* The keepers that are told                                                *)

\* One keeper
Tells1(v, n, e) == IF n \in e.watchers THEN slotTaskDeleted(v, n, e) ELSE v

IsTold(f, c, e, n) == f = [m \in 0 .. n |-> IF m = 0 THEN c ELSE Tells1(f[m - 1], m, e)]

\* There is a function as it is defined.
LEMMA ToldUpTo ==
    ASSUME NEW c, NEW e, NEW n \in Nat
    PROVE  \E f : IsTold(f, c, e, n)
<1> DEFINE Bad == {m \in Nat : ~\E f : IsTold(f, c, e, m)}
<1> SUFFICES ASSUME Bad # {} PROVE FALSE
    OBVIOUS
<1>1. PICK m \in Bad : \A j \in Bad : m <= j
    <2>1. Bad \in SUBSET Nat
        OBVIOUS
    <2> HIDE DEF Bad
    <2> QED
        BY <2>1, LeastOf
<1>2. CASE m = 0
    <2> DEFINE f == [j \in 0 .. 0 |-> c]
    <2>1. f = [j \in 0 .. 0 |-> IF j = 0 THEN c ELSE Tells1(f[j - 1], j, e)]
        OBVIOUS
    <2>2. IsTold(f, c, e, 0)
        BY <2>1 DEF IsTold
    <2> HIDE DEF f
    <2> QED
        BY <1>1, <1>2, <2>2
<1>3. CASE m # 0
    <2>1. m - 1 \in Nat /\ m - 1 \notin Bad
        BY <1>1, <1>3
    <2>2. PICK g : IsTold(g, c, e, m - 1)
        BY <2>1
    <2>3. g = [j \in 0 .. m - 1 |-> IF j = 0 THEN c ELSE Tells1(g[j - 1], j, e)]
        BY <2>2 DEF IsTold
    <2> DEFINE last == Tells1(g[m - 1], m, e)
               f == [j \in 0 .. m |-> IF j = m THEN last ELSE g[j]]
    <2>4. m \in Nat /\ m >= 1
        BY <1>1, <1>3
    <2>5. \A j \in 0 .. m : j = m \/ j \in 0 .. m - 1
        BY <2>4
    <2>6. \A j \in 0 .. m - 1 : f[j] = g[j]
        BY <2>4
    <2>7. f[m] = last /\ DOMAIN f = 0 .. m
        BY <2>4
    <2>8. f = [j \in 0 .. m |-> f[j]]
        OBVIOUS
    <2> HIDE DEF f
    <2>9. ASSUME NEW j \in 0 .. m
          PROVE  f[j] = IF j = 0 THEN c ELSE Tells1(f[j - 1], j, e)
        <3>1. CASE j = m
            <4>1. m - 1 \in 0 .. m - 1 /\ j # 0
                BY <2>4, <3>1
            <4>2. f[j - 1] = g[m - 1]
                BY <2>6, <3>1, <4>1
            <4> QED
                BY <2>7, <3>1, <4>1, <4>2
        <3>2. CASE j \in 0 .. m - 1 /\ j = 0
            BY <2>3, <2>6, <3>2
        <3>3. CASE j \in 0 .. m - 1 /\ j # 0
            <4>1. j - 1 \in 0 .. m - 1
                BY <2>4, <3>3
            <4>2. g[j] = Tells1(g[j - 1], j, e)
                BY <2>3, <3>3
            <4> QED
                BY <2>6, <3>3, <4>1, <4>2
        <3> QED
            BY <2>5, <3>1, <3>2, <3>3
    <2>10. f = [j \in 0 .. m |-> IF j = 0 THEN c ELSE Tells1(f[j - 1], j, e)]
        BY <2>8, <2>9
    <2>11. IsTold(f, c, e, m)
        BY <2>10 DEF IsTold
    <2> QED
        BY <1>1, <2>11
<1> QED
    BY <1>2, <1>3

LEMMA ToldIs ==
    ASSUME NEW c, NEW e, Len(c.tasks) \in Nat
    PROVE  \E f : IsTold(f, c, e, Len(c.tasks)) /\ Told(c, e) = f[Len(c.tasks)]
<1> DEFINE N == Len(c.tasks)
           g == CHOOSE f : f = [n \in 0 .. N |->
                    IF n = 0 THEN c
                    ELSE IF n \in e.watchers THEN slotTaskDeleted(f[n - 1], n, e) ELSE f[n - 1]]
<1>1. Told(c, e) = g[N]
    BY DEF Told
<1>5. PICK f : IsTold(f, c, e, N)
    BY ToldUpTo
<1>2. f = [n \in 0 .. N |-> IF n = 0 THEN c ELSE Tells1(f[n - 1], n, e)]
    BY <1>5 DEF IsTold
<1>3. g = [n \in 0 .. N |->
              IF n = 0 THEN c
              ELSE IF n \in e.watchers THEN slotTaskDeleted(g[n - 1], n, e) ELSE g[n - 1]]
    BY <1>2 DEF Tells1
<1> HIDE DEF g
<1>4. IsTold(g, c, e, N)
    BY <1>3 DEF IsTold, Tells1
<1> QED
    BY <1>1, <1>4

\* All of them are told, unless an assertion fails.
LEMMA ToldFine ==
    ASSUME NEW c, NEW ts, IsSeq(ts), NEW tc, NEW sel, Fine(c, NoTask, ts, tc, sel), NEW e,
           NEW d, d = Told(c, e)
    PROVE  Safe(d, NoTask, ts, tc, sel)
<1> DEFINE N == Len(c.tasks)
<1>1. N \in Nat /\ DOMAIN c.tasks = 1 .. N
    BY TasksCounted DEF Fine
<1>2. PICK f : IsTold(f, c, e, N) /\ d = f[N]
    BY <1>1, ToldIs
<1>3. /\ f[0] = c
      /\ \A n \in 1 .. N : f[n] = Tells1(f[n - 1], n, e)
    <2>1. f = [m \in 0 .. N |-> IF m = 0 THEN c ELSE Tells1(f[m - 1], m, e)]
        BY <1>2 DEF IsTold
    <2>2. 0 \in 0 .. N /\ \A n \in 1 .. N : n \in 0 .. N /\ n # 0
        BY <1>1
    <2> QED
        BY <2>1, <2>2
<1> DEFINE Good(v) == Halted(v) \/ (Fine(v, NoTask, ts, tc, sel) /\ DOMAIN v.tasks = 1 .. N)
           Bad == {n \in 0 .. N : ~Good(f[n])}
<1>4. ASSUME NEW v, Good(v), NEW n \in 1 .. N
      PROVE  Good(Tells1(v, n, e))
    <2> DEFINE w == slotTaskDeleted(v, n, e)
    <2>1. CASE n \notin e.watchers
        BY <1>4, <2>1 DEF Tells1
    <2>2. CASE n \in e.watchers
        <3>1. Tells1(v, n, e) = w
            BY <2>2 DEF Tells1
        <3>2. w = slotTaskDeleted(v, n, e)
            OBVIOUS
        <3> HIDE DEF w
        <3>3. CASE Halted(v)
            <4>1. Halted(w)
                BY <3>2, <3>3, HaltedDeleted
            <4> QED
                BY <3>1, <4>1
        <3>4. CASE Fine(v, NoTask, ts, tc, sel) /\ DOMAIN v.tasks = 1 .. N
            <4>1. /\ Safe(w, NoTask, ts, tc, sel)
                  /\ w.asserted \/ DOMAIN w.tasks = DOMAIN v.tasks
                BY <3>2, <3>4, DeletedFine
            <4>2. CASE Fine(w, NoTask, ts, tc, sel) /\ w.asserted
                <5>1. Halted(w)
                    BY <4>2, TypedShape DEF Halted
                <5> QED
                    BY <3>1, <5>1
            <4> QED
                BY <3>1, <3>4, <4>1, <4>2 DEF Safe
        <3> QED
            BY <1>4, <3>3, <3>4
    <2> QED
        BY <2>1, <2>2
<1>5. Good(f[0])
    BY <1>1, <1>3
<1> HIDE DEF Good
<1>6. Bad = {}
    <2> SUFFICES ASSUME Bad # {} PROVE FALSE
        OBVIOUS
    <2>1. PICK n \in Bad : \A j \in Bad : n <= j
        <3>1. Bad \in SUBSET Nat
            BY <1>1
        <3> HIDE DEF Bad
        <3> QED
            BY <3>1, LeastOf
    <2>2. n \in 0 .. N /\ ~Good(f[n])
        BY <2>1
    <2>3. n # 0
        BY <1>5, <2>2
    <2>4. n \in 1 .. N /\ n - 1 \in 0 .. N /\ ~(n <= n - 1)
        BY <1>1, <2>2, <2>3
    <2>5. Good(f[n - 1])
        BY <2>1, <2>4
    <2>6. Good(f[n])
        BY <1>3, <1>4, <2>4, <2>5
    <2> QED
        BY <2>2, <2>6
<1>7. Good(f[N])
    <2>1. N \in 0 .. N
        BY <1>1
    <2> QED
        BY <1>6, <2>1
<1> QED
    BY <1>2, <1>7 DEF Good, Safe

-----------------------------------------------------------------------------
(* What the methods do when a task fails                                    *)

\* Failed(): k tells those that wait for it, and D die.
FailedAs(c, d, k, D) ==
    /\ But(c, d, {"tasks", "inCharge", "maintaining"})
    /\ IsSeq(d.tasks) /\ DOMAIN d.tasks = DOMAIN c.tasks
    /\ \A i \in DOMAIN c.tasks :
         /\ TaskBut(c.tasks[i], d.tasks[i], {"obtain", "dead", "finished"})
         /\ d.tasks[i].obtain = (IF i \in D THEN "failed" ELSE c.tasks[i].obtain)
         /\ d.tasks[i].dead <=> c.tasks[i].dead \/ i \in D
         /\ c.tasks[i].finished \/ i \in D \/ i = k => d.tasks[i].finished
         /\ d.tasks[i].finished => \/ c.tasks[i].finished \/ i \in D \/ i = k
                                   \/ c.tasks[i].successor \in {k} \cup D
    /\ d.inCharge = Without(c.inCharge, D)
    /\ d.maintaining = (IF c.maintaining \in D THEN NoTask ELSE c.maintaining)

LEMMA FailedFields ==
    ASSUME NEW c, Typed(c), NEW k \in DOMAIN c.tasks, NEW d, d = Failed(c, k)
    PROVE  FailedAs(c, d, k, Doomed(c, k))
<1> DEFINE D == Doomed(c, k)
           failing == {k} \cup {w \in D : Tells(c.tasks[w])}
           told(i) == i = k \/ c.tasks[i].successor \in failing
           turned(i) == IF i \in D THEN Dead(c.tasks[i]) ELSE Ends(c.tasks[i], told(i))
           s == [i \in DOMAIN c.tasks |-> turned(i)]
           a == [c EXCEPT !.tasks = s]
<1>1. Shape(c) /\ Tasked(c.tasks) /\ Len(c.tasks) \in Nat /\ DOMAIN c.tasks = 1 .. Len(c.tasks)
    BY TasksCounted DEF Typed
<1>2. d = detachFromMailbox(a, D)
    BY DEF Failed
<1>8. \A i \in DOMAIN c.tasks : told(i) => i = k \/ c.tasks[i].successor \in {k} \cup D
    OBVIOUS
<1>9. told(k)
    OBVIOUS
<1> HIDE DEF D, told
<1>3. ASSUME NEW i \in DOMAIN c.tasks
      PROVE  /\ TaskBut(c.tasks[i], turned(i), {"obtain", "dead", "finished"})
             /\ turned(i).obtain = (IF i \in D THEN "failed" ELSE c.tasks[i].obtain)
             /\ turned(i).dead <=> c.tasks[i].dead \/ i \in D
             /\ turned(i).finished <=> c.tasks[i].finished \/ i \in D \/ told(i)
    <2> DEFINE t == c.tasks[i]
    <2>1. TaskShape(t)
        BY <1>1 DEF Tasked
    <2>2. CASE i \in D
        <3>1. turned(i) = Dead(t)
            BY <2>2
        <3> HIDE DEF t
        <3>2. /\ TaskBut(t, Dead(t), {"obtain", "dead", "finished"}) /\ Dead(t).obtain = "failed"
              /\ Dead(t).dead /\ Dead(t).finished
            BY <2>1 DEF TaskShape, TaskFields, TaskBut, Dead
        <3> QED
            BY <2>2, <3>1, <3>2 DEF t
    <2>3. CASE i \notin D
        <3> DEFINE u == Ends(t, told(i))
        <3>1. turned(i) = u
            BY <2>3
        <3> HIDE DEF t
        <3>2. TaskBut(t, u, {"finished"}) /\ (u.finished <=> t.finished \/ told(i))
            BY <2>1 DEF TaskShape, TaskFields, TaskBut, Ends
        <3> HIDE DEF u
        <3>3. /\ TaskBut(t, u, {"obtain", "dead", "finished"}) /\ u.obtain = t.obtain /\ u.dead = t.dead
            BY <3>2 DEF TaskBut, TaskFields
        <3> QED
            BY <2>3, <3>1, <3>2, <3>3 DEF t
    <2> QED
        BY <2>2, <2>3
<1>4. DOMAIN s = DOMAIN c.tasks /\ \A i \in DOMAIN c.tasks : s[i] = turned(i)
    OBVIOUS
<1>5. IsSeq(s)
    <2>1. s = [i \in 1 .. Len(c.tasks) |-> s[i]]
        BY <1>1
    <2> HIDE DEF s
    <2> QED
        BY <1>1, <2>1, MadeSeq
<1> HIDE DEF turned, s
<1>6. But(c, a, {"tasks"}) /\ a.tasks = s
    BY <1>1 DEF Shape, Fields, But
<1> HIDE DEF a
<1>7. /\ But(a, d, {"inCharge", "maintaining"}) /\ d.inCharge = Without(a.inCharge, D)
      /\ d.maintaining = (IF a.maintaining \in D THEN NoTask ELSE a.maintaining)
    BY <1>2, <1>6, DetachFields DEF But
<1>10. /\ But(c, d, {"tasks", "inCharge", "maintaining"}) /\ d.tasks = s
       /\ a.inCharge = c.inCharge /\ a.maintaining = c.maintaining
    BY <1>6, <1>7 DEF But, Fields
<1> QED
    BY <1>3, <1>4, <1>5, <1>7, <1>8, <1>9, <1>10 DEF FailedAs, D

\* Nobody waits for a keeper but pairs that have not had the connection, or are over.
LEMMA DoomedIdle ==
    ASSUME NEW c, NEW x, NEW q, NEW tc, NEW sel, Core(c, x, q, tc, sel),
           NEW k \in DOMAIN c.tasks, Patient(c, k)
    PROVE  Doomed(c, k) \subseteq Idle(c)
<1>1. Stages(c) /\ Waiting(c)
    BY DEF Core
<1>2. \A j \in DOMAIN c.tasks : Waits(c.tasks[j]) => Patient(c, j)
    BY <1>1 DEF Stages, Staged, Waiting, Waits, Obtained
<1> QED
    BY <1>1, <1>2, DoomedWait DEF Waiting

\* _failed() of a keeper whose synchronization is over
LEMMA FailedFine ==
    ASSUME NEW c, NEW x, NEW ts, NEW tc, NEW sel, Fine(c, x, ts, tc, sel),
           NEW k \in DOMAIN c.tasks, Obtained(c.tasks[k]), Patient(c, k), NEW d, d = Failed(c, k)
    PROVE  Fine(d, x, ts, tc, sel) /\ DOMAIN d.tasks = DOMAIN c.tasks
<1> DEFINE q == ts \o c.queue
           D == Doomed(c, k)
<1>1. Typed(c) /\ Core(c, x, q, tc, sel)
    BY DEF Fine
<1>2. Tasked(c.tasks) /\ NoTask \notin DOMAIN c.tasks
    BY <1>1, TasksCounted DEF Typed
<1>3. FailedAs(c, d, k, D)
    BY <1>1, FailedFields
<1>4. D \in SUBSET Idle(c)
    <2> HIDE DEF q
    <2> QED
        BY <1>1, DoomedIdle
<1>5. D \subseteq DOMAIN c.tasks /\ c.maintaining \notin D
    BY <1>4 DEF Idle
<1> HIDE DEF D, q
<1>6. /\ d.active = c.active /\ d.posted = c.posted /\ d.queue = c.queue /\ Shape(d)
      /\ d.inCharge = Without(c.inCharge, D) /\ d.maintaining = c.maintaining
    BY <1>3, <1>5 DEF FailedAs, But, Fields
<1>7. \A i \in DOMAIN c.tasks :
         /\ d.tasks[i].mailbox = c.tasks[i].mailbox /\ d.tasks[i].aborted = c.tasks[i].aborted
         /\ d.tasks[i].isRunning = c.tasks[i].isRunning /\ d.tasks[i].waiting = c.tasks[i].waiting
         /\ d.tasks[i].successor = c.tasks[i].successor /\ d.tasks[i].depending = c.tasks[i].depending
         /\ TaskShape(d.tasks[i])
    BY <1>3 DEF FailedAs, TaskBut, TaskFields
<1>8. Typed(d)
    <2>1. Tasked(d.tasks)
        BY <1>2, <1>3, <1>7 DEF Tasked, FailedAs
    <2> QED
        BY <1>1, <1>6, <2>1 DEF Typed, Without
<1>9. ASSUME NEW i \in DOMAIN c.tasks, c.tasks[i].successor \in {k} \cup D
      PROVE  Obtained(c.tasks[i])
    <2>1. c.tasks[i].successor # NoTask
        BY <1>2, <1>5, <1>9
    <2> QED
        BY <1>1, <2>1 DEF Core, Stages, Staged
<1>10. Failing(c, d, D)
    BY <1>3, <1>6, <1>7, <1>9 DEF Failing, FailedAs
<1>11. Core(d, x, q, tc, sel)
    BY <1>1, <1>2, <1>4, <1>10, Fails
<1> QED
    BY <1>3, <1>6, <1>8, <1>11 DEF Fine, q, FailedAs

\* _failed() of the ObtainSynchronizedMailboxTask: its keeper is over.
Failed1(c, k) == [c EXCEPT !.tasks[k].obtain = "failed"]
Over1(c, k) == detachFromMailbox([[Failed1(c, k) EXCEPT !.tasks[k].finished = TRUE] EXCEPT !.tasks[k].dead = TRUE], {k})

LEMMA TypedTasks ==
    ASSUME NEW c, NEW d, Typed(c), But(c, d, {"tasks"}), NEW k \in DOMAIN c.tasks, NEW S,
           TasksBut(c.tasks, d.tasks, k, S), "waiting" \notin S, "depending" \notin S
    PROVE  Typed(d)
<1>1. Tasked(c.tasks)
    BY DEF Typed
<1>2. d.tasks[k].waiting = c.tasks[k].waiting /\ d.tasks[k].depending = c.tasks[k].depending
    BY DEF TasksBut, TaskBut, TaskFields
<1>3. Tasked(d.tasks)
    <2>1. IsSeq(d.tasks[k].waiting) /\ d.tasks[k].depending \in Nat
        BY <1>1, <1>2 DEF Tasked
    <2> QED
        BY <1>1, <2>1, TaskedBut
<1> QED
    BY <1>3 DEF Typed, But, Fields

LEMMA Failed1Fields ==
    ASSUME NEW c, Typed(c), NEW k \in DOMAIN c.tasks, NEW d, d = Failed1(c, k)
    PROVE  /\ But(c, d, {"tasks"}) /\ TasksBut(c.tasks, d.tasks, k, {"obtain"}) /\ d.tasks[k].obtain = "failed"
           /\ Typed(d)
<1>1. SetsTask(c, d, k, "obtain", "failed")
    BY DEF Failed1, SetsTask
<1>2. But(c, d, {"tasks"}) /\ TasksBut(c.tasks, d.tasks, k, {"obtain"}) /\ d.tasks[k].obtain = "failed"
    BY <1>1, TaskFields1 DEF TaskFields
<1>3. Typed(d)
    BY <1>2, TypedTasks
<1> QED
    BY <1>2, <1>3

LEMMA Over1Fields ==
    ASSUME NEW c, Typed(c), NEW k \in DOMAIN c.tasks, c.maintaining = k, NEW d, d = Over1(c, k)
    PROVE  /\ But(c, d, {"tasks", "inCharge", "maintaining"}) /\ Dying(c, d, k) /\ Typed(d)
           /\ TasksBut(c.tasks, d.tasks, k, {"obtain", "finished", "dead"})
<1> DEFINE a == Failed1(c, k)
           b == [a EXCEPT !.tasks[k].finished = TRUE]
           e == [b EXCEPT !.tasks[k].dead = TRUE]
<1>1. d = detachFromMailbox(e, {k})
    BY DEF Over1
<1>2. /\ But(c, a, {"tasks"}) /\ TasksBut(c.tasks, a.tasks, k, {"obtain"}) /\ a.tasks[k].obtain = "failed"
      /\ Typed(a)
    <2>1. a = Failed1(c, k)
        OBVIOUS
    <2> HIDE DEF a
    <2> QED
        BY <2>1, Failed1Fields
<1>3. k \in DOMAIN a.tasks
    BY <1>2 DEF TasksBut
<1> HIDE DEF a
<1>4. But(a, b, {"tasks"}) /\ TasksBut(a.tasks, b.tasks, k, {"finished"}) /\ b.tasks[k].finished
    <2>0. PICK v : v = TRUE
        OBVIOUS
    <2>1. SetsTask(a, b, k, "finished", v)
        BY <2>0 DEF SetsTask
    <2> HIDE DEF b
    <2>2. Typed(a) /\ k \in DOMAIN a.tasks
        BY <1>2, <1>3
    <2>3. But(a, b, {"tasks"}) /\ TasksBut(a.tasks, b.tasks, k, {"finished"}) /\ b.tasks[k].finished = v
        BY <2>1, <2>2, TaskFields1 DEF TaskFields
    <2> QED
        BY <2>0, <2>3
<1>5. k \in DOMAIN b.tasks /\ Typed(b)
    <2> HIDE DEF b
    <2>1. Typed(b)
        BY <1>2, <1>3, <1>4, TypedTasks
    <2> QED
        BY <1>3, <1>4, <2>1 DEF TasksBut
<1> HIDE DEF b
<1>6. But(b, e, {"tasks"}) /\ TasksBut(b.tasks, e.tasks, k, {"dead"}) /\ e.tasks[k].dead
    <2>0. PICK v : v = TRUE
        OBVIOUS
    <2>1. SetsTask(b, e, k, "dead", v)
        BY <2>0 DEF SetsTask
    <2> HIDE DEF e
    <2>2. Typed(b) /\ k \in DOMAIN b.tasks
        BY <1>5
    <2>3. But(b, e, {"tasks"}) /\ TasksBut(b.tasks, e.tasks, k, {"dead"}) /\ e.tasks[k].dead = v
        BY <2>1, <2>2, TaskFields1 DEF TaskFields
    <2> QED
        BY <2>0, <2>3
<1>7. Typed(e)
    <2> HIDE DEF e
    <2> QED
        BY <1>5, <1>6, TypedTasks
<1> HIDE DEF e
<1>8. But(c, e, {"tasks"})
    BY <1>2, <1>4, <1>6 DEF But
<1>9. TasksBut(c.tasks, e.tasks, k, {"obtain", "finished", "dead"})
    <2>1. TasksBut(c.tasks, b.tasks, k, {"obtain"} \cup {"finished"})
        BY <1>2, <1>4, TasksButTwice
    <2>2. TasksBut(c.tasks, e.tasks, k, ({"obtain"} \cup {"finished"}) \cup {"dead"})
        BY <1>6, <2>1, TasksButTwice
    <2>3. ({"obtain"} \cup {"finished"}) \cup {"dead"} \subseteq {"obtain", "finished", "dead"}
        OBVIOUS
    <2> QED
        BY <2>2, <2>3, TasksButMore
<1>10. e.tasks[k].obtain = "failed" /\ e.tasks[k].finished /\ e.tasks[k].dead
    BY <1>2, <1>3, <1>4, <1>5, <1>6 DEF TasksBut, TaskBut, TaskFields
<1>11. /\ But(e, d, {"inCharge", "maintaining"}) /\ d.inCharge = Without(e.inCharge, {k})
       /\ d.maintaining = (IF e.maintaining \in {k} THEN NoTask ELSE e.maintaining)
    BY <1>1, <1>7, DetachFields DEF Typed
<1>12. /\ But(c, d, {"tasks", "inCharge", "maintaining"}) /\ d.tasks = e.tasks /\ d.inCharge = Without(c.inCharge, {k})
       /\ d.maintaining = NoTask /\ d.active = c.active /\ d.posted = c.posted
    BY <1>8, <1>11 DEF But, Fields
<1>13. Dying(c, d, k)
    <2>1. /\ d.tasks[k].mailbox = c.tasks[k].mailbox /\ d.tasks[k].aborted = c.tasks[k].aborted
          /\ d.tasks[k].isRunning = c.tasks[k].isRunning /\ d.tasks[k].waiting = c.tasks[k].waiting
          /\ d.tasks[k].successor = c.tasks[k].successor
        BY <1>9, <1>12 DEF TasksBut, TaskBut, TaskFields
    <2> QED
        BY <1>9, <1>10, <1>12, <2>1 DEF Dying, TasksBut
<1>14. Typed(d)
    <2>1. IsSeq(d.active) /\ IsSeq(d.posted) /\ Shape(d) /\ d.queue = c.queue /\ Tasked(d.tasks) /\ IsSeq(d.queue)
        BY <1>7, <1>12 DEF Typed, But, Fields
    <2> QED
        BY <1>12, <2>1 DEF Typed, Without
<1> QED
    BY <1>9, <1>12, <1>13, <1>14

\* The synchronization of k fails, and what waits for its keeper.
LEMMA ObtainFailsIs ==
    ASSUME NEW c, NEW k
    PROVE  ObtainFails(c, k) =
             IF Failed1(c, k).tasks[k].shouldExit \/ Failed1(c, k).tasks[k].finished THEN Over1(c, k)
             ELSE detachFromMailbox([Failed(Failed1(c, k), k) EXCEPT !.tasks[k].dead = TRUE], {k})
<1> DEFINE a == Failed1(c, k)
           t == a.tasks[k]
           over == [a EXCEPT !.tasks[k].finished = TRUE]
           failed == Failed(a, k)
           after == IF t.shouldExit \/ t.finished THEN over ELSE failed
<1>1. ObtainFails(c, k) = detachFromMailbox([after EXCEPT !.tasks[k].dead = TRUE], {k})
    BY DEF ObtainFails, KeepDies, Failed1
<1>2. Over1(c, k) = detachFromMailbox([over EXCEPT !.tasks[k].dead = TRUE], {k})
    BY DEF Over1
<1>3. CASE t.shouldExit \/ t.finished
    <2>1. after = over
        BY <1>3
    <2> HIDE DEF over, failed, after
    <2> QED
        BY <1>1, <1>2, <1>3, <2>1
<1>4. CASE ~(t.shouldExit \/ t.finished)
    <2>1. after = failed
        BY <1>4
    <2> HIDE DEF over, after
    <2> QED
        BY <1>1, <1>4, <2>1
<1> QED
    BY <1>3, <1>4

LEMMA ObtainFailsFine ==
    ASSUME NEW c, NEW ts, NEW tc, NEW sel, Fine(c, NoTask, ts, tc, sel), NEW k \in DOMAIN c.tasks,
           Syncing(c.tasks[k]), ~Token(ts \o c.queue, tc, "SELECT", k), NEW d, d = ObtainFails(c, k)
    PROVE  Fine(d, k, ts, tc, sel)
<1> DEFINE q == ts \o c.queue
           a == Failed1(c, k)
           e == Over1(c, k)
           b == Failed(a, k)
           D == Doomed(a, k)
<1>1. Typed(c) /\ Core(c, NoTask, q, tc, sel) /\ ~Token(q, tc, "SELECT", k)
    BY DEF Fine
<1>2. c.maintaining = k /\ Tasked(c.tasks) /\ NoTask \notin DOMAIN c.tasks
    BY <1>1, TasksCounted DEF Core, Maintaining, Typed
<1>3. /\ But(c, a, {"tasks"}) /\ TasksBut(c.tasks, a.tasks, k, {"obtain"}) /\ a.tasks[k].obtain = "failed"
      /\ Typed(a)
    <2>1. a = Failed1(c, k)
        OBVIOUS
    <2> HIDE DEF a
    <2> QED
        BY <1>1, <2>1, Failed1Fields
<1>4. /\ But(c, e, {"tasks", "inCharge", "maintaining"}) /\ Dying(c, e, k) /\ Typed(e)
      /\ TasksBut(c.tasks, e.tasks, k, {"obtain", "finished", "dead"})
    <2>1. e = Over1(c, k)
        OBVIOUS
    <2> HIDE DEF e
    <2> QED
        BY <1>1, <1>2, <2>1, Over1Fields
<1>5. Core(e, k, q, tc, sel) /\ e.queue = c.queue
    <2> HIDE DEF q, e
    <2> QED
        BY <1>1, <1>2, <1>4, Dies DEF But, Fields
<1>6. CASE d = e
    BY <1>4, <1>5, <1>6 DEF Fine
<1>7. CASE d = detachFromMailbox([b EXCEPT !.tasks[k].dead = TRUE], {k})
    <2>1. b = Failed(a, k) /\ k \in DOMAIN a.tasks /\ DOMAIN a.tasks = DOMAIN c.tasks
        BY <1>3 DEF TasksBut
    <2>2. FailedAs(a, b, k, D)
        <3> HIDE DEF a, b
        <3> QED
            BY <1>3, <2>1, FailedFields
    <2> HIDE DEF a, b, e
    <2>3. \A i \in DOMAIN c.tasks : /\ a.tasks[i].waiting = c.tasks[i].waiting
                                    /\ Waits(a.tasks[i]) => Waits(c.tasks[i])
                                    /\ Waits(c.tasks[i]) \/ Obtained(c.tasks[i]) =>
                                         Waits(a.tasks[i]) \/ Obtained(a.tasks[i])
        <3>1. TAKE i \in DOMAIN c.tasks
        <3>2. CASE i # k
            BY <1>3, <3>2 DEF TasksBut
        <3>3. CASE i = k
            BY <1>3, <3>3 DEF TasksBut, TaskBut, TaskFields, Waits, Obtained
        <3> QED
            BY <3>2, <3>3
    <2>4. a.maintaining = c.maintaining
        BY <1>3 DEF But, Fields
    <2>5. \A j \in DOMAIN c.tasks : Patient(c, j) => Patient(a, j)
        BY <1>1, <2>3, <2>4 DEF Patient, Core, Waiting
    <2>6. D \subseteq Idle(a)
        <3>1. Patient(c, k)
            BY <1>1 DEF Core, Waiting, Stages, Staged, Syncing, Obtained
        <3>2. \A j \in DOMAIN c.tasks : Waits(c.tasks[j]) => Patient(c, j)
            BY <1>1 DEF Core, Waiting, Stages, Staged, Waits, Obtained
        <3>3. \A j \in DOMAIN a.tasks : Waits(a.tasks[j]) => Patient(a, j)
            BY <2>1, <2>3, <2>5, <3>2
        <3>4. \A j \in DOMAIN a.tasks : \A l \in DOMAIN a.tasks[j].waiting :
                 a.tasks[j].waiting[l] \in DOMAIN a.tasks
            BY <1>1, <2>1, <2>3 DEF Core, Waiting
        <3> QED
            BY <2>1, <2>5, <3>1, <3>3, <3>4, DoomedWait
    <2>7. D \in SUBSET Idle(e) /\ k \notin D /\ NoTask \notin D
        <3>1. \A w \in Idle(a) : w \in Idle(e) /\ w # k /\ w # NoTask
            BY <1>2, <1>3, <1>4, <2>1 DEF Idle, Dying, Waits, TasksBut
        <3> QED
            BY <2>6, <3>1
    <2> HIDE DEF D
    <2> DEFINE f == [b EXCEPT !.tasks[k].dead = TRUE]
    <2>8. Shape(b) /\ IsSeq(b.tasks) /\ DOMAIN b.tasks = DOMAIN c.tasks /\ TaskShape(b.tasks[k])
        BY <2>1, <2>2 DEF FailedAs, But, TaskBut
    <2>9. /\ But(b, f, {"tasks"}) /\ IsSeq(f.tasks) /\ DOMAIN f.tasks = DOMAIN c.tasks
          /\ \A i \in DOMAIN c.tasks \ {k} : f.tasks[i] = b.tasks[i]
          /\ TaskBut(b.tasks[k], f.tasks[k], {"dead"})
        <3> DEFINE u == [b.tasks[k] EXCEPT !.dead = TRUE]
                   s == [b.tasks EXCEPT ![k] = u]
        <3>1. f = [b EXCEPT !.tasks = s]
            OBVIOUS
        <3>2. TaskBut(b.tasks[k], u, {"dead"})
            BY <2>8 DEF TaskShape, TaskFields, TaskBut
        <3> HIDE DEF u, f
        <3>3. /\ IsSeq(s) /\ DOMAIN s = DOMAIN b.tasks
              /\ \A i \in DOMAIN b.tasks \ {k} : s[i] = b.tasks[i]
              /\ k \in DOMAIN b.tasks => s[k] = u
            <4>1. s = [b.tasks EXCEPT ![k] = u]
                OBVIOUS
            <4> HIDE DEF s
            <4> QED
                BY <2>8, <4>1, SetOne
        <3> HIDE DEF s
        <3>4. But(b, f, {"tasks"}) /\ f.tasks = s
            BY <2>8, <3>1 DEF Shape, Fields, But
        <3> QED
            BY <2>8, <3>2, <3>3, <3>4
    <2>10. d = detachFromMailbox(f, {k})
        BY <1>7
    <2> HIDE DEF f
    <2>11. /\ But(f, d, {"inCharge", "maintaining"}) /\ d.inCharge = Without(f.inCharge, {k})
           /\ d.maintaining = (IF f.maintaining \in {k} THEN NoTask ELSE f.maintaining)
        BY <2>9, <2>10, DetachFields DEF But
    <2>12. /\ d.tasks = f.tasks /\ Shape(d) /\ d.queue = c.queue /\ d.active = c.active /\ d.posted = c.posted
           /\ f.inCharge = Without(c.inCharge, D) /\ f.maintaining = k
        BY <1>2, <1>3, <2>2, <2>4, <2>7, <2>9, <2>11 DEF But, Fields, FailedAs
    <2>13. d.inCharge = Without(e.inCharge, D) /\ d.maintaining = NoTask
        <3>1. e.inCharge = Without(c.inCharge, {k})
            BY <1>4 DEF Dying
        <3>2. d.inCharge = Without(Without(c.inCharge, D), {k})
            BY <2>11, <2>12
        <3>3. Without(Without(c.inCharge, D), {k}) = Without(Without(c.inCharge, {k}), D)
            BY <1>2, <2>7 DEF Without
        <3> QED
            BY <2>11, <2>12, <3>1, <3>2, <3>3
    <2>14. ASSUME NEW i \in DOMAIN c.tasks
           PROVE  /\ d.tasks[i].mailbox = c.tasks[i].mailbox /\ d.tasks[i].aborted = c.tasks[i].aborted
                  /\ d.tasks[i].isRunning = c.tasks[i].isRunning /\ d.tasks[i].waiting = c.tasks[i].waiting
                  /\ d.tasks[i].successor = c.tasks[i].successor /\ d.tasks[i].depending = c.tasks[i].depending
                  /\ TaskShape(d.tasks[i])
                  /\ d.tasks[i].obtain = b.tasks[i].obtain /\ d.tasks[i].finished = b.tasks[i].finished
                  /\ i # k => d.tasks[i] = b.tasks[i]
        <3>1. /\ a.tasks[i].mailbox = c.tasks[i].mailbox /\ a.tasks[i].aborted = c.tasks[i].aborted
              /\ a.tasks[i].isRunning = c.tasks[i].isRunning /\ a.tasks[i].waiting = c.tasks[i].waiting
              /\ a.tasks[i].successor = c.tasks[i].successor /\ a.tasks[i].depending = c.tasks[i].depending
            BY <1>3 DEF TasksBut, TaskBut, TaskFields
        <3>2. /\ b.tasks[i].mailbox = a.tasks[i].mailbox /\ b.tasks[i].aborted = a.tasks[i].aborted
              /\ b.tasks[i].isRunning = a.tasks[i].isRunning /\ b.tasks[i].waiting = a.tasks[i].waiting
              /\ b.tasks[i].successor = a.tasks[i].successor /\ b.tasks[i].depending = a.tasks[i].depending
              /\ TaskShape(b.tasks[i])
            BY <2>1, <2>2 DEF FailedAs, TaskBut, TaskFields
        <3>3. CASE i # k
            BY <2>9, <2>12, <3>1, <3>2, <3>3
        <3>4. CASE i = k
            BY <2>9, <2>12, <3>1, <3>2, <3>4 DEF TaskBut, TaskFields
        <3> QED
            BY <3>3, <3>4
    <2>15. Typed(d)
        <3>1. IsSeq(d.tasks) /\ DOMAIN d.tasks = DOMAIN c.tasks
            BY <2>9, <2>12
        <3>2. Tasked(d.tasks)
            BY <1>2, <2>14, <3>1 DEF Tasked
        <3> QED
            BY <1>1, <2>11, <2>12, <3>2 DEF Typed, Without
    <2>16. Failing(e, d, D)
        <3>1. DOMAIN d.tasks = DOMAIN e.tasks /\ DOMAIN e.tasks = DOMAIN c.tasks
            BY <1>4, <2>9, <2>12 DEF Dying
        <3>2. d.active = e.active /\ d.posted = e.posted /\ d.maintaining = e.maintaining
            BY <1>4, <2>12, <2>13 DEF Dying
        <3>3. ASSUME NEW i \in DOMAIN c.tasks
              PROVE  /\ d.tasks[i].mailbox = e.tasks[i].mailbox /\ d.tasks[i].aborted = e.tasks[i].aborted
                     /\ d.tasks[i].isRunning = e.tasks[i].isRunning /\ d.tasks[i].waiting = e.tasks[i].waiting
                     /\ d.tasks[i].successor = e.tasks[i].successor
                     /\ d.tasks[i].obtain = (IF i \in D THEN "failed" ELSE e.tasks[i].obtain)
                     /\ d.tasks[i].dead => e.tasks[i].dead \/ i \in D
                     /\ e.tasks[i].finished \/ i \in D => d.tasks[i].finished
                     /\ d.tasks[i].finished => e.tasks[i].finished \/ i \in D \/ Obtained(e.tasks[i])
            <4>1. CASE i = k
                BY <1>3, <1>4, <2>1, <2>2, <2>7, <2>14, <4>1 DEF Dying, FailedAs
            <4>2. CASE i # k
                <5>1. e.tasks[i] = c.tasks[i] /\ a.tasks[i] = c.tasks[i] /\ d.tasks[i] = b.tasks[i]
                    BY <1>3, <1>4, <2>14, <4>2 DEF Dying, TasksBut
                <5>2. c.tasks[i].successor \in {k} \cup D => Obtained(c.tasks[i])
                    <6>1. c.tasks[i].successor \in {k} \cup D => c.tasks[i].successor # NoTask
                        BY <1>2, <2>7
                    <6> QED
                        BY <1>1, <6>1 DEF Core, Stages, Staged
                <5> QED
                    BY <2>1, <2>2, <2>14, <4>2, <5>1, <5>2 DEF FailedAs
            <4> QED
                BY <4>1, <4>2
        <3> QED
            BY <2>13, <3>1, <3>2, <3>3 DEF Failing
    <2>17. Core(d, k, q, tc, sel)
        <3>1. NoTask \notin DOMAIN e.tasks
            BY <1>2, <1>4 DEF Dying
        <3> HIDE DEF q
        <3> QED
            BY <1>5, <2>7, <2>16, <3>1, Fails
    <2> QED
        BY <2>12, <2>15, <2>17 DEF Fine
<1> QED
    BY <1>6, <1>7, ObtainFailsIs

-----------------------------------------------------------------------------
(* What the methods do when a mailbox is open                               *)

\* The synchronization of k is at another stage.
Turns(c, k, state, stage) == [c EXCEPT !.connState = state, !.tasks[k].obtain = stage]

LEMMA TurnsFields ==
    ASSUME NEW c, Typed(c), NEW k \in DOMAIN c.tasks, NEW state, NEW stage, NEW d, d = Turns(c, k, state, stage)
    PROVE  /\ But(c, d, {"tasks", "connState"}) /\ TasksBut(c.tasks, d.tasks, k, {"obtain"})
           /\ d.tasks[k].obtain = stage
<1> DEFINE s == [c.tasks EXCEPT ![k] = [c.tasks[k] EXCEPT !["obtain"] = stage]]
<1>1. d = [c EXCEPT !.connState = state, !.tasks = s]
    BY DEF Turns
<1>2. Sets(c.tasks, s, k, "obtain", stage)
    BY DEF Sets
<1> HIDE DEF s
<1>3. TasksBut(c.tasks, s, k, {"obtain"}) /\ s[k].obtain = stage
    <2>1. Tasked(c.tasks)
        BY DEF Typed
    <2> QED
        BY <1>2, <2>1, SetField DEF TaskFields
<1>4. But(c, d, {"tasks", "connState"}) /\ d.tasks = s
    BY <1>1 DEF Typed, Shape, Fields, But
<1> QED
    BY <1>3, <1>4

\* _completed(), and what perform() of the keeper sets
Completed(c, k) == Turns(c, k, "SELECTED", "completed")
Marked(c, k) == markAsActiveTask(Completed(c, k), "keep", k, {})
Performed(c, k) == [Marked(c, k) EXCEPT !.tasks[k].isRunning = "RUNNING",
                                        !.tasks[k].shouldExit = @ \/ c.tasks[k].waiting # <<>>]

LEMMA PerformedFields ==
    ASSUME NEW c, Typed(c), NEW k \in DOMAIN c.tasks, NEW d, d = Performed(c, k)
    PROVE  /\ But(c, d, {"tasks", "connState", "active"})
           /\ TasksBut(c.tasks, d.tasks, k, {"obtain", "isRunning", "shouldExit"})
           /\ d.tasks[k].obtain = "completed" /\ d.tasks[k].isRunning = "RUNNING"
           /\ \E e : d.active = Append(c.active, e) /\ e.kind = "keep" /\ e.task = k
<1> DEFINE a == Completed(c, k)
           b == Marked(c, k)
           more == c.tasks[k].waiting # <<>>
<1>1. /\ But(c, a, {"tasks", "connState"}) /\ TasksBut(c.tasks, a.tasks, k, {"obtain"})
      /\ a.tasks[k].obtain = "completed"
    <2>1. a = Turns(c, k, "SELECTED", "completed")
        BY DEF Completed
    <2> HIDE DEF a
    <2> QED
        BY <2>1, TurnsFields
<1>2. b = markAsActiveTask(a, "keep", k, {})
    BY DEF Marked
<1> HIDE DEF a
<1>3. But(a, b, {"active"}) /\ \E e : b.active = Append(a.active, e) /\ e.kind = "keep" /\ e.task = k
    <2> HIDE DEF b
    <2>1. Shape(a)
        BY <1>1 DEF But
    <2> QED
        BY <1>2, <2>1, MarkFields
<1>4. d = [b EXCEPT !.tasks[k].isRunning = "RUNNING", !.tasks[k].shouldExit = @ \/ more]
    BY DEF Performed
<1> HIDE DEF b, more
<1>5. Shape(b) /\ b.tasks = a.tasks /\ a.active = c.active
    BY <1>1, <1>3 DEF But, Fields
<1>6. But(b, d, {"tasks"})
    BY <1>4, <1>5 DEF Shape, Fields, But
<1>7. /\ TasksBut(a.tasks, d.tasks, k, {"isRunning", "shouldExit"})
      /\ d.tasks[k].isRunning = "RUNNING"
    <2>1. IsSeq(b.tasks) /\ k \in DOMAIN b.tasks /\ TaskShape(b.tasks[k])
        BY <1>1, <1>5 DEF TasksBut, TaskBut
    <2>2. /\ Len(b.tasks) \in Nat /\ DOMAIN b.tasks = 1 .. Len(b.tasks)
          /\ b.tasks = [i \in 1 .. Len(b.tasks) |-> b.tasks[i]]
        BY <2>1, SeqFacts
    <2>3. d.tasks = [i \in 1 .. Len(b.tasks) |-> d.tasks[i]]
        BY <1>4, <1>5, <2>2, SMTT(30) DEF Shape, Fields
    <2>4. \A i \in DOMAIN b.tasks \ {k} : d.tasks[i] = b.tasks[i]
        BY <1>4, <1>5, <2>2 DEF Shape, Fields
    <2>5. TaskBut(b.tasks[k], d.tasks[k], {"isRunning", "shouldExit"}) /\ d.tasks[k].isRunning = "RUNNING"
        <3> DEFINE t == b.tasks[k]
                   u == d.tasks[k]
                   v == t.shouldExit \/ more
        <3>1. u = [t EXCEPT !.isRunning = "RUNNING", !.shouldExit = v] /\ TaskShape(t)
            BY <1>4, <1>5, <2>1, <2>2 DEF Shape, Fields
        <3> HIDE DEF t, u, v
        <3>2. TaskBut(t, u, {"isRunning", "shouldExit"}) /\ u.isRunning = "RUNNING"
            BY <3>1 DEF TaskShape, TaskFields, TaskBut
        <3> QED
            BY <3>2 DEF t, u
    <2>6. IsSeq(d.tasks) /\ Len(d.tasks) = Len(b.tasks) /\ DOMAIN d.tasks = 1 .. Len(b.tasks)
        BY <2>2, <2>3, MadeSeq
    <2> QED
        BY <1>5, <2>2, <2>4, <2>5, <2>6 DEF TasksBut
<1>8. But(c, d, {"tasks", "connState", "active"}) /\ d.active = b.active
    BY <1>1, <1>3, <1>6 DEF But, Fields
<1>9. TasksBut(c.tasks, d.tasks, k, {"obtain", "isRunning", "shouldExit"})
    <2>1. TasksBut(c.tasks, d.tasks, k, {"obtain"} \cup {"isRunning", "shouldExit"})
        BY <1>1, <1>7, TasksButTwice
    <2>2. {"obtain"} \cup {"isRunning", "shouldExit"} \subseteq {"obtain", "isRunning", "shouldExit"}
        OBVIOUS
    <2> QED
        BY <2>1, <2>2, TasksButMore
<1>10. d.tasks[k].obtain = "completed"
    <2>1. k \in DOMAIN a.tasks
        BY <1>1 DEF TasksBut
    <2> QED
        BY <1>1, <1>7, <2>1 DEF TasksBut, TaskBut, TaskFields
<1> QED
    BY <1>3, <1>5, <1>7, <1>8, <1>9, <1>10

\* What ObtainCompletes does
LEMMA CompletesIs ==
    ASSUME NEW c, NEW k, ~c.tasks[k].finished
    PROVE  ObtainCompletes(c, k) = activateTasks(Performed(c, k), k)
BY DEF ObtainCompletes, Performed, Marked, Completed, Turns

LEMMA CompletesFine ==
    ASSUME NEW c, NEW ts, IsSeq(ts), NEW tc, NEW sel, Fine(c, NoTask, ts, tc, sel), NEW k \in DOMAIN c.tasks,
           Ready(c, ts \o c.queue, tc, sel, k), NEW d, d = ObtainCompletes(c, k)
    PROVE  Fine(d, k, ts, tc, sel)
<1> DEFINE q == ts \o c.queue
           a == Performed(c, k)
<1>1. Typed(c) /\ Core(c, NoTask, q, tc, sel) /\ Ready(c, q, tc, sel, k) /\ IsSeq(c.active)
    BY DEF Fine, Typed
<1>2. NoTask \notin DOMAIN c.tasks
    BY <1>1, TasksCounted
<1>3. c.maintaining = k /\ ~c.tasks[k].finished
    <2> HIDE DEF q
    <2> QED
        BY <1>1, ReadyFacts
<1>4. d = activateTasks(a, k)
    BY <1>3, CompletesIs
<1>5. /\ But(c, a, {"tasks", "connState", "active"})
      /\ TasksBut(c.tasks, a.tasks, k, {"obtain", "isRunning", "shouldExit"})
      /\ a.tasks[k].obtain = "completed" /\ a.tasks[k].isRunning = "RUNNING"
      /\ \E e : a.active = Append(c.active, e) /\ e.kind = "keep" /\ e.task = k
    <2>1. a = Performed(c, k)
        OBVIOUS
    <2> HIDE DEF a
    <2> QED
        BY <1>1, <2>1, PerformedFields
<1> HIDE DEF a
<1>6. PICK e : a.active = Append(c.active, e) /\ e.kind = "keep" /\ e.task = k
    BY <1>5
<1>7. /\ a.posted = c.posted /\ a.inCharge = c.inCharge /\ a.maintaining = c.maintaining /\ a.queue = c.queue
      /\ Shape(a)
    BY <1>5 DEF But, Fields
<1>8. /\ a.tasks[k].mailbox = c.tasks[k].mailbox /\ a.tasks[k].aborted = c.tasks[k].aborted
      /\ a.tasks[k].finished = c.tasks[k].finished /\ a.tasks[k].dead = c.tasks[k].dead
      /\ a.tasks[k].waiting = c.tasks[k].waiting /\ a.tasks[k].successor = c.tasks[k].successor
      /\ a.tasks[k].depending = c.tasks[k].depending
    BY <1>5 DEF TasksBut, TaskBut, TaskFields
<1>9. Completing(c, a, k, e)
    BY <1>5, <1>6, <1>7, <1>8 DEF Completing, TasksBut
<1>10. Typed(a)
    <2>1. Tasked(c.tasks)
        BY <1>1 DEF Typed
    <2>2. IsSeq(a.tasks[k].waiting) /\ a.tasks[k].depending \in Nat
        BY <1>8, <2>1 DEF Tasked
    <2>3. Tasked(a.tasks)
        BY <1>5, <2>1, <2>2, TaskedBut
    <2>4. IsSeq(a.active)
        BY <1>1, <1>6, AppendFacts
    <2> QED
        BY <1>1, <1>7, <2>3, <2>4 DEF Typed
<1> HIDE DEF q
<1>11. Core(a, k, q, tc, sel)
    BY <1>1, <1>2, <1>9, Completes
<1>12. Fine(a, k, ts, tc, sel) /\ k \in DOMAIN a.tasks
    BY <1>5, <1>7, <1>10, <1>11 DEF Fine, q, TasksBut
<1> QED
    BY <1>3, <1>4, <1>7, <1>12, ActivateFine

\* Whoever uses the mailbox says a command.
LEMMA QueueFine ==
    ASSUME NEW c, NEW x, NEW ts, IsSeq(ts), NEW tc, NEW sel, Fine(c, x, ts, tc, sel), NEW k \in DOMAIN c.tasks,
           Uses(c, k), NEW kind, kind # "SELECT", NEW d, d = queueCommand(c, kind, k)
    PROVE  Fine(d, x, ts, tc, sel) /\ d.tasks = c.tasks
<1>1. Typed(c)
    BY DEF Fine
<1>2. Shape(c) /\ IsSeq(c.queue) /\ IsSeq(c.posted)
    BY <1>1 DEF Typed
<1>3. /\ But(c, d, {"queue", "posted"})
      /\ \E p : d.posted = Append(c.posted, p) /\ p.event = "executeCommands" /\ p.of = NoTask
      /\ \E cmd : d.queue = Append(c.queue, cmd) /\ cmd.kind = kind /\ cmd.task = k
    BY <1>2, QueueFields
<1>4. PICK p : d.posted = Append(c.posted, p) /\ p.event = "executeCommands" /\ p.of = NoTask
    BY <1>3
<1>5. PICK cmd : d.queue = Append(c.queue, cmd) /\ cmd.kind = kind /\ cmd.task = k
    BY <1>3
<1>6. Extends(c.posted, d.posted, p) /\ Extends(c.queue, d.queue, cmd)
    <2>1. Extends(c.posted, Append(c.posted, p), p)
        BY <1>2, AppendExtends
    <2>2. Extends(c.queue, Append(c.queue, cmd), cmd)
        BY <1>2, AppendExtends
    <2> QED
        BY <1>4, <1>5, <2>1, <2>2
<1>7. /\ d.tasks = c.tasks /\ d.active = c.active /\ d.maintaining = c.maintaining
      /\ d.inCharge = c.inCharge /\ Shape(d)
    BY <1>3 DEF But, Fields
<1>8. Typed(d)
    BY <1>1, <1>6, <1>7 DEF Typed, Extends
<1>9. Alike(c, d)
    BY <1>7 DEF Alike, LikeTasks, LikeTask
<1>10. Speaking(c, d, k)
    BY <1>4, <1>6, <1>7 DEF Speaking, Extends, New
<1>11. Said(c.queue, d.queue, k)
    <2>1. cmd.kind # "SELECT" /\ cmd.task = k
        BY <1>5
    <2>2. More(c.queue, d.queue) /\ \A i \in New(c.queue, d.queue) : d.queue[i] = cmd
        BY <1>6 DEF Extends
    <2> QED
        BY <2>1, <2>2 DEF Said
<1> QED
    BY <1>7, <1>8, <1>9, <1>10, <1>11, SpeaksFine

\* What SELECT said is not enough.
BeginsWith(c, k) == queueCommand(Turns(c, k, "SYNCING", "SYNCING"), "UID SEARCH", k)

LEMMA BeginsFine ==
    ASSUME NEW c, NEW ts, IsSeq(ts), NEW tc, NEW sel, Fine(c, NoTask, ts, tc, sel), NEW k \in DOMAIN c.tasks,
           Ready(c, ts \o c.queue, tc, sel, k), NEW d, d = BeginsWith(c, k)
    PROVE  Fine(d, NoTask, ts, tc, sel)
<1> DEFINE q == ts \o c.queue
           a == Turns(c, k, "SYNCING", "SYNCING")
<1>1. Typed(c) /\ Core(c, NoTask, q, tc, sel) /\ Ready(c, q, tc, sel, k)
    BY DEF Fine
<1>2. d = queueCommand(a, "UID SEARCH", k)
    BY DEF BeginsWith
<1>3. /\ But(c, a, {"tasks", "connState"}) /\ TasksBut(c.tasks, a.tasks, k, {"obtain"})
      /\ a.tasks[k].obtain = "SYNCING"
    <2>1. a = Turns(c, k, "SYNCING", "SYNCING")
        OBVIOUS
    <2> HIDE DEF a
    <2> QED
        BY <1>1, <2>1, TurnsFields
<1> HIDE DEF a
<1>4. /\ a.posted = c.posted /\ a.inCharge = c.inCharge /\ a.maintaining = c.maintaining /\ a.queue = c.queue
      /\ a.active = c.active /\ Shape(a)
    BY <1>3 DEF But, Fields
<1>5. /\ a.tasks[k].mailbox = c.tasks[k].mailbox /\ a.tasks[k].aborted = c.tasks[k].aborted
      /\ a.tasks[k].finished = c.tasks[k].finished /\ a.tasks[k].dead = c.tasks[k].dead
      /\ a.tasks[k].waiting = c.tasks[k].waiting /\ a.tasks[k].successor = c.tasks[k].successor
      /\ a.tasks[k].depending = c.tasks[k].depending /\ a.tasks[k].isRunning = c.tasks[k].isRunning
    BY <1>3 DEF TasksBut, TaskBut, TaskFields
<1>6. Beginning(c, a, k)
    BY <1>3, <1>4, <1>5 DEF Beginning, TasksBut
<1>7. Typed(a)
    <2>1. Tasked(c.tasks)
        BY <1>1 DEF Typed
    <2>2. IsSeq(a.tasks[k].waiting) /\ a.tasks[k].depending \in Nat
        BY <1>5, <2>1 DEF Tasked
    <2>3. Tasked(a.tasks)
        BY <1>3, <2>1, <2>2, TaskedBut
    <2> QED
        BY <1>1, <1>4, <2>3 DEF Typed
<1> HIDE DEF q
<1>8. Core(a, NoTask, q, tc, sel) /\ Uses(a, k)
    BY <1>1, <1>6, Begins
<1>9. Fine(a, NoTask, ts, tc, sel) /\ k \in DOMAIN a.tasks
    BY <1>3, <1>4, <1>7, <1>8 DEF Fine, q, TasksBut
<1> QED
    BY <1>2, <1>8, <1>9, QueueFine

\* A tagged response to a command of ObtainSynchronizedMailboxTask
LEMMA ObtainAnsweredFine ==
    ASSUME NEW c, NEW ts, IsSeq(ts), NEW tc, NEW sel, Fine(c, NoTask, ts, tc, sel), NEW k \in DOMAIN c.tasks,
           Syncing(c.tasks[k]), ~Token(ts \o c.queue, tc, "SELECT", k), NEW r, NEW next,
           r.kind = "OK" => Ready(c, ts \o c.queue, tc, sel, k), NEW d, d = ObtainAnswered(c, k, r, next)
    PROVE  \E x : Fine(d, x, ts, tc, sel)
<1> DEFINE b == ObtainFails(c, k)
           e == [b EXCEPT !.connState = "AUTHENTICATED"]
<1>1. CASE d = Kill(c)
    <2>1. Shape(c)
        BY TypedShape
    <2>2. But(c, d, {"killed"})
        BY <1>1, <2>1, KillFields
    <2>3. But(c, d, {"connState", "killed", "asserted", "commands"})
        BY <2>2 DEF But
    <2> QED
        BY <2>3, StateFine
<1>2. CASE r.kind = "OK" /\ d = ObtainCompletes(c, k)
    BY <1>2, CompletesFine
<1>3. CASE r.kind = "OK" /\ d = BeginsWith(c, k)
    BY <1>3, BeginsFine
<1>4. Fine(b, k, ts, tc, sel)
    <2>1. b = ObtainFails(c, k)
        OBVIOUS
    <2> HIDE DEF b
    <2> QED
        BY <2>1, ObtainFailsFine
<1> HIDE DEF b
<1>5. CASE d = b
    BY <1>4, <1>5
<1>6. CASE d = e
    <2>1. Shape(b)
        BY <1>4, TypedShape
    <2>2. But(b, e, {"connState", "killed", "asserted", "commands"})
        BY <2>1 DEF Shape, Fields, But
    <2> HIDE DEF e
    <2>3. Fine(e, k, ts, tc, sel)
        BY <1>4, <2>2, StateFine
    <2> QED
        BY <1>6, <2>3
<1>7. \/ d = Kill(c)
      \/ r.kind = "OK" /\ (d = ObtainCompletes(c, k) \/ d = BeginsWith(c, k))
      \/ d = b
      \/ d = e
    <2>1. Selected(c, k, next) \in {Kill(c), ObtainCompletes(c, k), BeginsWith(c, k)}
        BY DEF Selected, BeginsWith, Turns
    <2> QED
        BY <2>1 DEF ObtainAnswered, b
<1> QED
    BY <1>1, <1>2, <1>3, <1>5, <1>6, <1>7

-----------------------------------------------------------------------------
(* What a keeper does with a response                                       *)

LEMMA ArrivalsFine ==
    ASSUME NEW c, NEW ts, IsSeq(ts), NEW tc, NEW sel, Fine(c, NoTask, ts, tc, sel), NEW k \in DOMAIN c.tasks,
           NEW n, NEW d, SetsTask(c, d, k, "arrivals", n)
    PROVE  /\ Fine(d, NoTask, ts, tc, sel) /\ Alike(c, d)
<1>1. Typed(c) /\ Tasked(c.tasks)
    BY DEF Fine, Typed
<1>2. But(c, d, {"tasks"}) /\ TasksBut(c.tasks, d.tasks, k, {"arrivals"})
    BY <1>1, TaskFields1 DEF TaskFields
<1>3. But(c, d, {"tasks", "connState", "commands"})
    BY <1>2 DEF But
<1>4. TasksBut(c.tasks, d.tasks, k, Counts)
    BY <1>2, TasksButMore DEF Counts
<1>5. d.tasks[k].depending \in Nat
    BY <1>1, <1>2 DEF TasksBut, TaskBut, TaskFields, Tasked
<1> QED
    BY <1>3, <1>4, <1>5, CountsFine

LEMMA ArrivalsAnsweredFine ==
    ASSUME NEW c, NEW ts, IsSeq(ts), NEW tc, NEW sel, Fine(c, NoTask, ts, tc, sel), NEW k \in DOMAIN c.tasks,
           Obtained(c.tasks[k]), Patient(c, k), NEW r, NEW d, d = ArrivalsAnswered(c, k, r)
    PROVE  Safe(d, NoTask, ts, tc, sel)
<1> DEFINE a == [c EXCEPT !.tasks[k].arrivals = @ - 1]
           b == Failed(a, k)
           e == [kind |-> "none", task |-> NoTask]
           n == c.tasks[k].arrivals - 1
<1>1. SetsTask(c, a, k, "arrivals", n)
    BY DEF SetsTask
<1>2. Fine(a, NoTask, ts, tc, sel) /\ Alike(c, a)
    <2> HIDE DEF a, n
    <2> QED
        BY <1>1, ArrivalsFine
<1>3. Obtained(a.tasks[k]) /\ Patient(a, k) /\ k \in DOMAIN a.tasks
    <2> HIDE DEF a
    <2>1. Waiting(c)
        BY DEF Fine, Core
    <2>2. Patient(a, k)
        BY <1>2, <2>1, AlikeWaiting
    <2> QED
        BY <1>2, <2>2 DEF Alike, LikeTasks, LikeTask, Obtained
<1>4. Fine(b, NoTask, ts, tc, sel) /\ DOMAIN b.tasks = DOMAIN a.tasks
    <2>1. b = Failed(a, k)
        OBVIOUS
    <2> HIDE DEF a, b
    <2> QED
        BY <1>2, <1>3, <2>1, FailedFine
<1>5. d = slotTaskDeleted(a, k, e) \/ d = slotTaskDeleted(b, k, e)
    BY DEF ArrivalsAnswered
<1> HIDE DEF a, b, e
<1> QED
    BY <1>2, <1>3, <1>4, <1>5, DeletedFine

LEMMA KeepHandlesFine ==
    ASSUME NEW c, NEW ts, IsSeq(ts), NEW tc, NEW sel, Fine(c, NoTask, ts, tc, sel), NEW k \in DOMAIN c.tasks,
           HasKeep(c.active, k), c.tasks[k].isRunning # "NOT_YET", NEW r, NEW d, d = KeepHandlesData(c, k, r)
    PROVE  Safe(d, NoTask, ts, tc, sel)
<1> DEFINE a == [c EXCEPT !.tasks[k].arrivals = @ + 1]
           b == queueCommand(a, "UID FETCH", k)
           n == c.tasks[k].arrivals + 1
<1>1. SetsTask(c, a, k, "arrivals", n)
    BY DEF SetsTask
<1>2. Fine(a, NoTask, ts, tc, sel) /\ Alike(c, a)
    <2> HIDE DEF a, n
    <2> QED
        BY <1>1, ArrivalsFine
<1>3. ~c.tasks[k].dead
    BY DEF Fine, Core, Stages, Staged
<1>4. CASE c.tasks[k].isRunning = "RUNNING" /\ d = b
    <2>1. Uses(c, k)
        BY <1>4 DEF Fine, Core, Maintaining, Engaged, Uses, Runs
    <2>2. b = queueCommand(a, "UID FETCH", k)
        OBVIOUS
    <2> HIDE DEF a, b
    <2>3. Uses(a, k) /\ k \in DOMAIN a.tasks
        BY <1>2, <2>1 DEF Alike, LikeTasks, LikeTask, Uses, Runs
    <2>4. Fine(b, NoTask, ts, tc, sel)
        BY <1>2, <2>2, <2>3, QueueFine
    <2> QED
        BY <1>4, <2>4 DEF Safe
<1>5. CASE d = c
    BY <1>5 DEF Safe
<1> QED
    BY <1>3, <1>4, <1>5 DEF KeepHandlesData

\* [CLOSED] ends the keepers that are still there.
LEMMA ClosedFine ==
    ASSUME NEW c, NEW ts, NEW tc, NEW sel, Fine(c, NoTask, ts, tc, sel), NEW d, d = Closed(c)
    PROVE  Fine(d, NoTask, ts, tc, sel)
<1> DEFINE keepers == {e.task : e \in {f \in ToSet(c.active) : f.kind = "keep"}}
           s == [k \in DOMAIN c.tasks |-> Ends(c.tasks[k], k \in keepers)]
           a == [c EXCEPT !.connState = "SELECTING", !.tasks = s]
           q == ts \o c.queue
<1>1. Typed(c) /\ Core(c, NoTask, q, tc, sel)
    BY DEF Fine
<1>2. Shape(c) /\ Tasked(c.tasks) /\ NoTask \notin DOMAIN c.tasks
    BY TypedShape
<1>3. CASE d = c
    BY <1>3
<1>4. CASE d = Kill(c)
    <2>1. But(c, d, {"killed"})
        BY <1>2, <1>4, KillFields
    <2>2. But(c, d, {"connState", "killed", "asserted", "commands"})
        BY <2>1 DEF But
    <2> QED
        BY <2>2, StateFine
<1>5. CASE d = a
    <2>1. \A k \in DOMAIN c.tasks : k \in keepers => Obtained(c.tasks[k])
        <3>1. SUFFICES ASSUME NEW k \in DOMAIN c.tasks, k \in keepers PROVE Obtained(c.tasks[k])
            OBVIOUS
        <3>2. PICK i \in DOMAIN c.active : c.active[i].kind = "keep" /\ c.active[i].task = k
            BY <3>1 DEF ToSet
        <3>3. c.tasks[k].isRunning # "NOT_YET"
            BY <1>1, <3>2 DEF Core, Active
        <3> QED
            BY <1>1, <3>3 DEF Core, Stages, Staged
    <2> HIDE DEF keepers
    <2>2. ASSUME NEW k \in DOMAIN c.tasks
          PROVE  /\ TaskBut(c.tasks[k], s[k], {"finished"})
                 /\ s[k].finished <=> c.tasks[k].finished \/ k \in keepers
        <3> DEFINE t == c.tasks[k]
                   told == k \in keepers
                   u == Ends(t, told)
        <3>1. TaskShape(t) /\ s[k] = u
            BY <1>2 DEF Tasked
        <3> HIDE DEF t, told
        <3>2. TaskBut(t, u, {"finished"}) /\ (u.finished <=> t.finished \/ told)
            BY <3>1 DEF TaskShape, TaskFields, TaskBut, Ends
        <3> HIDE DEF u, s
        <3> QED
            BY <3>1, <3>2 DEF t, told
    <2>3. DOMAIN s = DOMAIN c.tasks
        OBVIOUS
    <2>4. IsSeq(s)
        <3>1. Len(c.tasks) \in Nat /\ DOMAIN c.tasks = 1 .. Len(c.tasks)
            BY <1>1, TasksCounted
        <3>2. s = [k \in 1 .. Len(c.tasks) |-> s[k]]
            BY <3>1
        <3> HIDE DEF s
        <3> QED
            BY <3>1, <3>2, MadeSeq
    <2> HIDE DEF s
    <2>5. But(c, d, {"connState", "tasks"}) /\ d.tasks = s
        BY <1>2, <1>5 DEF Shape, Fields, But
    <2>6. /\ d.active = c.active /\ d.posted = c.posted /\ d.queue = c.queue /\ Shape(d)
          /\ d.inCharge = c.inCharge /\ d.maintaining = c.maintaining
        BY <2>5 DEF But, Fields
    <2>7. \A k \in DOMAIN c.tasks :
             /\ s[k].mailbox = c.tasks[k].mailbox /\ s[k].aborted = c.tasks[k].aborted
             /\ s[k].isRunning = c.tasks[k].isRunning /\ s[k].waiting = c.tasks[k].waiting
             /\ s[k].successor = c.tasks[k].successor /\ s[k].dead = c.tasks[k].dead
             /\ s[k].obtain = c.tasks[k].obtain /\ s[k].depending = c.tasks[k].depending
             /\ TaskShape(s[k])
        BY <2>2 DEF TaskBut, TaskFields
    <2>8. Typed(d)
        <3>1. Tasked(d.tasks)
            BY <1>2, <2>3, <2>4, <2>5, <2>7 DEF Tasked
        <3> QED
            BY <1>1, <2>6, <3>1 DEF Typed
    <2>9. Failing(c, d, {})
        <3>1. d.inCharge = Without(c.inCharge, {})
            BY <1>1, <2>6, NobodyLess
        <3> QED
            BY <2>1, <2>2, <2>3, <2>5, <2>6, <2>7, <3>1 DEF Failing
    <2>10. Core(d, NoTask, q, tc, sel)
        <3>1. {} \in SUBSET Idle(c)
            OBVIOUS
        <3> HIDE DEF q
        <3> QED
            BY <1>1, <1>2, <2>9, <3>1, Fails
    <2> QED
        BY <2>6, <2>8, <2>10 DEF Fine
<1> QED
    BY <1>3, <1>4, <1>5 DEF Closed

-----------------------------------------------------------------------------
(* What is done with a response                                             *)

\* Only these of the list are in r.
Only(r, list, places) == IsSeq(r) /\ \A i \in DOMAIN r : \E j \in places : r[i] = list[j]

LEMMA KeptOf ==
    ASSUME NEW n \in Nat, NEW places \in SUBSET (1 .. n), NEW list, NEW r, r = Kept(list, places)
    PROVE  Only(r, list, places)
<1>1. /\ IsSeq(Kept(list, places))
      /\ \A k \in DOMAIN Kept(list, places) :
           PlaceOf(places, k) \in places /\ Kept(list, places)[k] = list[PlaceOf(places, k)]
    BY KeptFacts
<1> QED
    BY <1>1 DEF Only

LEMMA RemovesFine ==
    ASSUME NEW c, NEW x, NEW ts, NEW tc, NEW sel, Fine(c, x, ts, tc, sel), NEW answered,
           \A i \in DOMAIN c.active : i = answered => c.active[i].kind = "command",
           NEW d, d = removeDeletedTasks(c, answered)
    PROVE  Fine(d, NoTask, ts, tc, sel)
<1> DEFINE over == {i \in DOMAIN c.active : i = answered \/ isFinished(c, c.active[i])}
           rest == DOMAIN c.active \ over
           left == Kept(c.active, rest)
           deleted == Kept(c.active, over)
           told == [n \in DOMAIN deleted |-> [event |-> "destroyed", of |-> deleted[n]]]
           posted == c.posted \o told
           q == ts \o c.queue
<1>1. Typed(c) /\ Core(c, x, q, tc, sel) /\ NoTask \notin DOMAIN c.tasks
    BY TypedShape DEF Fine
<1>2. /\ Len(c.active) \in Nat /\ DOMAIN c.active = 1 .. Len(c.active) /\ IsSeq(c.active) /\ IsSeq(c.posted)
      /\ Shape(c) /\ Len(c.posted) \in Nat /\ DOMAIN c.posted = 1 .. Len(c.posted)
    BY <1>1, TasksCounted DEF Typed
<1>3. over \in SUBSET (1 .. Len(c.active)) /\ rest \in SUBSET (1 .. Len(c.active))
    BY <1>2
<1>4. d = [c EXCEPT !.active = left, !.posted = posted]
    BY DEF removeDeletedTasks
<1>5. /\ \A i \in over : c.active[i].kind = "command" \/ isFinished(c, c.active[i])
      /\ \A i \in rest : i \in DOMAIN c.active /\ ~isFinished(c, c.active[i])
    OBVIOUS
<1> HIDE DEF over, rest
<1>6. IsSeq(left) /\ \A i \in DOMAIN left : \E j \in rest : left[i] = c.active[j]
    <2> DEFINE n == Len(c.active)
               list == c.active
    <2>1. left = Kept(list, rest) /\ n \in Nat /\ rest \in SUBSET (1 .. n)
        BY <1>2, <1>3
    <2> HIDE DEF left, n, list
    <2>2. Only(left, list, rest)
        BY <2>1, KeptOf
    <2> QED
        BY <2>2 DEF list, Only
<1>7. /\ IsSeq(deleted) /\ Len(deleted) \in Nat /\ DOMAIN deleted = 1 .. Len(deleted)
      /\ \A i \in DOMAIN deleted : \E j \in over : deleted[i] = c.active[j]
    <2> DEFINE n == Len(c.active)
               list == c.active
    <2>1. deleted = Kept(list, over) /\ n \in Nat /\ over \in SUBSET (1 .. n)
        BY <1>2, <1>3
    <2> HIDE DEF deleted, n, list
    <2>2. Only(deleted, list, over)
        BY <2>1, KeptOf
    <2> QED
        BY <2>2, SeqFacts DEF list, Only
<1> HIDE DEF left, deleted
<1>8. /\ IsSeq(told) /\ Len(told) = Len(deleted)
      /\ \A i \in DOMAIN deleted : told[i].event = "destroyed" /\ told[i].of = deleted[i]
    <2>1. told = [n \in 1 .. Len(deleted) |-> told[n]]
        BY <1>7
    <2>2. \A i \in DOMAIN deleted : told[i].event = "destroyed" /\ told[i].of = deleted[i]
        OBVIOUS
    <2> HIDE DEF told
    <2> QED
        BY <1>7, <2>1, <2>2, MadeSeq
<1> HIDE DEF told
<1>9. /\ IsSeq(posted) /\ More(c.posted, posted)
      /\ \A i \in New(c.posted, posted) : \E n \in DOMAIN deleted : posted[i] = told[n]
    <2> DEFINE s == c.posted
    <2>0. IsSeq(s) /\ posted = s \o told
        BY <1>2
    <2> HIDE DEF s, posted
    <2>4. Joined(posted, s, told)
        BY <1>8, <2>0, CatIs
    <2>1. /\ IsSeq(posted) /\ DOMAIN posted = 1 .. Len(c.posted) + Len(told)
          /\ \A k \in 1 .. Len(c.posted) : posted[k] = c.posted[k]
          /\ \A k \in 1 .. Len(told) : posted[Len(c.posted) + k] = told[k]
        BY <2>4 DEF s, Joined
    <2>2. More(c.posted, posted)
        BY <1>2, <1>7, <1>8, <2>1 DEF More
    <2>3. ASSUME NEW i \in New(c.posted, posted)
          PROVE  \E n \in DOMAIN deleted : posted[i] = told[n]
        <3>1. i - Len(c.posted) \in 1 .. Len(told) /\ Len(c.posted) + (i - Len(c.posted)) = i
            BY <1>2, <1>7, <1>8, <2>1 DEF New
        <3>2. posted[i] = told[i - Len(c.posted)]
            BY <2>1, <3>1
        <3> QED
            BY <1>7, <1>8, <3>1, <3>2
    <2> QED
        BY <2>1, <2>2, <2>3
<1> HIDE DEF posted
<1>10. But(c, d, {"active", "posted"}) /\ d.active = left /\ d.posted = posted
    BY <1>2, <1>4 DEF Shape, Fields, But
<1>11. /\ d.tasks = c.tasks /\ d.maintaining = c.maintaining /\ d.inCharge = c.inCharge
       /\ d.queue = c.queue /\ Shape(d)
    BY <1>10 DEF But, Fields
<1>12. Removing(c, d)
    <2>1. \A i \in DOMAIN d.active : \E j \in DOMAIN c.active :
             d.active[i] = c.active[j] /\ ~isFinished(c, c.active[j])
        BY <1>5, <1>6, <1>10
    <2>2. ASSUME NEW i \in New(c.posted, d.posted)
          PROVE  /\ d.posted[i].event = "destroyed"
                 /\ \E j \in DOMAIN c.active : d.posted[i].of = c.active[j]
                      /\ (c.active[j].kind = "command" \/ isFinished(c, c.active[j]))
        <3>1. PICK n \in DOMAIN deleted : d.posted[i] = told[n]
            BY <1>9, <1>10, <2>2
        <3>2. PICK j \in over : deleted[n] = c.active[j]
            BY <1>7
        <3>3. j \in DOMAIN c.active
            BY <1>2, <1>3
        <3>4. d.posted[i].event = "destroyed" /\ d.posted[i].of = c.active[j]
            BY <1>8, <3>1, <3>2
        <3> QED
            BY <1>5, <3>3, <3>4
    <2> QED
        BY <1>9, <1>10, <1>11, <2>1, <2>2 DEF Removing
<1>13. Typed(d)
    BY <1>1, <1>6, <1>9, <1>10, <1>11 DEF Typed
<1> HIDE DEF q
<1>14. Core(d, NoTask, q, tc, sel)
    BY <1>1, <1>12, Removes
<1> QED
    BY <1>11, <1>13, <1>14 DEF Fine, q

LEMMA HaltedRemoves ==
    ASSUME NEW c, Halted(c), NEW answered, NEW d, d = removeDeletedTasks(c, answered)
    PROVE  Halted(d)
<1> DEFINE over == {i \in DOMAIN c.active : i = answered \/ isFinished(c, c.active[i])}
           left == Kept(c.active, DOMAIN c.active \ over)
           deleted == Kept(c.active, over)
           posted == c.posted \o [n \in DOMAIN deleted |-> [event |-> "destroyed", of |-> deleted[n]]]
<1>1. d = [c EXCEPT !.active = left, !.posted = posted]
    BY DEF removeDeletedTasks
<1> HIDE DEF left, posted
<1> QED
    BY <1>1 DEF Halted, Shape, Fields

\* What the active task e, which takes the response r, does with it
LEMMA HandlesFine ==
    ASSUME NEW c, NEW ts, IsSeq(ts), NEW tc, NEW sel, Fine(c, NoTask, ts, tc, sel), NEW i \in DOMAIN c.active,
           NEW e, e = c.active[i], NEW r, NEW next, NEW d, d = Handles(c, e, r, next),
           e.kind = "obtain" /\ ~IsData(r) =>
             /\ ~Token(ts \o c.queue, tc, "SELECT", e.task)
             /\ r.kind = "OK" => Ready(c, ts \o c.queue, tc, sel, e.task),
           e.kind = "keep" /\ ~IsData(r) => Patient(c, e.task)
    PROVE  \E x : Safe(d, x, ts, tc, sel)
<1> DEFINE k == e.task
<1>1. /\ k \in DOMAIN c.tasks
      /\ e.kind = "keep" => c.tasks[k].isRunning # "NOT_YET"
      /\ e.kind = "obtain" => Syncing(c.tasks[k])
    <2>1. NoTask \notin DOMAIN c.tasks
        BY TypedShape
    <2> QED
        BY <2>1 DEF Fine, Core, Active
<1> HIDE DEF k
<1>2. CASE d = c
    BY <1>2 DEF Safe
<1>3. CASE e.kind = "obtain" /\ ~IsData(r) /\ d = ObtainAnswered(c, k, r, next)
    <2>1. /\ ~Token(ts \o c.queue, tc, "SELECT", k)
          /\ r.kind = "OK" => Ready(c, ts \o c.queue, tc, sel, k)
        BY <1>3 DEF k
    <2>2. \E x : Fine(d, x, ts, tc, sel)
        BY <1>1, <1>3, <2>1, ObtainAnsweredFine
    <2> QED
        BY <2>2 DEF Safe
<1>4. CASE e.kind = "keep" /\ IsData(r) /\ d = KeepHandlesData(c, k, r)
    <2>1. HasKeep(c.active, k)
        BY <1>4 DEF HasKeep, k
    <2>2. Safe(d, NoTask, ts, tc, sel)
        BY <1>1, <1>4, <2>1, KeepHandlesFine
    <2> QED
        BY <2>2
<1>5. CASE e.kind = "keep" /\ ~IsData(r) /\ d = ArrivalsAnswered(c, k, r)
    <2>1. Patient(c, k) /\ Obtained(c.tasks[k])
        BY <1>1, <1>5 DEF k, Fine, Core, Stages, Staged
    <2>2. Safe(d, NoTask, ts, tc, sel)
        BY <1>1, <1>5, <2>1, ArrivalsAnsweredFine
    <2> QED
        BY <2>2
<1>6. \/ d = c
      \/ e.kind = "obtain" /\ ~IsData(r) /\ d = ObtainAnswered(c, k, r, next)
      \/ e.kind = "keep" /\ IsData(r) /\ d = KeepHandlesData(c, k, r)
      \/ e.kind = "keep" /\ ~IsData(r) /\ d = ArrivalsAnswered(c, k, r)
    <2>1. CASE e.kind = "obtain"
        BY <2>1 DEF Handles, k
    <2>2. CASE e.kind = "keep"
        BY <2>2 DEF Handles, k
    <2>3. CASE e.kind # "obtain" /\ e.kind # "keep"
        BY <2>3 DEF Handles
    <2> QED
        BY <2>1, <2>2, <2>3
<1> QED
    BY <1>2, <1>3, <1>4, <1>5, <1>6

\* What the task e may rely on when it has the response r
Heard(c, q, tc, sel, e, r) ==
    /\ e.kind = "obtain" /\ ~IsData(r) =>
         /\ ~Token(q, tc, "SELECT", e.task)
         /\ r.kind = "OK" => Ready(c, q, tc, sel, e.task)
    /\ e.kind = "keep" /\ ~IsData(r) => Patient(c, e.task)

LEMMA HeardFacts ==
    ASSUME NEW c, NEW q, NEW tc, NEW sel, IsSeq(tc), tc # <<>>, Core(c, NoTask, q, tc, sel), NEW i \in DOMAIN c.active,
           NoTask \notin DOMAIN c.tasks, IsData(tc[1]) \/ Tagged(tc[1]), Takes(c, c.active[i], tc[1])
    PROVE  Heard(c, q, Tail(tc), sel, c.active[i], tc[1])
<1> DEFINE tl == Tail(tc)
           r == tc[1]
           k == c.active[i].task
<1>1. /\ Core(c, NoTask, q, tl, sel)
      /\ Selection(tc, 1) => q = <<>> /\ \A j \in DOMAIN tl : ~Tagged(tl[j])
    BY Hears
<1>2. 1 \in DOMAIN tc
    BY TailFacts
<1> HIDE DEF tl
<1>3. Active(c, NoTask) /\ Asking(c, q, tl, sel) /\ Answering(c, q, tl, sel) /\ Using(c, q, tl, sel)
    BY <1>1 DEF Core, Wired
<1>4. Answering(c, q, tc, sel) /\ Using(c, q, tc, sel) /\ Maintaining(c)
    BY DEF Core, Wired
<1>5. CASE c.active[i].kind = "obtain" /\ ~IsData(r)
    <2>1. k \in DOMAIN c.tasks /\ Syncing(c.tasks[k])
        BY <1>3, <1>5 DEF Active
    <2>2. Tagged(r) /\ r.task = k /\ r.of \in {"SELECT", "UID SEARCH"}
        BY <1>5 DEF Takes
    <2>3. ~Token(q, tl, "SELECT", k) /\ (r.kind = "OK" => Ready(c, q, tl, sel, k))
        <3>1. CASE r.of = "SELECT"
            <4>1. Selection(tc, 1)
                BY <2>2, <3>1 DEF Selection
            <4>2. \A kind, j : ~Token(q, tl, kind, j)
                BY <1>1, <4>1 DEF Token, In, AnswerIn
            <4>3. r.kind = "OK" => c.tasks[k].mailbox = sel
                BY <1>2, <1>4, <2>2, <4>1 DEF Answering
            <4> QED
                BY <2>1, <4>2, <4>3 DEF Ready
        <3>2. CASE r.of = "UID SEARCH"
            <4>1. Token(q, tc, "UID SEARCH", k)
                BY <1>2, <2>2, <3>2 DEF Token, AnswerIn
            <4>2. c.tasks[k].obtain = "SYNCING" /\ c.maintaining = k
                BY <1>4, <2>1, <4>1 DEF Using, Syncing, Maintaining
            <4>3. ~Token(q, tl, "SELECT", k)
                BY <1>3, <4>2 DEF Token, In, AnswerIn, Asking, Answering, Selection
            <4>4. Uses(c, k)
                BY <4>2 DEF Uses
            <4>5. c.tasks[k].mailbox = sel /\ \A j \in DOMAIN c.tasks : Token(q, tl, "UID FETCH", j) => j = k
                BY <1>3, <2>1, <4>4 DEF Using
            <4> QED
                BY <2>1, <4>3, <4>5 DEF Ready
        <3> QED
            BY <2>2, <3>1, <3>2
    <2> QED
        BY <1>5, <2>3 DEF Heard, tl
<1>6. CASE c.active[i].kind = "keep" /\ ~IsData(r)
    <2>1. k \in DOMAIN c.tasks
        BY <1>3 DEF Active
    <2>2. Tagged(r) /\ r.task = k /\ r.of = "UID FETCH"
        BY <1>6 DEF Takes
    <2>3. Token(q, tc, "UID FETCH", k)
        BY <1>2, <2>2 DEF Token, AnswerIn
    <2>4. Patient(c, k)
        BY <1>4, <2>1, <2>3 DEF Using
    <2> QED
        BY <1>6, <2>4 DEF Heard, tl
<1> QED
    BY <1>5, <1>6 DEF Heard, tl

LEMMA TakerFacts ==
    ASSUME NEW c, IsSeq(c.active), NEW r, Taker(c, r) # 0
    PROVE  Taker(c, r) \in DOMAIN c.active /\ Takes(c, c.active[Taker(c, r)], r)
<1> DEFINE takers == {i \in DOMAIN c.active : Takes(c, c.active[i], r)}
<1>1. Len(c.active) \in Nat /\ DOMAIN c.active = 1 .. Len(c.active)
    BY SeqFacts
<1>2. takers # {} /\ Taker(c, r) = Min(takers)
    BY DEF Taker
<1>3. takers \in SUBSET Nat
    BY <1>1
<1>4. \A i \in takers : i \in DOMAIN c.active /\ Takes(c, c.active[i], r)
    OBVIOUS
<1> HIDE DEF takers
<1>5. \E k \in takers : \A j \in takers : k <= j
    BY <1>2, <1>3, LeastOf
<1>6. Min(takers) \in takers
    BY <1>5 DEF Min
<1> QED
    BY <1>2, <1>4, <1>6

\* The response is handled by e, and what is over is taken out.
LEMMA ReceivesFine ==
    ASSUME NEW c, NEW ts, IsSeq(ts), NEW tc, NEW sel, Fine(c, NoTask, ts, tc, sel), NEW i \in DOMAIN c.active,
           NEW e, e = c.active[i], NEW r, Heard(c, ts \o c.queue, tc, sel, e, r), NEW next, NEW d,
           d = removeDeletedTasks(Handles(c, e, r, next), IF e.kind = "command" THEN i ELSE 0)
    PROVE  Safe(d, NoTask, ts, tc, sel)
<1> DEFINE a == Handles(c, e, r, next)
<1>1. a = Handles(c, e, r, next)
    OBVIOUS
<1>2. \E x : Safe(a, x, ts, tc, sel)
    <2> HIDE DEF a
    <2>1. /\ e.kind = "obtain" /\ ~IsData(r) =>
               /\ ~Token(ts \o c.queue, tc, "SELECT", e.task)
               /\ r.kind = "OK" => Ready(c, ts \o c.queue, tc, sel, e.task)
          /\ e.kind = "keep" /\ ~IsData(r) => Patient(c, e.task)
        BY DEF Heard
    <2> QED
        BY <1>1, <2>1, HandlesFine
<1>3. CASE e.kind = "command"
    <2>1. a = c
        BY <1>3 DEF Handles
    <2>2. d = removeDeletedTasks(c, i) /\ \A j \in DOMAIN c.active : j = i => c.active[j].kind = "command"
        BY <1>3, <2>1
    <2>3. Fine(d, NoTask, ts, tc, sel)
        BY <2>2, RemovesFine
    <2> QED
        BY <2>3 DEF Safe
<1>4. CASE e.kind # "command"
    <2>1. d = removeDeletedTasks(a, 0)
        BY <1>4
    <2> HIDE DEF a
    <2>2. PICK x : Safe(a, x, ts, tc, sel)
        BY <1>2
    <2>3. CASE Halted(a)
        BY <2>1, <2>3, HaltedRemoves DEF Safe
    <2>4. CASE Fine(a, x, ts, tc, sel)
        <3>1. Typed(a)
            BY <2>4 DEF Fine
        <3>2. \A j \in DOMAIN a.active : j = 0 => a.active[j].kind = "command"
            BY <3>1, TasksCounted
        <3>3. Fine(d, NoTask, ts, tc, sel)
            BY <2>1, <2>4, <3>2, RemovesFine
        <3> QED
            BY <3>3 DEF Safe
    <2> QED
        BY <2>2, <2>3, <2>4 DEF Safe
<1> QED
    BY <1>3, <1>4

-----------------------------------------------------------------------------
(* What is asked of the Model                                               *)

LEMMA PostFine ==
    ASSUME NEW c, NEW x, NEW ts, NEW tc, NEW sel, Fine(c, x, ts, tc, sel), NEW k \in DOMAIN c.tasks,
           NEW event, event # "destroyed", event # "slotPerformConnection",
           event = "terminate" => Runs(c.tasks[k]) \/ c.tasks[k].aborted,
           Runs(c.tasks[k]) => c.maintaining = k, NEW d, d = Post(c, event, k)
    PROVE  Fine(d, x, ts, tc, sel) /\ d.tasks = c.tasks /\ d.inCharge = c.inCharge
<1> DEFINE q == ts \o c.queue
<1>1. Typed(c) /\ Core(c, x, q, tc, sel) /\ Shape(c) /\ IsSeq(c.posted)
    BY DEF Fine, Typed
<1>2. But(c, d, {"posted"}) /\ \E p : d.posted = Append(c.posted, p) /\ p.event = event /\ p.of = k
    BY <1>1, PostFields
<1>3. PICK p : d.posted = Append(c.posted, p) /\ p.event = event /\ p.of = k
    BY <1>2
<1>4. /\ d.tasks = c.tasks /\ d.active = c.active /\ d.maintaining = c.maintaining
      /\ d.inCharge = c.inCharge /\ d.queue = c.queue /\ Shape(d)
    BY <1>2 DEF But, Fields
<1>5. PostedFor(c, p) /\ ~Connects(p) /\ p.event # "destroyed"
    BY <1>3 DEF PostedFor, Connects
<1>6. Typed(d)
    <2>1. IsSeq(d.posted)
        BY <1>1, <1>3, AppendFacts
    <2> QED
        BY <1>1, <1>4, <2>1 DEF Typed
<1> HIDE DEF q
<1>7. Core(d, x, q, tc, sel)
    BY <1>1, <1>3, <1>4, <1>5, Posts
<1> QED
    BY <1>4, <1>6, <1>7 DEF Fine, q

\* A pair is made.
Made(c, m, k) == [c EXCEPT !.tasks = Append(@, NewTask(m)), !.inCharge[m] = k]

MadeAs(c, d, m, k) ==
    /\ Typed(d) /\ But(c, d, {"tasks", "inCharge"})
    /\ DOMAIN d.tasks = DOMAIN c.tasks \cup {k} /\ d.tasks[k] = NewTask(m)
    /\ \A i \in DOMAIN c.tasks : d.tasks[i] = c.tasks[i]
    /\ d.inCharge = [c.inCharge EXCEPT ![m] = k] /\ d.inCharge[m] = k

LEMMA MadeFields ==
    ASSUME NEW c, Typed(c), NEW m \in Mailboxes, NEW k, k = Len(c.tasks) + 1, NEW d, d = Made(c, m, k)
    PROVE  MadeAs(c, d, m, k)
<1> DEFINE t == NewTask(m)
           s == Append(c.tasks, t)
           charge == [c.inCharge EXCEPT ![m] = k]
<1>1. Shape(c) /\ Tasked(c.tasks) /\ Len(c.tasks) \in Nat /\ DOMAIN c.tasks = 1 .. Len(c.tasks)
    BY TasksCounted DEF Typed
<1>2. d = [c EXCEPT !.tasks = s, !.inCharge = charge]
    BY DEF Made
<1>3. TaskShape(t) /\ IsSeq(t.waiting) /\ t.depending \in Nat
    BY NewTaskFacts
<1> HIDE DEF t
<1>4. /\ IsSeq(s) /\ DOMAIN s = DOMAIN c.tasks \cup {k} /\ s[k] = t
      /\ \A i \in DOMAIN c.tasks : s[i] = c.tasks[i]
    <2>1. /\ IsSeq(s) /\ DOMAIN s = 1 .. Len(c.tasks) + 1 /\ s[Len(c.tasks) + 1] = t
          /\ \A i \in 1 .. Len(c.tasks) : s[i] = c.tasks[i]
        <3>1. IsSeq(c.tasks)
            BY <1>1 DEF Tasked
        <3> QED
            BY <3>1, AppendFacts
    <2> HIDE DEF s
    <2> QED
        BY <1>1, <2>1
<1>5. charge = [n \in Mailboxes |-> charge[n]] /\ charge[m] = k
    BY DEF Typed
<1> HIDE DEF s, charge
<1>6. But(c, d, {"tasks", "inCharge"}) /\ d.tasks = s /\ d.inCharge = charge
    BY <1>1, <1>2 DEF Shape, Fields, But
<1>7. Typed(d)
    <2>1. Tasked(s)
        BY <1>1, <1>3, <1>4 DEF Tasked
    <2> QED
        BY <1>5, <1>6, <2>1 DEF Typed, But, Fields
<1> QED
    BY <1>4, <1>5, <1>6, <1>7 DEF MadeAs, t, charge

\* The first on the connection
LEMMA FirstFine ==
    ASSUME NEW c, NEW ts, NEW tc, NEW sel, Fine(c, NoTask, ts, tc, sel), NEW m \in Mailboxes,
           NEW k, k = Len(c.tasks) + 1, c.maintaining = NoTask, NEW a, MadeAs(c, a, m, k), NEW d,
           d = Post([a EXCEPT !.maintaining = k], "slotPerformConnection", k)
    PROVE  Fine(d, NoTask, ts, tc, sel) /\ d.inCharge[m] = k /\ k \in DOMAIN d.tasks
<1> DEFINE q == ts \o c.queue
           b == [a EXCEPT !.maintaining = k]
<1>1. Typed(c) /\ Core(c, NoTask, q, tc, sel) /\ IsSeq(c.posted) /\ NoTask \notin DOMAIN c.tasks
    BY TypedShape DEF Fine, Typed
<1>2. k \notin DOMAIN c.tasks /\ k # NoTask
    BY <1>1, TasksCounted DEF NoTask
<1>3. But(a, b, {"maintaining"}) /\ b.maintaining = k /\ Shape(a)
    BY DEF MadeAs, Typed, Shape, Fields, But
<1>4. d = Post(b, "slotPerformConnection", k)
    OBVIOUS
<1> HIDE DEF b
<1>5. But(b, d, {"posted"}) /\ \E p : d.posted = Append(b.posted, p) /\ p.event = "slotPerformConnection" /\ p.of = k
    BY <1>3, <1>4, PostFields DEF But
<1>6. PICK p : d.posted = Append(b.posted, p) /\ p.event = "slotPerformConnection" /\ p.of = k
    BY <1>5
<1>7. /\ d.tasks = a.tasks /\ d.active = a.active /\ d.maintaining = k /\ d.inCharge = a.inCharge
      /\ d.queue = a.queue /\ Shape(d) /\ b.posted = a.posted
    BY <1>3, <1>5 DEF But, Fields
<1>8. a.active = c.active /\ a.posted = c.posted /\ a.queue = c.queue
    BY DEF MadeAs, But, Fields
<1>9. Opening(c, d, m, k)
    BY <1>7, <1>8 DEF Opening, MadeAs
<1>10. Typed(d)
    <2>0. d.posted = Append(c.posted, p)
        BY <1>6, <1>7, <1>8
    <2>2. IsSeq(Append(c.posted, p))
        BY <1>1, AppendFacts
    <2>1. IsSeq(d.posted)
        BY <2>0, <2>2
    <2>3. /\ Tasked(a.tasks) /\ IsSeq(a.active) /\ IsSeq(a.queue)
          /\ a.inCharge = [n \in Mailboxes |-> a.inCharge[n]]
        BY DEF MadeAs, Typed
    <2> QED
        BY <1>7, <2>1, <2>3 DEF Typed
<1> HIDE DEF q
<1>11. Core(d, NoTask, q, tc, sel)
    <2>1. d.posted = Append(c.posted, p) /\ Connects(p) /\ p.of = k
        BY <1>6, <1>7, <1>8 DEF Connects
    <2> QED
        BY <1>1, <1>2, <1>7, <1>9, <2>1, OpensFirst
<1> QED
    BY <1>7, <1>8, <1>10, <1>11 DEF Fine, q, MadeAs

\* Behind the one that has the connection
Queues(c, j, k) == [c EXCEPT !.tasks[j].waiting = Append(@, k), !.tasks[j].shouldExit = TRUE]

QueuedAs(c, d, j, k) ==
    /\ But(c, d, {"tasks"}) /\ TasksBut(c.tasks, d.tasks, j, {"waiting", "shouldExit"})
    /\ d.tasks[j].waiting = Append(c.tasks[j].waiting, k) /\ Typed(d)

LEMMA QueuesFields ==
    ASSUME NEW c, Typed(c), NEW j \in DOMAIN c.tasks, NEW k, NEW d, d = Queues(c, j, k)
    PROVE  QueuedAs(c, d, j, k)
<1> DEFINE more == Append(c.tasks[j].waiting, k)
           b == [c EXCEPT !.tasks = [c.tasks EXCEPT ![j] = [c.tasks[j] EXCEPT !["waiting"] = more]]]
           e == [b EXCEPT !.tasks = [b.tasks EXCEPT ![j] = [b.tasks[j] EXCEPT !["shouldExit"] = TRUE]]]
<1>1. Shape(c) /\ Tasked(c.tasks)
    BY DEF Typed
<1>2. d = e
    BY DEF Queues
<1>7. SetsTask(c, b, j, "waiting", more)
    BY DEF SetsTask
<1>8. SetsTask(b, d, j, "shouldExit", TRUE)
    BY <1>2 DEF SetsTask
<1> HIDE DEF more, b, e
<1>9. But(c, b, {"tasks"}) /\ TasksBut(c.tasks, b.tasks, j, {"waiting"}) /\ b.tasks[j].waiting = more
    BY <1>7, TaskFields1 DEF TaskFields
<1>10. Typed(b)
    <2>1. IsSeq(c.tasks[j].waiting) /\ c.tasks[j].depending \in Nat
        BY <1>1 DEF Tasked
    <2>2. IsSeq(b.tasks[j].waiting)
        BY <1>9, <2>1, AppendFacts DEF more
    <2>3. b.tasks[j].depending \in Nat
        BY <1>9, <2>1 DEF TasksBut, TaskBut, TaskFields
    <2>4. Tasked(b.tasks)
        BY <1>1, <1>9, <2>2, <2>3, TaskedBut
    <2> QED
        BY <1>9, <2>4 DEF Typed, But, Fields
<1>11. j \in DOMAIN b.tasks
    BY <1>9 DEF TasksBut
<1>12. But(b, d, {"tasks"}) /\ TasksBut(b.tasks, d.tasks, j, {"shouldExit"})
    BY <1>8, <1>10, <1>11, TaskFields1 DEF TaskFields
<1>3. But(c, d, {"tasks"})
    BY <1>9, <1>12 DEF But
<1>4. /\ TasksBut(c.tasks, d.tasks, j, {"waiting", "shouldExit"})
      /\ d.tasks[j].waiting = Append(c.tasks[j].waiting, k)
    <2>1. TasksBut(c.tasks, d.tasks, j, {"waiting"} \cup {"shouldExit"})
        BY <1>9, <1>12, TasksButTwice
    <2>2. {"waiting"} \cup {"shouldExit"} \subseteq {"waiting", "shouldExit"}
        OBVIOUS
    <2>3. TasksBut(c.tasks, d.tasks, j, {"waiting", "shouldExit"})
        BY <2>1, <2>2, TasksButMore
    <2>4. d.tasks[j].waiting = b.tasks[j].waiting
        BY <1>11, <1>12 DEF TasksBut, TaskBut, TaskFields
    <2> QED
        BY <1>9, <2>3, <2>4 DEF more
<1>5. Tasked(d.tasks)
    <2>1. IsSeq(c.tasks[j].waiting) /\ c.tasks[j].depending \in Nat
        BY <1>1 DEF Tasked
    <2>2. IsSeq(d.tasks[j].waiting)
        BY <1>4, <2>1, AppendFacts
    <2>3. d.tasks[j].depending \in Nat
        BY <1>4, <2>1 DEF TasksBut, TaskBut, TaskFields
    <2> QED
        BY <1>1, <1>4, <2>2, <2>3, TaskedBut
<1>6. Typed(d)
    BY <1>1, <1>3, <1>5 DEF Typed, But, Fields
<1> QED
    BY <1>3, <1>4, <1>6 DEF QueuedAs

LEMMA AddObtainIs ==
    ASSUME NEW c, NEW j, NEW k, NEW b, b = Queues(c, j, k), NEW d, d = addObtainTask(c, j, k)
    PROVE  \/ isReadyToTerminate(b.tasks[j]) /\ d = Post(b, "terminate", j)
           \/ d = b
BY DEF addObtainTask, Queues

LEMMA LaterFine ==
    ASSUME NEW c, NEW ts, NEW tc, NEW sel, Fine(c, NoTask, ts, tc, sel), NEW m \in Mailboxes,
           NEW k, k = Len(c.tasks) + 1, NEW j, c.maintaining = j, j # NoTask, NEW a, MadeAs(c, a, m, k),
           NEW d, d = addObtainTask(a, j, k)
    PROVE  Fine(d, NoTask, ts, tc, sel) /\ d.inCharge[m] = k /\ k \in DOMAIN d.tasks
<1> DEFINE q == ts \o c.queue
           b == Queues(a, j, k)
<1>1. Typed(c) /\ Core(c, NoTask, q, tc, sel) /\ NoTask \notin DOMAIN c.tasks
    BY TypedShape DEF Fine
<1>2. k \notin DOMAIN c.tasks /\ k # NoTask
    BY <1>1, TasksCounted DEF NoTask
<1>3. j \in DOMAIN c.tasks /\ (Obtained(c.tasks[j]) => Runs(c.tasks[j]))
    BY <1>1 DEF Core, Maintaining
<1>4. Typed(a) /\ j \in DOMAIN a.tasks /\ k \in DOMAIN a.tasks /\ a.tasks[j] = c.tasks[j]
    BY <1>3 DEF MadeAs
<1>5. \/ isReadyToTerminate(b.tasks[j]) /\ d = Post(b, "terminate", j)
      \/ d = b
    BY AddObtainIs
<1>15. b = Queues(a, j, k)
    OBVIOUS
<1> HIDE DEF b
<1>6. /\ But(a, b, {"tasks"}) /\ TasksBut(a.tasks, b.tasks, j, {"waiting", "shouldExit"})
      /\ b.tasks[j].waiting = Append(a.tasks[j].waiting, k) /\ Typed(b)
    <2>1. QueuedAs(a, b, j, k)
        BY <1>4, <1>15, QueuesFields
    <2> QED
        BY <2>1 DEF QueuedAs
<1>7. /\ b.active = c.active /\ b.posted = c.posted /\ b.queue = c.queue
      /\ b.inCharge = a.inCharge /\ b.maintaining = j
    BY <1>6 DEF MadeAs, But, Fields
<1>8. Opening(c, b, m, k)
    <2>1. DOMAIN b.tasks = DOMAIN c.tasks \cup {k} /\ k # j
        BY <1>2, <1>3, <1>6 DEF TasksBut, MadeAs
    <2>2. \A i \in DOMAIN a.tasks \ {j} : b.tasks[i] = a.tasks[i]
        BY <1>6 DEF TasksBut
    <2>3. b.tasks[k] = NewTask(m)
        BY <1>4, <2>1, <2>2 DEF MadeAs
    <2>4. \A i \in DOMAIN c.tasks \ {c.maintaining} : b.tasks[i] = c.tasks[i]
        BY <2>2 DEF MadeAs
    <2> QED
        BY <1>7, <2>1, <2>3, <2>4 DEF Opening, MadeAs
<1>9. LikeTask([c.tasks[j] EXCEPT !.waiting = Append(@, k)], b.tasks[j])
    <2> DEFINE t == c.tasks[j]
               u == b.tasks[j]
               v == Append(t.waiting, k)
    <2>1. TaskBut(t, u, {"waiting", "shouldExit"}) /\ u.waiting = v
        BY <1>4, <1>6 DEF TasksBut
    <2>2. TaskShape(t)
        BY <1>1, <1>3 DEF Typed, Tasked
    <2> HIDE DEF t, u, v
    <2>3. LikeTask([t EXCEPT !.waiting = v], u)
        BY <2>1, <2>2 DEF TaskBut, TaskShape, TaskFields, LikeTask
    <2> QED
        BY <2>3 DEF t, u, v
<1> HIDE DEF q
<1>10. Core(b, NoTask, q, tc, sel)
    BY <1>1, <1>2, <1>7, <1>8, <1>9, OpensLater
<1>11. Fine(b, NoTask, ts, tc, sel) /\ b.inCharge[m] = k
    BY <1>6, <1>7, <1>10 DEF Fine, q, MadeAs
<1>12. k \in DOMAIN b.tasks /\ j \in DOMAIN b.tasks
    BY <1>4, <1>6 DEF TasksBut
<1>13. CASE isReadyToTerminate(b.tasks[j]) /\ d = Post(b, "terminate", j)
    <2>1. Obtained(b.tasks[j])
        BY <1>13 DEF isReadyToTerminate
    <2>2. Obtained(c.tasks[j]) /\ (Runs(c.tasks[j]) => Runs(b.tasks[j]))
        BY <1>4, <1>6, <2>1 DEF TasksBut, TaskBut, TaskFields, Obtained, Runs
    <2>3. Runs(b.tasks[j]) /\ (Runs(b.tasks[j]) => b.maintaining = j)
        BY <1>3, <1>7, <2>2
    <2>4. Fine(d, NoTask, ts, tc, sel) /\ d.tasks = b.tasks /\ d.inCharge = b.inCharge
        <3>1. "terminate" # "destroyed" /\ "terminate" # "slotPerformConnection"
            OBVIOUS
        <3> QED
            BY <1>11, <1>12, <1>13, <2>3, <3>1, PostFine
    <2> QED
        BY <1>11, <1>12, <2>4
<1>14. CASE d = b
    BY <1>11, <1>12, <1>14
<1> QED
    BY <1>5, <1>13, <1>14

\* Every task that is active now is watched by the new keeper.
Watching(c, k) == [c EXCEPT !.active = [i \in DOMAIN c.active |-> Watched(c.active[i], k)]]

LEMMA WatchingFine ==
    ASSUME NEW c, NEW ts, IsSeq(ts), NEW tc, NEW sel, Fine(c, NoTask, ts, tc, sel), NEW k \in DOMAIN c.tasks,
           NEW d, d = Watching(c, k)
    PROVE  Fine(d, NoTask, ts, tc, sel) /\ d.tasks = c.tasks /\ d.inCharge = c.inCharge
<1> DEFINE s == [i \in DOMAIN c.active |-> Watched(c.active[i], k)]
<1>1. Typed(c) /\ Shape(c) /\ IsSeq(c.active)
    BY DEF Fine, Typed
<1>2. d = [c EXCEPT !.active = s]
    BY DEF Watching
<1>3. IsSeq(s) /\ DOMAIN s = DOMAIN c.active
    <2>1. Len(c.active) \in Nat /\ DOMAIN c.active = 1 .. Len(c.active)
        BY <1>1, SeqFacts
    <2>2. s = [i \in 1 .. Len(c.active) |-> s[i]]
        BY <2>1
    <2> HIDE DEF s
    <2> QED
        BY <2>1, <2>2, MadeSeq
<1>4. \A i \in DOMAIN c.active : s[i].kind = c.active[i].kind /\ s[i].task = c.active[i].task
    BY DEF Watched
<1> HIDE DEF s
<1>5. /\ d.tasks = c.tasks /\ d.active = s /\ d.posted = c.posted /\ d.queue = c.queue /\ Shape(d)
      /\ d.maintaining = c.maintaining /\ d.inCharge = c.inCharge
    BY <1>1, <1>2 DEF Shape, Fields
<1>6. Typed(d)
    BY <1>1, <1>3, <1>5 DEF Typed
<1>7. Alike(c, d)
    BY <1>5 DEF Alike, LikeTasks, LikeTask
<1>8. Speaking(c, d, k)
    BY <1>3, <1>4, <1>5 DEF Speaking, More, New
<1>9. Said(c.queue, d.queue, k)
    BY <1>5 DEF Said, More, New
<1>10. Fine(d, NoTask, ts, tc, sel)
    BY <1>5, <1>6, <1>7, <1>8, <1>9, SpeaksFine
<1> QED
    BY <1>5, <1>10

\* The constructor of the keeper
Created(c, a, k) ==
    IF c.maintaining # NoTask THEN addObtainTask(a, c.maintaining, k)
    ELSE Post([a EXCEPT !.maintaining = k], "slotPerformConnection", k)

LEMMA CreateIs ==
    ASSUME NEW c, Typed(c), NEW m, NEW k, k = Len(c.tasks) + 1, NEW a, a = Made(c, m, k)
    PROVE  createKeepMailboxOpenTask(c, m) = Watching(Created(c, a, k), k)
<1>1. a.maintaining = c.maintaining
    BY DEF Made, Typed, Shape, Fields
<1> QED
    BY <1>1 DEF createKeepMailboxOpenTask, Made, Watching, Created

Responsible(d, m) == d.inCharge[m] \in DOMAIN d.tasks

LEMMA CreateFine ==
    ASSUME NEW c, NEW ts, IsSeq(ts), NEW tc, NEW sel, Fine(c, NoTask, ts, tc, sel), NEW m \in Mailboxes,
           NEW d, d = createKeepMailboxOpenTask(c, m)
    PROVE  Fine(d, NoTask, ts, tc, sel) /\ Responsible(d, m)
<1> DEFINE k == Len(c.tasks) + 1
           a == Made(c, m, k)
           b == Created(c, a, k)
<1>1. Typed(c)
    BY DEF Fine
<1>2. d = Watching(b, k)
    BY <1>1, CreateIs
<1>3. MadeAs(c, a, m, k)
    <2> HIDE DEF k
    <2>1. k = Len(c.tasks) + 1
        BY DEF k
    <2>2. a = Made(c, m, k)
        OBVIOUS
    <2> HIDE DEF a
    <2> QED
        BY <1>1, <2>1, <2>2, MadeFields
<1>4. k = Len(c.tasks) + 1
    OBVIOUS
<1>5. b = Created(c, a, k)
    OBVIOUS
<1> HIDE DEF k, a, b
<1>6. Fine(b, NoTask, ts, tc, sel) /\ b.inCharge[m] = k /\ k \in DOMAIN b.tasks
    <2>1. CASE c.maintaining = NoTask
        <3>1. b = Post([a EXCEPT !.maintaining = k], "slotPerformConnection", k)
            BY <1>5, <2>1 DEF Created
        <3> QED
            BY <1>3, <1>4, <2>1, <3>1, FirstFine
    <2>2. CASE c.maintaining # NoTask
        <3> DEFINE j == c.maintaining
        <3>1. b = addObtainTask(a, j, k) /\ c.maintaining = j /\ j # NoTask
            BY <1>5, <2>2 DEF Created
        <3> HIDE DEF j
        <3> QED
            BY <1>3, <1>4, <3>1, LaterFine
    <2> QED
        BY <2>1, <2>2
<1>7. Fine(d, NoTask, ts, tc, sel) /\ d.tasks = b.tasks /\ d.inCharge = b.inCharge
    BY <1>2, <1>6, WatchingFine
<1> QED
    BY <1>6, <1>7 DEF Responsible

LEMMA FindFine ==
    ASSUME NEW c, NEW ts, IsSeq(ts), NEW tc, NEW sel, Fine(c, NoTask, ts, tc, sel), NEW m \in Mailboxes,
           NEW d, d = findTaskResponsibleFor(c, m)
    PROVE  Fine(d, NoTask, ts, tc, sel) /\ Responsible(d, m)
<1>1. CASE c.inCharge[m] # NoTask
    <2>1. d = c
        BY <1>1 DEF findTaskResponsibleFor
    <2>2. c.inCharge[m] \in DOMAIN c.tasks
        BY <1>1 DEF Fine, Core, Maintaining
    <2> QED
        BY <2>1, <2>2 DEF Responsible
<1>2. CASE c.inCharge[m] = NoTask
    <2>1. d = createKeepMailboxOpenTask(c, m)
        BY <1>2 DEF findTaskResponsibleFor
    <2> QED
        BY <2>1, CreateFine
<1> QED
    BY <1>1, <1>2

\* A task of the user
Added(c, k) == [c EXCEPT !.tasks[k].depending = @ + 1, !.commands = @ + 1]

LEMMA AddedFine ==
    ASSUME NEW c, NEW ts, IsSeq(ts), NEW tc, NEW sel, Fine(c, NoTask, ts, tc, sel), NEW k \in DOMAIN c.tasks,
           NEW d, d = Added(c, k)
    PROVE  Fine(d, NoTask, ts, tc, sel) /\ Alike(c, d)
<1> DEFINE n == c.tasks[k].depending + 1
           a == [c EXCEPT !.tasks = [c.tasks EXCEPT ![k] = [c.tasks[k] EXCEPT !["depending"] = n]]]
           more == c.commands + 1
<1>1. Typed(c) /\ Shape(c) /\ n \in Nat
    BY DEF Fine, Typed, Tasked
<1>2. d = [a EXCEPT !.commands = more]
    BY <1>1 DEF Added, Shape, Fields
<1>3. SetsTask(c, a, k, "depending", n)
    BY DEF SetsTask
<1> HIDE DEF n, a, more
<1>4. But(c, a, {"tasks"}) /\ TasksBut(c.tasks, a.tasks, k, {"depending"}) /\ a.tasks[k].depending = n
    BY <1>1, <1>3, TaskFields1 DEF TaskFields
<1>5. But(a, d, {"commands"})
    BY <1>2, <1>4 DEF But, Shape, Fields
<1>6. But(c, d, {"tasks", "connState", "commands"}) /\ d.tasks = a.tasks
    BY <1>4, <1>5 DEF But, Fields
<1>7. TasksBut(c.tasks, d.tasks, k, Counts) /\ d.tasks[k].depending \in Nat
    <2>1. {"depending"} \subseteq Counts
        BY DEF Counts
    <2> QED
        BY <1>1, <1>4, <1>6, <2>1, TasksButMore
<1> QED
    BY <1>6, <1>7, CountsFine

LEMMA AddFine ==
    ASSUME NEW c, NEW ts, IsSeq(ts), NEW tc, NEW sel, Fine(c, NoTask, ts, tc, sel), NEW m \in Mailboxes,
           Responsible(c, m), NEW k, k = c.inCharge[m], NEW d, d = Post(Added(c, k), "slotActivateTasks", k)
    PROVE  Fine(d, NoTask, ts, tc, sel)
<1> DEFINE a == Added(c, k)
<1>1. k \in DOMAIN c.tasks
    BY DEF Responsible
<1>2. d = Post(a, "slotActivateTasks", k) /\ a = Added(c, k)
    OBVIOUS
<1> HIDE DEF a
<1>3. Fine(a, NoTask, ts, tc, sel) /\ Alike(c, a)
    BY <1>1, <1>2, AddedFine
<1>4. k \in DOMAIN a.tasks /\ a.inCharge[m] = k
    BY <1>1, <1>3 DEF Alike, LikeTasks
<1>5. Runs(a.tasks[k]) => a.maintaining = k
    BY <1>3, <1>4 DEF Fine, Core, Maintaining, Engaged, InCharge
<1>6. /\ "slotActivateTasks" # "destroyed" /\ "slotActivateTasks" # "slotPerformConnection"
      /\ "slotActivateTasks" # "terminate"
    OBVIOUS
<1> QED
    BY <1>2, <1>3, <1>4, <1>5, <1>6, PostFine

-----------------------------------------------------------------------------
(* Posted events                                                            *)

\* The first of the posted events is taken.
Taken(c) == [c EXCEPT !.posted = Tail(@)]

TakenAs(c, d, p) ==
    /\ PostedFor(d, p) /\ But(c, d, {"posted"})
    /\ Connects(p) => \A i \in DOMAIN d.posted : ~Connects(d.posted[i])

LEMMA TakenFine ==
    ASSUME NEW c, NEW ts, NEW tc, NEW sel, Fine(c, NoTask, ts, tc, sel), c.posted # <<>>,
           NEW d, d = Taken(c)
    PROVE  Fine(d, NoTask, ts, tc, sel) /\ TakenAs(c, d, Head(c.posted))
<1> DEFINE q == ts \o c.queue
           posted == c.posted
           rest == Tail(posted)
           p == Head(posted)
<1>1. Typed(c) /\ Shape(c) /\ IsSeq(posted) /\ Core(c, NoTask, q, tc, sel) /\ posted # <<>>
    BY DEF Fine, Typed
<1>2. d = [c EXCEPT !.posted = rest]
    BY <1>1 DEF Taken
<1>3. posted = c.posted
    OBVIOUS
<1> HIDE DEF posted, q
<1>4. IsSeq(rest) /\ Some(rest, posted)
    BY <1>1, TailFacts, TailIsSome
<1>5. /\ p = posted[1] /\ 1 \in DOMAIN posted /\ Len(posted) \in Nat
      /\ DOMAIN posted = 1 .. Len(posted) /\ DOMAIN rest = 1 .. Len(posted) - 1
      /\ \A k \in 1 .. Len(posted) - 1 : rest[k] = posted[k + 1]
    BY <1>1, TailFacts, SeqFacts
<1> HIDE DEF rest, p
<1>6. But(c, d, {"posted"}) /\ d.posted = rest
    BY <1>1, <1>2 DEF Shape, Fields, But
<1>7. /\ d.tasks = c.tasks /\ d.active = c.active /\ d.maintaining = c.maintaining
      /\ d.inCharge = c.inCharge /\ d.queue = c.queue /\ Shape(d)
    BY <1>6 DEF But, Fields
<1>8. Typed(d)
    BY <1>1, <1>4, <1>6, <1>7 DEF Typed
<1>9. Core(d, NoTask, q, tc, sel)
    BY <1>1, <1>3, <1>4, <1>6, <1>7, Dispatched
<1>10. Fine(d, NoTask, ts, tc, sel)
    BY <1>7, <1>8, <1>9 DEF Fine, q
<1>11. PostedFor(d, p)
    <2>1. PostedFor(c, p)
        BY <1>1, <1>3, <1>5 DEF Core, Posted
    <2> QED
        BY <1>7, <2>1 DEF PostedFor
<1>12. ASSUME Connects(p), NEW i \in DOMAIN rest, Connects(rest[i]) PROVE FALSE
    <2>1. i \in 1 .. Len(posted) - 1 /\ i + 1 \in DOMAIN posted /\ rest[i] = posted[i + 1] /\ i + 1 # 1
        BY <1>5
    <2>2. Connects(posted[1]) /\ Connects(posted[i + 1])
        BY <1>5, <1>12, <2>1
    <2> QED
        BY <1>1, <1>3, <1>5, <2>1, <2>2 DEF Core, Posted
<1>13. TakenAs(c, d, p)
    BY <1>6, <1>11, <1>12 DEF TakenAs
<1> QED
    BY <1>3, <1>10, <1>13 DEF p

\* Nothing is delivered to a keeper that is gone.
LEMMA DestroyedFine ==
    ASSUME NEW c, NEW ts, NEW tc, NEW sel, Fine(c, NoTask, ts, tc, sel), NEW e,
           e.kind = "keep" => e.task \in DOMAIN c.tasks /\ c.tasks[e.task].finished /\ ~HasKeep(c.active, e.task),
           NEW d, d = Destroyed(c, e)
    PROVE  Fine(d, NoTask, ts, tc, sel)
<1>1. CASE e.kind # "keep"
    BY <1>1 DEF Destroyed
<1>2. CASE e.kind = "keep"
    <2> DEFINE q == ts \o c.queue
               k == e.task
               posted == c.posted
               kept == {i \in DOMAIN posted : posted[i].event = "destroyed" \/ posted[i].of # k}
               rest == Kept(posted, kept)
               a == [c EXCEPT !.posted = rest]
    <2>1. Typed(c) /\ Shape(c) /\ IsSeq(posted) /\ Core(c, NoTask, q, tc, sel) /\ NoTask \notin DOMAIN c.tasks
        BY TypedShape DEF Fine, Typed
    <2>2. d = detachFromMailbox(a, {k})
        BY <1>2 DEF Destroyed
    <2>3. kept \in SUBSET DOMAIN posted /\ posted = c.posted
        OBVIOUS
    <2>4. \A i \in kept : posted[i].event = "destroyed" \/ posted[i].of # k
        OBVIOUS
    <2>5. k \in DOMAIN c.tasks /\ c.tasks[k].finished /\ ~HasKeep(c.active, k)
        BY <1>2
    <2>6. rest = Kept(posted, kept) /\ a = [c EXCEPT !.posted = rest]
        OBVIOUS
    <2> HIDE DEF q, k, posted, kept, rest, a
    <2>7. IsSeq(rest) /\ Some(rest, posted)
        BY <2>1, <2>3, <2>6, KeptIsSome
    <2>8. ~Called(rest, k)
        <3>1. Len(posted) \in Nat /\ kept \in SUBSET (1 .. Len(posted))
            BY <2>1, <2>3, SeqFacts
        <3>2. Only(rest, posted, kept)
            BY <2>6, <3>1, KeptOf
        <3> QED
            BY <2>4, <3>2 DEF Only, Called
    <2>9. But(c, a, {"posted"}) /\ a.posted = rest
        BY <2>1, <2>6 DEF Shape, Fields, But
    <2>10. /\ But(a, d, {"inCharge", "maintaining"}) /\ d.inCharge = Without(a.inCharge, {k})
           /\ d.maintaining = (IF a.maintaining \in {k} THEN NoTask ELSE a.maintaining)
        <3>1. Shape(a)
            BY <2>9 DEF But
        <3> QED
            BY <2>2, <3>1, DetachFields
    <2>11. /\ d.tasks = c.tasks /\ d.active = c.active /\ d.posted = rest /\ d.queue = c.queue /\ Shape(d)
           /\ d.inCharge = Without(c.inCharge, {k})
           /\ d.maintaining = (IF c.maintaining = k THEN NoTask ELSE c.maintaining)
        BY <2>9, <2>10 DEF But, Fields
    <2>12. Typed(d)
        <3>1. d.inCharge = [m \in Mailboxes |-> d.inCharge[m]]
            BY <2>11 DEF Without
        <3> QED
            BY <2>1, <2>7, <2>11, <3>1 DEF Typed
    <2>13. Core(d, NoTask, q, tc, sel)
        BY <2>1, <2>3, <2>5, <2>7, <2>8, <2>11, Forgotten
    <2> QED
        BY <2>11, <2>12, <2>13 DEF Fine, q
<1> QED
    BY <1>1, <1>2

-----------------------------------------------------------------------------
(* What the server says                                                     *)

LEMMA TailOfCat ==
    ASSUME NEW s, IsSeq(s), s # <<>>, NEW t, IsSeq(t)
    PROVE  /\ Tail(s \o t) = Tail(s) \o t /\ (s \o t)[1] = Head(s) /\ s \o t # <<>>
           /\ IsSeq(s \o t) /\ IsSeq(Tail(s))
<1> DEFINE S == {s[k] : k \in 1 .. Len(s)}
           T == {t[k] : k \in 1 .. Len(t)}
<1>1. s \in Seq(S) /\ t \in Seq(T)
    BY DEF IsSeq
<1> HIDE DEF S, T
<1> DEFINE U == S \cup T
<1>2. s \in Seq(U) /\ t \in Seq(U)
    BY <1>1
<1> HIDE DEF U
<1>3. Tail(s \o t) = Tail(s) \o t
    BY <1>2
<1>4. (s \o t)[1] = Head(s) /\ s \o t # <<>>
    BY <1>2
<1> QED
    BY <1>3, <1>4, CatFacts, TailFacts

\* One thing more, or two, or none
LEMMA SaysMore ==
    ASSUME NEW s, IsSeq(s), NEW a, NEW b
    PROVE  s \o <<>> = s /\ s \o <<a>> = Append(s, a) /\ s \o <<a, b>> = Append(Append(s, a), b)
<1> DEFINE S == {s[k] : k \in 1 .. Len(s)}
           U == S \cup {a, b}
<1>1. s \in Seq(S)
    BY DEF IsSeq
<1> HIDE DEF S
<1>2. s \in Seq(U) /\ a \in U /\ b \in U
    BY <1>1
<1> HIDE DEF U
<1>3. s \o <<>> = s
    BY <1>2
<1>4. s \o <<a>> = Append(s, a)
    BY <1>2
<1>5. s \o <<a, b>> = Append(Append(s, a), b)
    BY <1>2
<1> QED
    BY <1>3, <1>4, <1>5

LEMMA SpokenMore ==
    ASSUME NEW s, IsSeq(s), Spoken(s), NEW r, IsData(r) \/ Tagged(r) \/ r.kind = "CLOSED"
    PROVE  IsSeq(Append(s, r)) /\ Spoken(Append(s, r))
<1>1. /\ IsSeq(Append(s, r)) /\ Len(s) \in Nat /\ DOMAIN s = 1 .. Len(s)
      /\ DOMAIN Append(s, r) = 1 .. Len(s) + 1
      /\ \A k \in 1 .. Len(s) : Append(s, r)[k] = s[k]
      /\ Append(s, r)[Len(s) + 1] = r
    BY AppendFacts, SeqFacts
<1> DEFINE t == Append(s, r)
<1> HIDE DEF t
<1>2. ASSUME NEW i \in DOMAIN t PROVE IsData(t[i]) \/ Tagged(t[i]) \/ t[i].kind = "CLOSED"
    <2>1. CASE i = Len(s) + 1
        BY <1>1, <2>1 DEF t
    <2>2. CASE i # Len(s) + 1
        <3>1. i \in DOMAIN s /\ t[i] = s[i]
            BY <1>1, <2>2 DEF t
        <3> QED
            BY <3>1 DEF Spoken
    <2> QED
        BY <2>1, <2>2
<1> QED
    BY <1>1, <1>2 DEF Spoken, t

\* The responses on their way, and what they mean to the client
Hearing(c, ts, tc, sel) == IsSeq(tc) /\ Spoken(tc) /\ Fine(c, NoTask, ts, tc, sel)

LEMMA MentionsFine ==
    ASSUME NEW c, NEW ts, NEW tc, NEW sel, Hearing(c, ts, tc, sel), NEW r,
           IsData(r) \/ r.kind = "CLOSED"
    PROVE  Hearing(c, ts, Append(tc, r), sel)
<1>1. ~Tagged(r)
    BY DEF IsData, Tagged
<1>2. IsSeq(Append(tc, r)) /\ Spoken(Append(tc, r))
    BY SpokenMore DEF Hearing
<1>3. Fine(c, NoTask, ts, Append(tc, r), sel)
    <2> DEFINE q == ts \o c.queue
    <2>1. IsSeq(tc) /\ Typed(c) /\ Core(c, NoTask, q, tc, sel)
        BY DEF Hearing, Fine
    <2> HIDE DEF q
    <2>2. Core(c, NoTask, q, Append(tc, r), sel)
        BY <1>1, <2>1, Mentions
    <2> QED
        BY <2>1, <2>2 DEF Fine, q
<1> QED
    BY <1>2, <1>3 DEF Hearing

IsAnswer(r, cmd) == Tagged(r) /\ r.of = cmd.kind /\ r.task = cmd.task

LEMMA AnswersOneFine ==
    ASSUME NEW c, NEW ts, IsSeq(ts), ts # <<>>, NEW tc, NEW sel, Hearing(c, ts, tc, sel), NEW r,
           Head(ts).kind # "SELECT", IsAnswer(r, Head(ts))
    PROVE  Hearing(c, Tail(ts), Append(tc, r), sel)
<1> DEFINE q == ts \o c.queue
           rest == Tail(ts) \o c.queue
           cmd == Head(ts)
<1>1. IsSeq(tc) /\ Spoken(tc) /\ Typed(c) /\ Core(c, NoTask, q, tc, sel) /\ IsSeq(c.queue)
    BY DEF Hearing, Fine, Typed
<1>2. IsSeq(Append(tc, r)) /\ Spoken(Append(tc, r))
    BY <1>1, SpokenMore DEF IsAnswer
<1>3. rest = Tail(q) /\ q[1] = cmd /\ q # <<>> /\ IsSeq(q)
    BY <1>1, TailOfCat
<1>4. cmd.kind # "SELECT" /\ r.of = cmd.kind /\ r.task = cmd.task
    BY DEF IsAnswer
<1> HIDE DEF q, cmd, rest
<1>5. Core(c, NoTask, rest, Append(tc, r), sel)
    BY <1>1, <1>3, <1>4, AnswersOne
<1> QED
    BY <1>1, <1>2, <1>5 DEF Hearing, Fine, rest

LEMMA AnswersSelectFine ==
    ASSUME NEW c, NEW ts, IsSeq(ts), ts # <<>>, NEW tc, NEW sel, Hearing(c, ts, tc, sel), NEW r, NEW new,
           Head(ts).kind = "SELECT", IsAnswer(r, Head(ts)),
           r.kind = "OK" => new = c.tasks[Head(ts).task].mailbox
    PROVE  Hearing(c, Tail(ts), Append(tc, r), new)
<1> DEFINE q == ts \o c.queue
           rest == Tail(ts) \o c.queue
           cmd == Head(ts)
<1>1. IsSeq(tc) /\ Spoken(tc) /\ Typed(c) /\ Core(c, NoTask, q, tc, sel) /\ IsSeq(c.queue)
    BY DEF Hearing, Fine, Typed
<1>2. IsSeq(Append(tc, r)) /\ Spoken(Append(tc, r))
    BY <1>1, SpokenMore DEF IsAnswer
<1>3. rest = Tail(q) /\ q[1] = cmd /\ q # <<>> /\ IsSeq(q)
    BY <1>1, TailOfCat
<1>4. /\ cmd.kind = "SELECT" /\ Tagged(r) /\ r.of = "SELECT" /\ r.task = cmd.task
      /\ r.kind = "OK" => new = c.tasks[cmd.task].mailbox
    BY DEF IsAnswer
<1> HIDE DEF q, cmd, rest
<1>5. Core(c, NoTask, rest, Append(tc, r), new)
    BY <1>1, <1>3, <1>4, AnswersSelect
<1> QED
    BY <1>1, <1>2, <1>5 DEF Hearing, Fine, rest

-----------------------------------------------------------------------------
(* The actions                                                              *)

LEMMA InvFacts ==
    ASSUME SwitchingInv, Sound
    PROVE  /\ IsSeq(toServer) /\ IsSeq(toClient) /\ Spoken(toClient)
           /\ Fine(client, NoTask, toServer, toClient, server.selected)
BY DEF SwitchingInv

\* Nothing is sent or received.
LEMMA Inside ==
    ASSUME SwitchingInv, Unwired, NEW d, client' = d,
           Safe(d, NoTask, toServer, toClient, server.selected)
    PROVE  SwitchingInv'
<1>1. toServer' = toServer /\ toClient' = toClient /\ server' = server
    BY DEF Unwired
<1>2. Sound' => Fine(client', NoTask, toServer', toClient', server'.selected)
    BY <1>1 DEF Safe, Halted, Sound
<1> QED
    BY <1>1, <1>2 DEF SwitchingInv

LEMMA SwitchStep ==
    ASSUME SwitchingInv, NEW m \in Mailboxes, switchToMailbox(m)
    PROVE  SwitchingInv'
<1> DEFINE d == findTaskResponsibleFor(client, m)
<1>1. Sound /\ client' = d /\ Unwired
    BY DEF switchToMailbox, MayOpen
<1>2. Fine(client, NoTask, toServer, toClient, server.selected) /\ IsSeq(toServer)
    BY <1>1, InvFacts
<1>3. Fine(d, NoTask, toServer, toClient, server.selected)
    <2>1. d = findTaskResponsibleFor(client, m)
        OBVIOUS
    <2> HIDE DEF d
    <2> QED
        BY <1>2, <2>1, FindFine
<1> HIDE DEF d
<1> QED
    BY <1>1, <1>3, Inside DEF Safe

LEMMA AddStep ==
    ASSUME SwitchingInv, NEW m \in Mailboxes, AddTask(m)
    PROVE  SwitchingInv'
<1> DEFINE c == findTaskResponsibleFor(client, m)
           k == c.inCharge[m]
           d == Post(Added(c, k), "slotActivateTasks", k)
<1>1. Sound /\ client' = d /\ Unwired
    BY DEF AddTask, MayOpen, Added
<1>2. Fine(client, NoTask, toServer, toClient, server.selected) /\ IsSeq(toServer)
    BY <1>1, InvFacts
<1>3. c = findTaskResponsibleFor(client, m)
    OBVIOUS
<1> HIDE DEF c
<1>4. Fine(c, NoTask, toServer, toClient, server.selected) /\ Responsible(c, m)
    BY <1>2, <1>3, FindFine
<1>5. k = c.inCharge[m] /\ d = Post(Added(c, k), "slotActivateTasks", k)
    OBVIOUS
<1> HIDE DEF k, d
<1>6. Fine(d, NoTask, toServer, toClient, server.selected)
    BY <1>2, <1>4, <1>5, AddFine
<1> QED
    BY <1>1, <1>6, Inside DEF Safe

\* The event loop takes an event.
LEMMA Dispatch ==
    ASSUME SwitchingInv, NEW event, Dispatches(event)
    PROVE  /\ Sound /\ IsSeq(toServer) /\ Head(client.posted).event = event
           /\ Fine(client, NoTask, toServer, toClient, server.selected)
           /\ Fine(Rest, NoTask, toServer, toClient, server.selected)
           /\ TakenAs(client, Rest, Head(client.posted))
<1>1. Sound /\ client.posted # <<>> /\ Head(client.posted).event = event
    BY DEF Dispatches
<1>2. Fine(client, NoTask, toServer, toClient, server.selected) /\ IsSeq(toServer)
    BY <1>1, InvFacts
<1>3. Rest = Taken(client)
    BY DEF Rest, Taken
<1> QED
    BY <1>1, <1>2, <1>3, TakenFine

LEMMA ExecuteStep ==
    ASSUME SwitchingInv, executeCommands
    PROVE  SwitchingInv'
<1> DEFINE c == Rest
           d == [c EXCEPT !.queue = <<>>]
           ts == toServer \o client.queue
<1>1. /\ Dispatches("executeCommands") /\ client' = d /\ toServer' = ts
      /\ toClient' = toClient /\ server' = server
    BY DEF executeCommands
<1>2. /\ Fine(c, NoTask, toServer, toClient, server.selected) /\ IsSeq(toServer)
      /\ TakenAs(client, c, Head(client.posted)) /\ IsSeq(toClient) /\ Spoken(toClient)
    BY <1>1, Dispatch DEF SwitchingInv
<1> HIDE DEF c
<1>3. c.queue = client.queue /\ Typed(c) /\ IsSeq(c.queue) /\ Shape(c)
    BY <1>2 DEF TakenAs, But, Fields, Fine, Typed
<1>4. IsSeq(<<>>)
    BY DEF IsSeq
<1>5. /\ d.tasks = c.tasks /\ d.active = c.active /\ d.posted = c.posted /\ d.queue = <<>>
      /\ d.maintaining = c.maintaining /\ d.inCharge = c.inCharge /\ Shape(d)
    BY <1>3 DEF Shape, Fields
<1> HIDE DEF d
<1>6. Typed(d)
    BY <1>3, <1>4, <1>5 DEF Typed
<1>7. IsSeq(ts) /\ ts = toServer \o c.queue
    BY <1>2, <1>3, CatFacts
<1> HIDE DEF ts
<1>8. ts \o d.queue = ts
    BY <1>5, <1>7, SaysMore
<1>9. Core(c, NoTask, ts, toClient, server.selected)
    BY <1>2, <1>7 DEF Fine
<1>10. Core(d, NoTask, ts, toClient, server.selected)
    BY <1>5, <1>9, SomeSelf, Dispatched
<1>11. Fine(d, NoTask, ts, toClient, server.selected)
    BY <1>6, <1>8, <1>10 DEF Fine
<1> QED
    BY <1>1, <1>2, <1>7, <1>11 DEF SwitchingInv

\* Who is called and runs has the connection.
LEMMA CalledFacts ==
    ASSUME NEW c, NEW x, NEW ts, NEW tc, NEW sel, Fine(c, x, ts, tc, sel), c.posted # <<>>,
           NEW p, p = Head(c.posted), p.event # "destroyed", NEW k \in DOMAIN c.tasks, k = p.of,
           Runs(c.tasks[k])
    PROVE  c.maintaining = k
<1> DEFINE posted == c.posted
<1>1. IsSeq(posted) /\ posted # <<>> /\ p = Head(posted) /\ posted = c.posted
    BY DEF Fine, Typed
<1> HIDE DEF posted
<1>2. 1 \in DOMAIN posted /\ posted[1] = p
    BY <1>1, TailFacts
<1>3. Called(c.posted, k)
    BY <1>1, <1>2 DEF Called
<1> QED
    BY <1>3 DEF Fine, Core, Maintaining, Engaged

LEMMA SlotStep ==
    ASSUME SwitchingInv, SlotRuns
    PROVE  SwitchingInv'
<1> DEFINE c == Rest
           p == Head(client.posted)
           k == p.of
<1>1. Unwired
    BY DEF SlotRuns
<1>2. /\ c = Rest /\ p = Head(client.posted) /\ k = p.of
      /\ \/ Dispatches("terminate") /\ client' = terminate(c, k)
         \/ Dispatches("slotPerformConnection") /\ client' = slotPerformConnection(c, k)
         \/ Dispatches("slotActivateTasks") /\ client' = activateTasks(c, k)
    BY DEF SlotRuns
<1> HIDE DEF c, p, k
<1>3. ASSUME NEW event, Dispatches(event)
      PROVE  /\ IsSeq(toServer) /\ p.event = event
             /\ Fine(c, NoTask, toServer, toClient, server.selected)
             /\ PostedFor(c, p) /\ (Connects(p) => \A i \in DOMAIN c.posted : ~Connects(c.posted[i]))
             /\ event # "destroyed" /\ k \in DOMAIN c.tasks /\ Runs(c.tasks[k]) => c.maintaining = k
    <2>1. /\ IsSeq(toServer) /\ p.event = event /\ TakenAs(client, c, p)
          /\ Fine(c, NoTask, toServer, toClient, server.selected)
          /\ Fine(client, NoTask, toServer, toClient, server.selected)
        BY <1>2, <1>3, Dispatch
    <2>2. c.tasks = client.tasks /\ c.maintaining = client.maintaining
        BY <2>1 DEF TakenAs, But, Fields
    <2>3. client.posted # <<>>
        BY <1>3 DEF Dispatches
    <2>4. event # "destroyed" /\ k \in DOMAIN c.tasks /\ Runs(c.tasks[k]) => c.maintaining = k
        <3>1. SUFFICES ASSUME event # "destroyed", k \in DOMAIN c.tasks, Runs(c.tasks[k])
                       PROVE  c.maintaining = k
            OBVIOUS
        <3> QED
            BY <1>2, <2>1, <2>2, <2>3, <3>1, CalledFacts
    <2> QED
        BY <2>1, <2>4 DEF TakenAs
<1>4. CASE Dispatches("terminate") /\ client' = terminate(c, k)
    <2> DEFINE d == terminate(c, k)
    <2>1. /\ IsSeq(toServer) /\ p.event = "terminate" /\ PostedFor(c, p)
          /\ Fine(c, NoTask, toServer, toClient, server.selected)
          /\ k \in DOMAIN c.tasks /\ Runs(c.tasks[k]) => c.maintaining = k
        BY <1>3, <1>4
    <2>2. k \in DOMAIN c.tasks /\ (Runs(c.tasks[k]) \/ c.tasks[k].aborted)
        BY <1>2, <2>1 DEF PostedFor
    <2>3. Runs(c.tasks[k]) => c.maintaining = k
        BY <2>1, <2>2
    <2>4. d = terminate(c, k) /\ (c.tasks[k].aborted \/ (Runs(c.tasks[k]) /\ c.maintaining = k))
        BY <2>2, <2>3
    <2> HIDE DEF d
    <2>5. Safe(d, NoTask, toServer, toClient, server.selected)
        BY <2>1, <2>2, <2>4, TerminateFine
    <2> QED
        BY <1>1, <1>4, <2>4, <2>5, Inside
<1>5. CASE Dispatches("slotPerformConnection") /\ client' = slotPerformConnection(c, k)
    <2> DEFINE d == slotPerformConnection(c, k)
    <2>1. /\ IsSeq(toServer) /\ p.event = "slotPerformConnection" /\ PostedFor(c, p)
          /\ Fine(c, NoTask, toServer, toClient, server.selected)
          /\ Connects(p) => \A i \in DOMAIN c.posted : ~Connects(c.posted[i])
        BY <1>3, <1>5
    <2>2. /\ k \in DOMAIN c.tasks /\ c.maintaining = k /\ Waits(c.tasks[k])
          /\ \A i \in DOMAIN c.posted : ~Connects(c.posted[i])
        BY <1>2, <2>1 DEF PostedFor, Connects
    <2>4. d = slotPerformConnection(c, k)
        OBVIOUS
    <2> HIDE DEF d
    <2>5. Safe(d, NoTask, toServer, toClient, server.selected)
        BY <2>1, <2>2, <2>4, ConnectionFine
    <2> QED
        BY <1>1, <1>5, <2>4, <2>5, Inside
<1>6. CASE Dispatches("slotActivateTasks") /\ client' = activateTasks(c, k)
    <2> DEFINE d == activateTasks(c, k)
    <2>1. /\ IsSeq(toServer) /\ p.event = "slotActivateTasks" /\ PostedFor(c, p)
          /\ Fine(c, NoTask, toServer, toClient, server.selected)
          /\ k \in DOMAIN c.tasks /\ Runs(c.tasks[k]) => c.maintaining = k
        BY <1>3, <1>6
    <2>2. k \in DOMAIN c.tasks /\ (Runs(c.tasks[k]) => c.maintaining = k)
        BY <1>2, <2>1 DEF PostedFor
    <2>4. d = activateTasks(c, k)
        OBVIOUS
    <2> HIDE DEF d
    <2>5. Safe(d, NoTask, toServer, toClient, server.selected)
        BY <2>1, <2>2, <2>4, ActivateFine DEF Safe
    <2> QED
        BY <1>1, <1>6, <2>4, <2>5, Inside
<1> QED
    BY <1>2, <1>4, <1>5, <1>6

LEMMA DestroyedStep ==
    ASSUME SwitchingInv, TaskDestroyed
    PROVE  SwitchingInv'
<1> DEFINE c == Rest
           p == Head(client.posted)
           e == p.of
           a == Destroyed(c, e)
           d == Told(a, e)
<1>1. Unwired /\ client' = d /\ Dispatches("destroyed")
    BY DEF TaskDestroyed
<1>2. /\ c = Rest /\ p = Head(client.posted) /\ e = p.of /\ a = Destroyed(c, e) /\ d = Told(a, e)
    OBVIOUS
<1> HIDE DEF c, p, e, a, d
<1>3. /\ IsSeq(toServer) /\ p.event = "destroyed" /\ PostedFor(c, p)
      /\ Fine(c, NoTask, toServer, toClient, server.selected)
    BY <1>1, <1>2, Dispatch DEF TakenAs
<1>4. e.kind = "keep" => e.task \in DOMAIN c.tasks /\ c.tasks[e.task].finished /\ ~HasKeep(c.active, e.task)
    BY <1>2, <1>3 DEF PostedFor
<1>5. Fine(a, NoTask, toServer, toClient, server.selected)
    BY <1>2, <1>3, <1>4, DestroyedFine
<1>6. Safe(d, NoTask, toServer, toClient, server.selected)
    BY <1>2, <1>3, <1>5, ToldFine
<1> QED
    BY <1>1, <1>6, Inside

\* The client is sound before the response is taken off.
LEMMA Unread ==
    ASSUME NEW c, NEW ts, NEW tc, NEW sel, Fine(c, NoTask, ts, tc, sel), IsSeq(tc), tc # <<>>, Spoken(tc)
    PROVE  /\ Fine(c, NoTask, ts, Tail(tc), sel) /\ IsSeq(Tail(tc)) /\ Spoken(Tail(tc))
           /\ IsData(Head(tc)) \/ Tagged(Head(tc)) \/ Head(tc).kind = "CLOSED"
<1> DEFINE q == ts \o c.queue
           rest == Tail(tc)
           r == Head(tc)
<1>1. Typed(c) /\ Core(c, NoTask, q, tc, sel)
    BY DEF Fine
<1>2. /\ IsSeq(rest) /\ r = tc[1] /\ 1 \in DOMAIN tc /\ Len(tc) \in Nat /\ DOMAIN tc = 1 .. Len(tc)
      /\ DOMAIN rest = 1 .. Len(tc) - 1 /\ \A i \in 1 .. Len(tc) - 1 : rest[i] = tc[i + 1]
    BY TailFacts, SeqFacts
<1> HIDE DEF q
<1>3. Core(c, NoTask, q, rest, sel)
    BY <1>1, Hears
<1> HIDE DEF rest, r
<1>4. Fine(c, NoTask, ts, rest, sel)
    BY <1>1, <1>3 DEF Fine, q
<1>5. \A i \in DOMAIN rest : i + 1 \in DOMAIN tc /\ rest[i] = tc[i + 1]
    BY <1>2
<1>6. Spoken(rest)
    BY <1>5 DEF Spoken
<1>7. IsData(r) \/ Tagged(r) \/ r.kind = "CLOSED"
    BY <1>2 DEF Spoken
<1> QED
    BY <1>2, <1>4, <1>6, <1>7 DEF rest, r

LEMMA ReceivedStep ==
    ASSUME SwitchingInv, responseReceived
    PROVE  SwitchingInv'
<1> DEFINE r == Head(toClient)
           rest == Tail(toClient)
           i == Taker(client, r)
           e == client.active[i]
<1>1. Sound /\ toClient # <<>> /\ toClient' = rest /\ toServer' = toServer /\ server' = server
    BY DEF responseReceived
<1>2. /\ r.kind = "CLOSED" => client' = removeDeletedTasks(Closed(client), 0)
      /\ r.kind # "CLOSED" /\ i = 0 => client' = Kill(client)
      /\ r.kind # "CLOSED" /\ i # 0 =>
           \E next \in {"completed", "SYNCING"} :
               client' = removeDeletedTasks(Handles(client, e, r, next), IF e.kind = "command" THEN i ELSE 0)
    BY DEF responseReceived
<1>3. i = Taker(client, r) /\ e = client.active[i] /\ r = Head(toClient) /\ rest = Tail(toClient)
    OBVIOUS
<1>4. /\ IsSeq(toServer) /\ IsSeq(toClient) /\ Spoken(toClient)
      /\ Fine(client, NoTask, toServer, toClient, server.selected)
    BY <1>1, InvFacts
<1> HIDE DEF r, rest, i, e
<1>5. /\ Fine(client, NoTask, toServer, rest, server.selected) /\ IsSeq(rest) /\ Spoken(rest)
      /\ IsData(r) \/ Tagged(r) \/ r.kind = "CLOSED"
    BY <1>1, <1>3, <1>4, Unread
<1>6. SUFFICES Sound' => Fine(client', NoTask, toServer, rest, server.selected)
    BY <1>1, <1>4, <1>5 DEF SwitchingInv
<1>7. Typed(client) /\ Shape(client) /\ IsSeq(client.active) /\ NoTask \notin DOMAIN client.tasks
    BY <1>4, TypedShape DEF Fine, Typed
<1>8. CASE r.kind = "CLOSED"
    <2> DEFINE a == Closed(client)
               d == removeDeletedTasks(a, 0)
    <2>1. client' = d
        BY <1>2, <1>8
    <2>2. a = Closed(client) /\ d = removeDeletedTasks(a, 0)
        OBVIOUS
    <2> HIDE DEF a, d
    <2>3. Fine(a, NoTask, toServer, rest, server.selected)
        BY <1>5, <2>2, ClosedFine
    <2>4. \A k \in DOMAIN a.active : k = 0 => a.active[k].kind = "command"
        <3>1. Typed(a)
            BY <2>3 DEF Fine
        <3> QED
            BY <3>1, TasksCounted
    <2>5. Fine(d, NoTask, toServer, rest, server.selected)
        BY <2>2, <2>3, <2>4, RemovesFine
    <2> QED
        BY <2>1, <2>5
<1>9. CASE r.kind # "CLOSED" /\ i = 0
    <2>1. client' = Kill(client)
        BY <1>2, <1>9
    <2>2. client'.killed
        BY <1>7, <2>1, KillFields
    <2> QED
        BY <2>2 DEF Sound
<1>10. CASE r.kind # "CLOSED" /\ i # 0
    <2>1. PICK next : client' = removeDeletedTasks(Handles(client, e, r, next), IF e.kind = "command" THEN i ELSE 0)
        BY <1>2, <1>10
    <2>2. i \in DOMAIN client.active /\ Takes(client, e, r)
        BY <1>3, <1>7, <1>10, TakerFacts
    <2>3. Heard(client, toServer \o client.queue, rest, server.selected, e, r)
        <3> DEFINE q == toServer \o client.queue
        <3>1. Core(client, NoTask, q, toClient, server.selected)
            BY <1>4 DEF Fine
        <3>2. r = toClient[1]
            BY <1>1, <1>3, <1>4, TailFacts
        <3> HIDE DEF q
        <3>3. Heard(client, q, rest, server.selected, e, r)
            BY <1>1, <1>3, <1>4, <1>5, <1>7, <1>10, <2>2, <3>1, <3>2, HeardFacts
        <3> QED
            BY <3>3 DEF q
    <2> DEFINE d == removeDeletedTasks(Handles(client, e, r, next), IF e.kind = "command" THEN i ELSE 0)
    <2>4. client' = d
        BY <2>1
    <2>5. Safe(d, NoTask, toServer, rest, server.selected)
        BY <1>3, <1>4, <1>5, <2>2, <2>3, ReceivesFine
    <2> HIDE DEF d
    <2> QED
        BY <2>4, <2>5 DEF Safe, Halted, Sound
<1> QED
    BY <1>8, <1>9, <1>10

\* What the server reads is the first of the commands.
LEMMA Reads ==
    ASSUME SwitchingInv, ServerReads
    PROVE  /\ Sound /\ toServer # <<>> /\ toServer' = Tail(toServer) /\ client' = client
           /\ IsSeq(toServer) /\ IsSeq(Tail(toServer)) /\ IsSeq(toClient) /\ (Sound <=> Sound')
           /\ Hearing(client, toServer, toClient, server.selected)
<1>1. Sound /\ toServer # <<>> /\ toServer' = Tail(toServer) /\ client' = client
    BY DEF ServerReads
<1>2. /\ IsSeq(toServer) /\ IsSeq(toClient) /\ Spoken(toClient)
      /\ Fine(client, NoTask, toServer, toClient, server.selected)
    BY <1>1, InvFacts
<1>3. IsSeq(Tail(toServer))
    BY <1>1, <1>2, TailFacts
<1>4. Sound <=> Sound'
    BY <1>1 DEF Sound
<1> QED
    BY <1>1, <1>2, <1>3, <1>4 DEF Hearing

\* What the invariant asks of the server, and of what it has said
LEMMA Outside ==
    ASSUME SwitchingInv, client' = client, IsSeq(toServer'),
           Hearing(client, toServer', toClient', server'.selected),
           server' = [kind |-> server'.kind, selected |-> server'.selected, refused |-> server'.refused,
                      announced |-> server'.announced]
    PROVE  SwitchingInv'
BY DEF SwitchingInv, Hearing

ServerShape(s) ==
    s = [kind |-> s.kind, selected |-> s.selected, refused |-> s.refused, announced |-> s.announced]

LEMMA SelectsStep ==
    ASSUME SwitchingInv, Selects
    PROVE  SwitchingInv'
<1> DEFINE cmd == Head(toServer)
           m == client.tasks[cmd.task].mailbox
           yes == Answer("OK", cmd)
           no == Answer("NO", cmd)
           closed == [kind |-> "CLOSED"]
           exists == [kind |-> "EXISTS", about |-> m]
<1>1. ServerReads /\ cmd.kind = "SELECT" /\ cmd = Head(toServer)
    BY DEF Selects
<1>2. /\ toServer # <<>> /\ toServer' = Tail(toServer) /\ client' = client
      /\ IsSeq(toServer) /\ IsSeq(Tail(toServer)) /\ IsSeq(toClient)
      /\ Hearing(client, toServer, toClient, server.selected)
    BY <1>1, Reads
<1>3. ServerShape(server)
    BY DEF SwitchingInv, ServerShape
<1>4. /\ IsAnswer(yes, cmd) /\ IsAnswer(no, cmd) /\ no.kind # "OK"
      /\ IsData(exists) /\ closed.kind = "CLOSED"
    BY DEF Answer, IsAnswer, Tagged, IsData
<1>5. ASSUME NEW said \in BOOLEAN
      PROVE  Hearing(client, toServer, toClient \o ClosedIf(said), server.selected)
    <2>1. CASE said
        <3>1. toClient \o ClosedIf(said) = Append(toClient, closed)
            BY <1>2, <2>1, SaysMore DEF ClosedIf
        <3> HIDE DEF closed
        <3> QED
            BY <1>2, <1>4, <3>1, MentionsFine
    <2>2. CASE ~said
        <3>1. toClient \o ClosedIf(said) = toClient
            BY <1>2, <2>2, SaysMore DEF ClosedIf
        <3> QED
            BY <1>2, <3>1
    <2> QED
        BY <2>1, <2>2
<1>6. \/ \E said \in BOOLEAN : /\ toClient' = toClient \o ClosedIf(said) \o <<exists, yes>>
                               /\ server' = [server EXCEPT !.selected = m]
      \/ \E said \in BOOLEAN : /\ toClient' = toClient \o ClosedIf(said) \o <<no>>
                               /\ server' = [server EXCEPT !.selected = NoMailbox,
                                                           !.refused = @ \cup {"SELECT"}]
    BY DEF Selects, SaysClosed
<1>7. m = client.tasks[cmd.task].mailbox
    OBVIOUS
<1> HIDE DEF cmd, m, yes, no, closed, exists
<1>8. CASE \E said \in BOOLEAN : /\ toClient' = toClient \o ClosedIf(said) \o <<exists, yes>>
                                 /\ server' = [server EXCEPT !.selected = m]
    <2>1. PICK said \in BOOLEAN : /\ toClient' = toClient \o ClosedIf(said) \o <<exists, yes>>
                                  /\ server' = [server EXCEPT !.selected = m]
        BY <1>8
    <2> DEFINE before == toClient \o ClosedIf(said)
    <2>2. Hearing(client, toServer, before, server.selected) /\ toClient' = before \o <<exists, yes>>
        BY <1>5, <2>1
    <2> HIDE DEF before
    <2>3. toClient' = Append(Append(before, exists), yes)
        BY <2>2, SaysMore DEF Hearing
    <2>4. Hearing(client, toServer, Append(before, exists), server.selected)
        BY <1>4, <2>2, MentionsFine
    <2>5. Hearing(client, Tail(toServer), Append(Append(before, exists), yes), m)
        BY <1>1, <1>2, <1>4, <1>7, <2>4, AnswersSelectFine
    <2>6. server'.selected = m /\ ServerShape(server')
        BY <1>3, <2>1 DEF ServerShape
    <2> QED
        BY <1>2, <2>3, <2>5, <2>6, Outside DEF ServerShape
<1>9. CASE \E said \in BOOLEAN : /\ toClient' = toClient \o ClosedIf(said) \o <<no>>
                                 /\ server' = [server EXCEPT !.selected = NoMailbox,
                                                             !.refused = @ \cup {"SELECT"}]
    <2>1. PICK said \in BOOLEAN : /\ toClient' = toClient \o ClosedIf(said) \o <<no>>
                                  /\ server' = [server EXCEPT !.selected = NoMailbox,
                                                              !.refused = @ \cup {"SELECT"}]
        BY <1>9
    <2> DEFINE before == toClient \o ClosedIf(said)
    <2>2. Hearing(client, toServer, before, server.selected) /\ toClient' = before \o <<no>>
        BY <1>5, <2>1
    <2> HIDE DEF before
    <2>3. toClient' = Append(before, no)
        BY <2>2, SaysMore DEF Hearing
    <2>4. Hearing(client, Tail(toServer), Append(before, no), NoMailbox)
        BY <1>1, <1>2, <1>4, <2>2, AnswersSelectFine
    <2>5. server'.selected = NoMailbox /\ ServerShape(server')
        BY <1>3, <2>1 DEF ServerShape
    <2> QED
        BY <1>2, <2>3, <2>4, <2>5, Outside DEF ServerShape
<1> QED
    BY <1>6, <1>8, <1>9

LEMMA AnswersStep ==
    ASSUME SwitchingInv, Answers
    PROVE  SwitchingInv'
<1> DEFINE cmd == Head(toServer)
           yes == Answer("OK", cmd)
           no == Answer("NO", cmd)
           data == Data("FETCH")
<1>1. ServerReads /\ cmd.kind # "SELECT" /\ cmd = Head(toServer)
    BY DEF Answers
<1>2. /\ toServer # <<>> /\ toServer' = Tail(toServer) /\ client' = client
      /\ IsSeq(toServer) /\ IsSeq(Tail(toServer)) /\ IsSeq(toClient)
      /\ Hearing(client, toServer, toClient, server.selected)
    BY <1>1, Reads
<1>3. ServerShape(server)
    BY DEF SwitchingInv, ServerShape
<1>4. IsAnswer(yes, cmd) /\ IsAnswer(no, cmd) /\ IsData(data)
    BY DEF Answer, IsAnswer, Tagged, IsData, Data
<1>5. \/ toClient' = toClient \o <<data, yes>> /\ server' = server
      \/ toClient' = toClient \o <<no>> /\ server' = [server EXCEPT !.refused = @ \cup {cmd.kind}]
    BY DEF Answers
<1> HIDE DEF cmd, yes, no, data
<1>6. CASE toClient' = toClient \o <<data, yes>> /\ server' = server
    <2>1. toClient' = Append(Append(toClient, data), yes)
        BY <1>2, <1>6, SaysMore
    <2>2. Hearing(client, toServer, Append(toClient, data), server.selected)
        BY <1>2, <1>4, MentionsFine
    <2>3. Hearing(client, Tail(toServer), Append(Append(toClient, data), yes), server.selected)
        BY <1>1, <1>2, <1>4, <2>2, AnswersOneFine
    <2> QED
        BY <1>2, <1>3, <1>6, <2>1, <2>3, Outside DEF ServerShape
<1>7. CASE toClient' = toClient \o <<no>> /\ server' = [server EXCEPT !.refused = @ \cup {cmd.kind}]
    <2>1. toClient' = Append(toClient, no)
        BY <1>2, <1>7, SaysMore
    <2>2. Hearing(client, Tail(toServer), Append(toClient, no), server.selected)
        BY <1>1, <1>2, <1>4, AnswersOneFine
    <2>3. server'.selected = server.selected /\ ServerShape(server')
        BY <1>3, <1>7 DEF ServerShape
    <2> QED
        BY <1>2, <2>1, <2>2, <2>3, Outside DEF ServerShape
<1> QED
    BY <1>5, <1>6, <1>7

LEMMA AnnouncesStep ==
    ASSUME SwitchingInv, Announces
    PROVE  SwitchingInv'
<1> DEFINE data == Data("EXISTS")
<1>1. /\ Sound /\ toClient' = Append(toClient, data) /\ client' = client /\ toServer' = toServer
      /\ server' = [server EXCEPT !.announced = @ + 1]
    BY DEF Announces
<1>2. IsSeq(toServer) /\ Hearing(client, toServer, toClient, server.selected)
    BY <1>1, InvFacts DEF Hearing
<1>3. IsData(data)
    BY DEF IsData, Data
<1>4. server'.selected = server.selected /\ ServerShape(server')
    BY <1>1 DEF SwitchingInv, ServerShape
<1> HIDE DEF data
<1>5. Hearing(client, toServer, Append(toClient, data), server.selected)
    BY <1>2, <1>3, MentionsFine
<1> QED
    BY <1>1, <1>2, <1>4, <1>5, Outside DEF ServerShape

LEMMA StillStep ==
    ASSUME SwitchingInv, UNCHANGED vars
    PROVE  SwitchingInv'
BY DEF SwitchingInv, vars, Sound

-----------------------------------------------------------------------------
(* The theorem                                                              *)

LEMMA InitFine ==
    ASSUME NEW c, c = [tasks |-> <<>>, active |-> <<>>, connState |-> "AUTHENTICATED",
                       maintaining |-> NoTask, inCharge |-> [m \in Mailboxes |-> NoTask],
                       posted |-> <<>>, queue |-> <<>>, killed |-> FALSE, asserted |-> FALSE,
                       commands |-> 0], NEW sel
    PROVE  Fine(c, NoTask, <<>>, <<>>, sel)
<1>1. IsSeq(<<>>) /\ DOMAIN <<>> = {} /\ <<>> \o <<>> = <<>>
    BY DEF IsSeq
<1>2. /\ c.tasks = <<>> /\ c.active = <<>> /\ c.posted = <<>> /\ c.queue = <<>>
      /\ c.maintaining = NoTask /\ c.inCharge = [m \in Mailboxes |-> NoTask] /\ Shape(c)
    BY DEF Shape, Fields
<1>3. Typed(c)
    BY <1>1, <1>2 DEF Typed, Tasked
<1>4. Stages(c) /\ Maintaining(c) /\ Active(c, NoTask) /\ Posted(c) /\ Waiting(c)
    BY <1>1, <1>2 DEF Stages, Maintaining, Active, Posted, Waiting
<1>5. Wired(c, <<>>, <<>>, sel)
    BY <1>1, <1>2 DEF Wired, Asking, Answering, Using
<1> QED
    BY <1>1, <1>2, <1>3, <1>4, <1>5 DEF Fine, Core

LEMMA InitHolds ==
    ASSUME Init
    PROVE  SwitchingInv
<1>1. toServer = <<>> /\ toClient = <<>>
    BY DEF Init
<1>2. IsSeq(<<>>) /\ Spoken(<<>>)
    BY DEF IsSeq, Spoken
<1>3. server = [kind |-> server.kind, selected |-> server.selected, refused |-> server.refused,
                announced |-> server.announced]
    BY DEF Init
<1>4. Fine(client, NoTask, <<>>, <<>>, server.selected)
    BY InitFine DEF Init
<1> QED
    BY <1>1, <1>2, <1>3, <1>4 DEF SwitchingInv

LEMMA NextStep ==
    ASSUME SwitchingInv, [Next]_vars
    PROVE  SwitchingInv'
<1>1. CASE User
    BY <1>1, SwitchStep, AddStep DEF User
<1>2. CASE ClientStep
    BY <1>2, ExecuteStep, SlotStep, DestroyedStep, ReceivedStep DEF ClientStep
<1>3. CASE ServerStep
    BY <1>3, SelectsStep, AnswersStep DEF ServerStep
<1>4. CASE Announces
    BY <1>4, AnnouncesStep
<1>5. CASE Ended
    BY <1>5, StillStep DEF Ended
<1>6. CASE UNCHANGED vars
    BY <1>6, StillStep
<1> QED
    BY <1>1, <1>2, <1>3, <1>4, <1>5, <1>6 DEF Next

\* The first of the commands is for the mailbox that is selected.
LEMMA InvMeets ==
    ASSUME SwitchingInv
    PROVE  CommandsMeetTheirMailbox
<1> DEFINE q == toServer \o client.queue
           cmd == Head(toServer)
<1>1. SUFFICES ASSUME Sound, toServer # <<>>, Head(toServer).kind # "SELECT"
               PROVE  client.tasks[Head(toServer).task].mailbox = server.selected
    BY DEF CommandsMeetTheirMailbox
<1>2. IsSeq(toServer) /\ IsSeq(client.queue) /\ Core(client, NoTask, q, toClient, server.selected)
    BY <1>1, InvFacts DEF Fine, Typed
<1>3. IsSeq(q) /\ q # <<>> /\ q[1] = cmd
    BY <1>1, <1>2, TailOfCat
<1> HIDE DEF q
<1>4. 1 \in DOMAIN q
    BY <1>3, TailFacts
<1> QED
    BY <1>1, <1>2, <1>3, <1>4 DEF Core, Wired, Asking

\* Every command reaches the server while the mailbox it is meant for is selected,
\* for every set of mailboxes, every kind of server, every choice of what it refuses
\* and every number of pairs, commands and arrivals: activateTasks(), terminate() and
\* slotPerformConnection() never let a task speak in the mailbox of another keeper.
THEOREM CommandsAlwaysMeetTheirMailbox == Spec => []CommandsMeetTheirMailbox
<1>1. Init => SwitchingInv
    BY InitHolds
<1>2. SwitchingInv /\ [Next]_vars => SwitchingInv'
    BY NextStep
<1>3. SwitchingInv => CommandsMeetTheirMailbox
    BY InvMeets
<1> QED
    BY <1>1, <1>2, <1>3, PTL DEF Spec
===============================================================================
